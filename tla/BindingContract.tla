--------------------------- MODULE BindingContract ---------------------------
(***************************************************************************)
(* What a binding of a form or JSON body under a timeout may return, and   *)
(* leave of the request body that all parsers of a chain share.  BodyBind  *)
(* keeps to it with its goroutines (BoundedBinding); RequestBinding, which *)
(* composes several bindings, takes one step for each.                     *)
(***************************************************************************)
EXTENDS Naturals

\* Outcomes, as the code's statuses; the first three are not error statuses.
OK       == 0
Pending  == 1
Panicked == 2
Outcomes == {OK, Panicked, 400, 408, 411, 413, 415, 500}

\* The body: untouched, begun, read to its end, or closed, which is also what
\* a client that is gone amounts to.
Rests == {"whole", "part", "drained", "closed"}

\* What is left when a reader stops early, in or after what it found.
LeftOf(found) == IF found \in {"whole", "part"} THEN {"part", "drained"} ELSE {found}

\* A binding to target (form or json) that finds the body as found may return
\* s and leave the body as left.
Allowed(target, found, s, left) ==
    \/ s \in {411, 413, 415} /\ left = found
    \/ /\ s = OK /\ left = "drained" /\ found # "closed"
       /\ found = "drained" => target = "form"
    \/ s = Panicked /\ found # "closed" /\ left \in LeftOf(found)
    \/ s = 400 /\ target = "form" /\ found \in {"whole", "part"} /\ left = "drained"
    \/ s = 400 /\ target = "json" /\ found # "closed" /\ left \in LeftOf(found)
    \/ s = 400 /\ target = "json" /\ found # "drained" /\ left = "closed"
    \/ s = 500 /\ target = "form" /\ found # "drained" /\ left = "closed"
    \/ s = 408 /\ left = "closed"

=============================================================================
