------------------------------ MODULE TagCache ------------------------------
(***************************************************************************)
(* What createTags promises those who build parsers (request_tags.go, the  *)
(* docs of createTags and of the cache): a cache that is filled with the   *)
(* tags of a type once and then keeps them; a call answers with them, or   *)
(* panics for a type that has none.  There are no locks and no walks here. *)
(***************************************************************************)
CONSTANTS
    Goroutines,     \* each makes one call
    RequestTypes,   \* the types of the calls
    Tags            \* from the types that are well-formed to their tags

VARIABLES
    arg,       \* the type of each call
    cache,     \* from the types compiled so far to their tags
    answers,   \* from the calls that returned to the tags they gave
    refused    \* the calls that panicked

tvars == <<arg, cache, answers, refused>>

Waiting(g) == g \notin DOMAIN answers \cup refused

Compile(g) ==
    /\ Waiting(g) /\ arg[g] \in DOMAIN Tags \ DOMAIN cache
    /\ cache' = [t \in DOMAIN cache \cup {arg[g]} |->
                    IF t = arg[g] THEN Tags[t] ELSE cache[t]]
    /\ UNCHANGED <<arg, answers, refused>>

Answer(g) ==
    /\ Waiting(g) /\ arg[g] \in DOMAIN cache
    /\ answers' = [h \in DOMAIN answers \cup {g} |->
                      IF h = g THEN cache[arg[g]] ELSE answers[h]]
    /\ UNCHANGED <<arg, cache, refused>>

Refuse(g) ==
    /\ Waiting(g) /\ arg[g] \notin DOMAIN Tags
    /\ refused' = refused \cup {g}
    /\ UNCHANGED <<arg, cache, answers>>

Init ==
    /\ arg \in [Goroutines -> RequestTypes]
    /\ cache = <<>> /\ answers = <<>> /\ refused = {}

Next == \E g \in Goroutines : Compile(g) \/ Answer(g) \/ Refuse(g)

Spec == Init /\ [][Next]_tvars

=============================================================================
