--------------------------- MODULE BoundedBinding ---------------------------
(***************************************************************************)
(* One binding of a body that no parser has read, as its caller sees it:   *)
(* at most one outcome, within BindingContract, and nobody touches the     *)
(* body after it.                                                          *)
(***************************************************************************)
EXTENDS BindingContract

VARIABLES
    target,   \* what the body is bound to
    outcome,  \* what the binding returned, or Pending
    rest      \* what is left of the body

bvars == <<target, outcome, rest>>

Init == target \in {"form", "json"} /\ outcome = Pending /\ rest = "whole"

Resolve(s, left) ==
    /\ outcome = Pending /\ Allowed(target, rest, s, left)
    /\ outcome' = s /\ rest' = left
    /\ UNCHANGED target

Next == \E s \in Outcomes, left \in Rests : Resolve(s, left)

Spec == Init /\ [][Next]_bvars

=============================================================================
