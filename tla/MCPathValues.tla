----------------------------- MODULE MCPathValues ------------------------------
(* The names only differ, so that TLC may take them in any order.           *)
EXTENDS PathValues, TLC

Renamings == Permutations(Names)

=============================================================================
