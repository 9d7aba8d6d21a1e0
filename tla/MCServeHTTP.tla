----------------------------- MODULE MCServeHTTP -----------------------------
(***************************************************************************)
(* Instances of ServeHTTP for TLC.  The statuses straddle both bounds that *)
(* NewResponse checks; a stream body sends an informational status and a   *)
(* second final one.                                                       *)
(***************************************************************************)
EXTENDS ServeHTTP

BoundaryStatuses == {199, 200, 599, 600}
LateStatuses     == {103, 500}

=============================================================================
