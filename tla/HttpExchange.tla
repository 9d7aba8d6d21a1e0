---------------------------- MODULE HttpExchange ----------------------------
(***************************************************************************)
(* What the server promises the client of one request, with everything     *)
(* about handlers, contexts and writers left out.  The client gets one     *)
(* final status and then body bytes, or the connection is taken over; an   *)
(* exchange is cut off only after the client saw a status, and it never    *)
(* ends with the client having seen nothing.                               *)
(***************************************************************************)
EXTENDS Naturals

VARIABLES
    mode,    \* how far the exchange has come
    status,  \* final status the client received, 0 before
    bytes    \* body units the client was sent

vars == <<mode, status, bytes>>

Ended == {"complete", "aborted", "takenover"}

Init == mode = "pending" /\ status = 0 /\ bytes = 0

\* The response is committed: this happens once.
Respond(code) ==
    /\ mode = "pending"
    /\ mode' = "responding" /\ status' = code
    /\ UNCHANGED bytes

Send ==
    /\ mode = "responding"
    /\ bytes' \in Nat /\ bytes' > bytes
    /\ UNCHANGED <<mode, status>>

\* The connection leaves HTTP, from the start or out of a streaming body.
TakeOver ==
    /\ mode \in {"pending", "responding"}
    /\ mode' = "takenover"
    /\ UNCHANGED <<status, bytes>>

Complete ==
    /\ mode = "responding"
    /\ mode' = "complete"
    /\ UNCHANGED <<status, bytes>>

\* The client sees a truncated response, never an empty one.
Abort ==
    /\ mode = "responding"
    /\ mode' = "aborted"
    /\ UNCHANGED <<status, bytes>>

Next ==
    \/ \E code \in 200 .. 599 : Respond(code)
    \/ Send
    \/ TakeOver
    \/ Complete
    \/ Abort

\* What can never happen, and that the exchange ends.
Safety == Init /\ [][Next]_vars

Spec == Safety /\ <>(mode \in Ended)

=============================================================================
