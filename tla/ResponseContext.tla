--------------------------- MODULE ResponseContext ---------------------------
(***************************************************************************)
(* The per-request Context (context.go) and the Response handles it gives  *)
(* out (response.go): the response or takeover being assembled, and the    *)
(* ticket that tells a live handle from a stale one.                       *)
(*                                                                         *)
(* The actions here are the calls user code can make.  They say nothing    *)
(* about when user code runs: module ServeHTTP does.  A handle is its      *)
(* ticket number; handles is every handle user code has ever been given.   *)
(***************************************************************************)
EXTENDS StreamWriter

VARIABLES
    ctxWriter,   \* Context.writer # nil (Context.request is cleared with it)
    ctxStatus,   \* Context.status
    ctxBody,     \* Context.body, by kind
    marshaller,  \* Context.marshaller
    ticket,      \* Context.ticket
    handles,     \* tickets of the Response values user code holds
    panicking    \* the goroutine is unwinding

ctxVars == <<ctxWriter, ctxStatus, ctxBody, marshaller, ticket>>

\* Body values, told apart by what writeResponse does with them: the JSON
\* values either marshal, fail to, or panic in a MarshalJSON method.
DirectBodies == {"bytes", "string", "stream"}
JsonBodies   == {"nil", "value", "badvalue", "panicvalue"}
Bodies       == DirectBodies \cup JsonBodies \cup {"hijack"}

ValidStatus(status) == status >= 200 /\ status <= 599

-----------------------------------------------------------------------------
(* What a caller can observe.                                              *)

Hijacked    == ctxStatus = 0 /\ ctxBody # "nil"
HasResponse == ctxStatus # 0
Live(h)     == h = ticket

\* A nil dereference or an explicit panic before anything was assigned.
RaisePanic ==
    /\ panicking' = TRUE
    /\ UNCHANGED <<ctxVars, handles, header>>

-----------------------------------------------------------------------------
(* Context's methods.                                                      *)

\* Mutant of NewResponse: the header map is not cleared.
NewResponseKeepsHeader(status) ==
    /\ ValidStatus(status) /\ ctxWriter
    /\ ctxStatus' = status /\ ctxBody' = "nil" /\ marshaller' = "direct"
    /\ ticket' = ticket + 1
    /\ handles' = handles \cup {ticket + 1}
    /\ UNCHANGED <<ctxWriter, header, panicking>>

NewResponse(status) ==
    \/ /\ ~ValidStatus(status)
       /\ RaisePanic
    \/ /\ ValidStatus(status)
       /\ ctxStatus' = status /\ ctxBody' = "nil" /\ marshaller' = "direct"
       /\ \/ /\ ctxWriter
             /\ header' = NoHeader
             /\ ticket' = ticket + 1
             /\ handles' = handles \cup {ticket + 1}
             /\ UNCHANGED panicking
          \/ /\ ~ctxWriter             \* clear(c.writer.Header()) on nil
             /\ panicking' = TRUE
             /\ UNCHANGED <<header, ticket, handles>>
       /\ UNCHANGED ctxWriter

\* Mutant of Hijack: earlier handles stay valid.
HijackKeepsTicket ==
    /\ ctxStatus' = 0 /\ ctxBody' = "hijack" /\ marshaller' = "direct"
    /\ UNCHANGED <<ctxWriter, ticket, handles, header, panicking>>

Hijack ==
    /\ ctxStatus' = 0 /\ ctxBody' = "hijack" /\ marshaller' = "direct"
    /\ ticket' = ticket + 1
    /\ UNCHANGED <<ctxWriter, handles, header, panicking>>

\* Context.Response: hands out the live handle once more.
Response ==
    /\ HasResponse
    /\ handles' = handles \cup {ticket}
    /\ UNCHANGED <<ctxVars, header, panicking>>

-----------------------------------------------------------------------------
(* Response's methods, on the handle with ticket h.                        *)

\* Mutant of Check: a setter that forgets it.
NoCheck(h) == TRUE

\* Every mutating method starts with check.
Check(h) == Live(h)

\* Mutant of SetBody: the marshaller stays that of the body before.
SetBodyOnly(h, body, m) ==
    \/ ~Check(h) /\ RaisePanic
    \/ /\ Check(h)
       /\ ctxBody' = body
       /\ UNCHANGED <<ctxWriter, ctxStatus, marshaller, ticket, handles, header,
                       panicking>>

\* BytesBody, StringBody, StreamBody and JsonBody.
SetBody(h, body, m) ==
    \/ ~Check(h) /\ RaisePanic
    \/ /\ Check(h)
       /\ ctxBody' = body /\ marshaller' = m
       /\ UNCHANGED <<ctxWriter, ctxStatus, ticket, handles, header, panicking>>

\* PlainTextBody and OctetsBody: the header is set before the body.
SetTypedBody(h, body, type) ==
    \/ (~Check(h) \/ ~ctxWriter) /\ RaisePanic
    \/ /\ Check(h) /\ ctxWriter
       /\ header' = [gens |-> header.gens \cup {ticket}, type |-> type]
       /\ ctxBody' = body /\ marshaller' = "direct"
       /\ UNCHANGED <<ctxWriter, ctxStatus, ticket, handles, panicking>>

AddHeader == header' = [header EXCEPT !.gens = @ \cup {ticket}]

Cookie(h) ==
    \/ (~Check(h) \/ ~ctxWriter) /\ RaisePanic
    \/ /\ Check(h) /\ ctxWriter
       /\ AddHeader
       /\ UNCHANGED <<ctxVars, handles, panicking>>

\* A write through the map that Header returns.  Header does not check the
\* ticket: any handle reaches the header map of whatever is pending now.
SetHeader(h) ==
    \/ ~ctxWriter /\ RaisePanic
    \/ /\ ctxWriter
       /\ AddHeader
       /\ UNCHANGED <<ctxVars, handles, panicking>>

-----------------------------------------------------------------------------

ContextInit ==
    /\ ctxWriter = TRUE /\ ctxStatus = 0 /\ ctxBody = "nil"
    /\ marshaller = "direct" /\ ticket = 0
    /\ handles = {} /\ panicking = FALSE

ContextTypeOK ==
    /\ ctxWriter \in BOOLEAN /\ panicking \in BOOLEAN
    /\ ctxStatus \in Nat /\ ticket \in Nat
    /\ ctxBody \in Bodies
    /\ marshaller \in {"direct", "json"}
    /\ handles \subseteq Nat

=============================================================================
