------------------------------ MODULE ServeHTTP ------------------------------
(***************************************************************************)
(* One request through the server: httpServer.ServeHTTP (server.go), the   *)
(* ServeMux, the closure and dispatcher of Router.Handle (router.go), the  *)
(* middleware and handler frames, Context.writeResponse (response.go), the *)
(* streaming or takeover body, and the two deferred functions of           *)
(* ServeHTTP.                                                              *)
(*                                                                         *)
(* All of it runs on the goroutine of the request, so pc is its program    *)
(* counter.  What is nondeterministic is the user code, which makes any    *)
(* sequence of at most MaxOps calls, panics and recovers anywhere, and     *)
(* whether the connection accepts a write or a takeover.                   *)
(***************************************************************************)
EXTENDS ResponseContext

CONSTANTS
    NumMiddlewares,  \* length of the route's middleware chain
    StatusArgs,      \* statuses user code passes to NewResponse
    StreamStatuses,  \* statuses a stream body passes to WriteHeader
    MaxOps           \* bound: calls user code makes in one request

ASSUME NumMiddlewaresAssumption == NumMiddlewares \in Nat
ASSUME StatusArgsAssumption == StatusArgs \subseteq Nat
ASSUME StreamStatusesAssumption == StreamStatuses \subseteq Nat
ASSUME MaxOpsAssumption == MaxOps \in Nat

VARIABLES
    pc,       \* where the request's goroutine is
    depth,    \* frames of the chain on the stack; frame i is middleware i,
              \* frame NumMiddlewares + 1 the handler
    closes,   \* times writeResponse closed the hijacked connection
    commits,  \* final statuses the package (not user code) has written
    logged,   \* which completion line ServeHTTP logged
    outcome,  \* what net/http did with the connection in the end
    ops       \* calls made by user code

flowVars == <<pc, depth, closes, commits, logged, outcome, ops>>
vars == <<header, wireVars, swVars, ctxVars, handles, panicking, flowVars>>

\* What an action that touches only the writer side leaves alone.
contextSide == <<ctxVars, handles>>
writerSide  == <<wireVars, swVars>>

-----------------------------------------------------------------------------
(* User code: middlewares, the handler, and stream or takeover bodies.     *)

\* Mutant of InChain: the dispatcher goes on past the last frame's return.
InChainOrPast == pc = "chain"

InChain    == pc = "chain" /\ depth > 0
InUserCode == (InChain \/ pc \in {"stream", "takeover"}) /\ ~panicking

UserOp ==
    /\ InUserCode
    /\ ops < MaxOps
    /\ ops' = ops + 1
    /\ UNCHANGED <<pc, depth, closes, commits, logged, outcome>>

ContextCall ==
    /\ UserOp
    /\ UNCHANGED writerSide
    /\ \/ \E status \in StatusArgs : NewResponse(status)
       \/ Hijack
       \/ Response

ResponseCall ==
    /\ UserOp
    /\ UNCHANGED writerSide
    /\ \E h \in handles :
         \/ \E body \in DirectBodies : SetBody(h, body, "direct")
         \/ \E body \in JsonBodies : SetBody(h, body, "json")
         \/ SetTypedBody(h, "string", "plain")
         \/ SetTypedBody(h, "bytes", "octets")
         \/ Cookie(h)
         \/ SetHeader(h)

\* Any panic of user code, and ctx.Hijack(nil), which panics as well.
Panic ==
    /\ UserOp
    /\ RaisePanic
    /\ UNCHANGED writerSide

\* A deferred recover in the frame the panic has reached.
RecoverPanic ==
    /\ InChain \/ pc \in {"stream", "takeover"}
    /\ panicking /\ panicking' = FALSE
    /\ ops < MaxOps /\ ops' = ops + 1
    /\ UNCHANGED <<header, writerSide, contextSide,
                   pc, depth, closes, commits, logged, outcome>>

-----------------------------------------------------------------------------
(* ServeHTTP's call of the mux, and the chain that Router.Handle builds.   *)

\* The mux found the route: a fresh Context, and frame 1 is entered.
Dispatch ==
    /\ pc = "dispatch"
    /\ pc' = "chain" /\ depth' = 1
    /\ UNCHANGED <<header, writerSide, contextSide, panicking,
                   closes, commits, logged, outcome, ops>>

\* No route matched: the mux answers by itself through the StreamWriter.
NotFound ==
    /\ pc = "dispatch"
    /\ WriteHeader(404, header)
    /\ pc' = "notfound" /\ commits' = commits + 1
    /\ UNCHANGED <<header, contextSide, panicking, depth, closes, logged,
                   outcome, ops>>

NotFoundBody ==
    /\ pc = "notfound"
    /\ \E n \in 0 .. 1 : Write(n)
    /\ pc' = "recover"
    /\ UNCHANGED <<header, contextSide, panicking, depth, closes, commits,
                   logged, outcome, ops>>

\* A middleware calls next, as often as it likes.
CallNext ==
    /\ InChain /\ ~panicking
    /\ depth <= NumMiddlewares
    /\ depth' = depth + 1
    /\ ops < MaxOps /\ ops' = ops + 1
    /\ UNCHANGED <<header, writerSide, contextSide, panicking,
                   pc, closes, commits, logged, outcome>>

ReturnFrame ==
    /\ InChain /\ ~panicking
    /\ depth' = depth - 1
    /\ UNCHANGED <<header, writerSide, contextSide, panicking,
                   pc, closes, commits, logged, outcome, ops>>

\* A panic leaves the frame; from the last one it leaves the route, and
\* writeResponse is never reached.
Unwind ==
    /\ panicking
    /\ \/ /\ InChain
          /\ depth' = depth - 1
          /\ pc' = IF depth = 1 THEN "recover" ELSE "chain"
       \/ /\ pc = "stream"
          /\ pc' = "recover" /\ UNCHANGED depth
       \/ /\ pc = "takeover"
          /\ pc' = "closing" /\ UNCHANGED depth
    /\ UNCHANGED <<header, writerSide, contextSide, panicking,
                   closes, commits, logged, outcome, ops>>

-----------------------------------------------------------------------------
(* Context.writeResponse.  It runs once, when the chain has returned.      *)

\* The entry: from here on every handle given out so far is stale.  The
\* early return for a cleared Context is the guard: nothing clears it before.
BeginWrite ==
    /\ pc = "chain" /\ depth = 0 /\ ~panicking
    /\ ctxWriter
    /\ ticket' = ticket + 1
    /\ pc' = "commit"
    /\ UNCHANGED <<header, writerSide, ctxWriter, ctxStatus, ctxBody,
                   marshaller, handles, panicking, depth, closes, commits,
                   logged, outcome, ops>>

\* The empty 500 of a failure found before anything was committed.
WriteEmpty500 ==
    /\ header' = NoHeader
    /\ WriteHeader(500, NoHeader)
    /\ commits' = commits + 1
    /\ pc' = "recover"
    /\ UNCHANGED <<contextSide, panicking, depth, closes, logged, outcome, ops>>

\* The header of a response that stands, with h as the header map.
CommitStatus(h) ==
    /\ header' = h
    /\ WriteHeader(ctxStatus, h)
    /\ commits' = commits + 1
    /\ UNCHANGED <<handles, panicking, depth, closes, logged, outcome, ops>>

IsJson   == pc = "commit" /\ marshaller = "json"
IsDirect == pc = "commit" /\ marshaller = "direct"

CommitJson ==
    /\ IsJson /\ ctxBody \in {"nil", "value"}
    /\ CommitStatus([header EXCEPT !.type = "json"])
    /\ pc' = "write"
    /\ UNCHANGED ctxVars

JsonMarshalFails ==
    /\ IsJson /\ ctxBody = "badvalue"
    /\ WriteEmpty500

JsonMarshalPanics ==
    /\ IsJson /\ ctxBody = "panicvalue"
    /\ panicking' = TRUE
    /\ pc' = "recover"
    /\ UNCHANGED <<header, writerSide, contextSide, depth, closes, commits,
                   logged, outcome, ops>>

\* Mutant of ResponseMissing: a chain without a response writes nothing.
ResponseMissingIgnored ==
    /\ IsDirect /\ ctxBody = "nil" /\ ctxStatus = 0
    /\ pc' = "recover"
    /\ UNCHANGED <<header, writerSide, contextSide, panicking, depth, closes,
                   commits, logged, outcome, ops>>

ResponseMissing ==
    /\ IsDirect /\ ctxBody = "nil" /\ ctxStatus = 0
    /\ WriteEmpty500

CommitEmpty ==
    /\ IsDirect /\ ctxBody = "nil" /\ ctxStatus # 0
    /\ CommitStatus(header)
    /\ pc' = "recover"
    /\ UNCHANGED ctxVars

CommitBytes ==
    /\ IsDirect /\ ctxBody \in {"bytes", "string"}
    /\ CommitStatus(header)
    /\ pc' = "write"
    /\ UNCHANGED ctxVars

\* The Context is cleared before the body runs.
CommitStream ==
    /\ IsDirect /\ ctxBody = "stream"
    /\ CommitStatus(header)
    /\ pc' = "stream"
    /\ ctxWriter' = FALSE
    /\ UNCHANGED <<ctxStatus, ctxBody, marshaller, ticket>>

CommitHijack ==
    /\ IsDirect /\ ctxBody = "hijack"
    /\ HijackConn
    /\ ctxWriter' = FALSE /\ ctxBody' = "nil"
    /\ pc' = "takeover"
    /\ UNCHANGED <<header, ctxStatus, marshaller, ticket, handles, panicking,
                   depth, closes, commits, logged, outcome, ops>>

HijackFails ==
    /\ IsDirect /\ ctxBody = "hijack"
    /\ WriteEmpty500

\* The one Write of a bytes, string or JSON body.  A failure aborts by
\* panic: the status is on the wire and stands.
WriteBody ==
    /\ pc = "write"
    /\ \E n \in 0 .. 1, failed \in BOOLEAN :
         /\ n = 1 \/ failed
         /\ Write(n)
         /\ panicking' = failed
    /\ pc' = "recover"
    /\ UNCHANGED <<header, contextSide, depth, closes, commits, logged,
                   outcome, ops>>

-----------------------------------------------------------------------------
(* The streaming body and its StreamWriter, and the takeover body.         *)

\* A chunk; the error, if any, is for the body to handle.  On a StreamWriter
\* whose connection the body has hijacked, writer is nil and the call panics.
StreamWrite ==
    /\ UserOp /\ pc = "stream"
    /\ \/ /\ swWriter
          /\ \E n \in 0 .. 1 : Write(n)
          /\ UNCHANGED <<header, contextSide, panicking>>
       \/ /\ ~swWriter
          /\ RaisePanic /\ UNCHANGED writerSide

StreamWriteHeader ==
    /\ UserOp /\ pc = "stream"
    /\ \/ /\ swWriter
          /\ \E code \in StreamStatuses : WriteHeader(code, header)
          /\ UNCHANGED <<header, contextSide, panicking>>
       \/ /\ ~swWriter
          /\ RaisePanic /\ UNCHANGED writerSide

StreamFlush ==
    /\ UserOp /\ pc = "stream"
    /\ Flush
    /\ UNCHANGED <<header, contextSide, panicking>>

\* A change through the StreamWriter's Header, too late for the client.
StreamHeader ==
    /\ UserOp /\ pc = "stream"
    /\ UNCHANGED writerSide
    /\ \/ swWriter /\ AddHeader /\ UNCHANGED <<contextSide, panicking>>
       \/ ~swWriter /\ RaisePanic

StreamHijack ==
    /\ UserOp /\ pc = "stream"
    /\ HijackConn
    /\ UNCHANGED <<header, contextSide, panicking>>

\* An error of the body aborts the connection.
StreamReturn ==
    /\ pc = "stream" /\ ~panicking
    /\ panicking' \in BOOLEAN
    /\ pc' = "recover"
    /\ UNCHANGED <<header, writerSide, contextSide, depth, closes, commits,
                   logged, outcome, ops>>

\* An error of the body is only logged.
TakeoverReturn ==
    /\ pc = "takeover" /\ ~panicking
    /\ pc' = "closing"
    /\ UNCHANGED <<header, writerSide, contextSide, panicking, depth, closes,
                   commits, logged, outcome, ops>>

\* Mutant of CloseConn: the call is not deferred, and a panic skips it.
CloseConnUnlessPanicking ==
    /\ pc = "closing"
    /\ closes' = IF panicking THEN closes ELSE closes + 1
    /\ pc' = "recover"
    /\ UNCHANGED <<header, writerSide, contextSide, panicking, depth, commits,
                   logged, outcome, ops>>

\* The deferred conn.Close, run whether the body returned or panicked.
CloseConn ==
    /\ pc = "closing"
    /\ closes' = closes + 1
    /\ pc' = "recover"
    /\ UNCHANGED <<header, writerSide, contextSide, panicking, depth, commits,
                   logged, outcome, ops>>

-----------------------------------------------------------------------------
(* ServeHTTP's deferred functions, and net/http after ServeHTTP.           *)

\* Mutant of Undecided: the status is not looked at.
NotHijacked == swWriter

Undecided == swWriter /\ swStatus = 0

NoPanic ==
    /\ pc = "recover" /\ ~panicking
    /\ pc' = "log"
    /\ UNCHANGED <<header, writerSide, contextSide, panicking, depth, closes,
                   commits, logged, outcome, ops>>

PanicBecomes500 ==
    /\ pc = "recover" /\ panicking /\ Undecided
    /\ header' = NoHeader
    /\ WriteHeader(500, NoHeader)
    /\ commits' = commits + 1
    /\ panicking' = FALSE
    /\ pc' = "log"
    /\ UNCHANGED <<contextSide, depth, closes, logged, outcome, ops>>

\* The second panic, http.ErrAbortHandler, leaves ServeHTTP.
PanicAborts ==
    /\ pc = "recover" /\ panicking /\ ~Undecided
    /\ pc' = "log"
    /\ UNCHANGED <<header, writerSide, contextSide, panicking, depth, closes,
                   commits, logged, outcome, ops>>

\* Mutant of Log: the status tells the hijacked connections from the others.
LogByStatus ==
    /\ pc = "log"
    /\ logged' = IF swStatus # 0 THEN "response" ELSE "hijacked"
    /\ pc' = "done"
    /\ UNCHANGED <<header, writerSide, contextSide, panicking, depth, closes,
                   commits, outcome, ops>>

Log ==
    /\ pc = "log"
    /\ logged' = IF swWriter THEN "response" ELSE "hijacked"
    /\ pc' = "done"
    /\ UNCHANGED <<header, writerSide, contextSide, panicking, depth, closes,
                   commits, outcome, ops>>

\* net/http finishes or cuts the response; it would answer 200 by itself if
\* nothing had been written.
NetFinish ==
    /\ pc = "done"
    /\ outcome' = IF hijacked THEN "takenover"
                  ELSE IF panicking THEN "aborted" ELSE "complete"
    /\ IF ~hijacked /\ ~panicking THEN NetWriteHeader(200, header)
                                  ELSE UNCHANGED <<wireStatus, wireHeader>>
    /\ pc' = "finished"
    /\ UNCHANGED <<header, wireBytes, hijacked, swVars, contextSide, panicking,
                   depth, closes, commits, logged, ops>>

Finished == pc = "finished" /\ UNCHANGED vars

-----------------------------------------------------------------------------

Init ==
    /\ WriterInit /\ ContextInit
    /\ pc = "dispatch" /\ depth = 0 /\ closes = 0 /\ commits = 0
    /\ logged = "nothing" /\ outcome = "pending" /\ ops = 0

UserCalls ==
    \/ ContextCall \/ ResponseCall \/ Panic \/ RecoverPanic \/ CallNext
    \/ StreamWrite \/ StreamWriteHeader \/ StreamFlush \/ StreamHeader
    \/ StreamHijack

UserReturns == ReturnFrame \/ Unwind \/ StreamReturn \/ TakeoverReturn

Commit ==
    \/ CommitJson \/ JsonMarshalFails \/ JsonMarshalPanics
    \/ ResponseMissing \/ CommitEmpty \/ CommitBytes \/ CommitStream
    \/ CommitHijack \/ HijackFails

Framework ==
    \/ Dispatch \/ NotFound \/ NotFoundBody
    \/ BeginWrite \/ Commit \/ WriteBody \/ CloseConn
    \/ NoPanic \/ PanicBecomes500 \/ PanicAborts \/ Log \/ NetFinish

Next == UserCalls \/ UserReturns \/ Framework \/ Finished

\* The goroutine keeps running, and user code does not run for ever: each
\* frame or body that is running returns or panics out in the end.
Fairness == WF_vars(Framework) /\ WF_vars(UserReturns)

Spec == Init /\ [][Next]_vars /\ Fairness

-----------------------------------------------------------------------------
(* Properties.                                                             *)

Pcs == {"dispatch", "notfound", "chain", "commit", "write", "stream",
        "takeover", "closing", "recover", "log", "done", "finished"}

FlowTypeOK ==
    /\ pc \in Pcs
    /\ depth \in Nat /\ closes \in Nat /\ commits \in Nat /\ ops \in Nat
    /\ logged \in {"nothing", "response", "hijacked"}
    /\ outcome \in {"pending", "complete", "aborted", "takenover"}

\* Every variable keeps to the values its Go counterpart can have.
TypeOK == WriterTypeOK /\ ContextTypeOK /\ FlowTypeOK

BeforeWrite == pc \in {"dispatch", "chain", "commit"}

\* While the chain runs and until the write, the Context holds nothing, a
\* response or a takeover, never a mix: Response and Hijacked cannot both
\* report true, no setter gives a takeover a body, and a body of a kind that
\* needs a status always has a valid one (context.go Response, Hijack,
\* Hijacked; response.go check).
ResponseOrTakeover ==
    BeforeWrite =>
      /\ ctxStatus = 0 => ctxBody \in {"nil", "hijack"} /\ marshaller = "direct"
      /\ ctxStatus # 0 => ctxBody # "hijack" /\ ValidStatus(ctxStatus)

\* A handle that passes check while the chain runs belongs to the response
\* that is pending now, and none passes once writeResponse has begun
\* (response.go check; the ticket steps of NewResponse, Hijack, writeResponse).
LiveHandleHasResponse ==
    \A h \in handles :
      /\ pc = "chain" /\ Live(h) => HasResponse
      /\ pc \in {"commit", "write"} => ~Live(h)

\* The status and byte count that ServeHTTP will log are those the client
\* got, through informational statuses, repeated WriteHeader calls by a
\* stream body, failed writes, takeovers and panics.
AccountingMatchesWire == swStatus = wireStatus /\ swBytes = wireBytes

\* The package writes one final status at most, and a client that has a
\* status has the one the package wrote: net/http never has to answer for it
\* and the recovery of a panic never writes over a committed response.
CommitsOnce == commits = (IF wireStatus = 0 THEN 0 ELSE 1)

\* A committed takeover closes its connection once, after the body ended
\* and however it ended; no other request has its connection closed here.
TakeoverClosesOnce ==
    /\ pc \in {"takeover", "closing"} => closes = 0
    /\ pc \in {"log", "done", "finished"} =>
         closes = (IF hijacked /\ wireStatus = 0 THEN 1 ELSE 0)

\* Every request logs one completion line, and it says hijacked exactly for
\* the connections that net/http no longer owns.
LogTellsOutcome ==
    pc = "finished" =>
      /\ (logged = "hijacked") <=> (outcome = "takenover")
      /\ logged # "nothing"
      /\ logged = "response" => wireStatus # 0

\* The status that reaches the client is the one of the response pending
\* when the chain returned, with no header set under an earlier response or
\* a canceled takeover; in every other case it is a 500 without headers
\* (NewResponse, writeResponse, the recovery in ServeHTTP).
RepliesWithFinalResponse ==
    [][ wireStatus = 0 /\ wireStatus' # 0 /\ pc # "dispatch" =>
          IF pc = "commit" /\ HasResponse /\ ctxBody # "badvalue"
          THEN wireStatus' = ctxStatus /\ wireHeader'.gens \subseteq {ticket - 1}
          ELSE wireStatus' = 500 /\ wireHeader' = NoHeader ]_vars

\* Once the connection is taken over nothing more is written to it as HTTP,
\* by the recovery of a panic or by a stream body that took it over itself
\* (StreamWriter.Hijack, ServeHTTP's recovery).
HijackedIsSilent == [][ hijacked => UNCHANGED <<wireVars, swVars, commits>> ]_vars

\* What the doc of Context.Hijack says of stale handles, "using them panics"
\* (context.go), for the header map: in the chain it is written to under the
\* live handle only.  Response.Header does not check its handle.
HeaderNeedsLiveHandle ==
    [][ pc = "chain" /\ header' \notin {header, NoHeader} =>
          \E h \in handles : Live(h) ]_vars

Exchange == INSTANCE HttpExchange WITH
    mode <- IF pc = "finished" THEN outcome
            ELSE IF hijacked THEN "takenover"
            ELSE IF wireStatus # 0 THEN "responding" ELSE "pending",
    status <- wireStatus,
    bytes <- wireBytes

\* The request implements what HttpExchange promises its client, down to
\* ending at all.
ImplementsExchange == Exchange!Spec

-----------------------------------------------------------------------------
(* What the end of a request rests on besides fairness.                    *)

\* The bodies that writeResponse has a case for.
BodyHasCase ==
    \/ marshaller = "json" /\ ctxBody \in JsonBodies /\ HasResponse
    \/ marshaller = "direct" /\ ctxBody \in DirectBodies /\ HasResponse
    \/ marshaller = "direct" /\ ctxBody = "nil"
    \/ marshaller = "direct" /\ ctxBody = "hijack" /\ ~HasResponse

\* When the chain has returned, its Context is there to write, and
\* writeResponse has a case for its body: the arm for an unsupported body type
\* is dead, and no body is sent without a status, whatever handles, takeovers
\* and setters came before (response.go writeResponse).
WriteFindsCase ==
    /\ pc = "chain" /\ depth = 0 => ctxWriter /\ ~panicking
    /\ pc = "commit" => BodyHasCase

Stage ==
    CASE pc = "dispatch" -> 8 [] pc = "chain" -> 7 [] pc = "commit" -> 6
      [] pc \in {"stream", "takeover"} -> 5
      [] pc \in {"notfound", "write", "closing"} -> 4
      [] pc = "recover" -> 3 [] pc = "log" -> 2 [] pc = "done" -> 1
      [] pc = "finished" -> 0

StageStep ==
    /\ UserCalls => UNCHANGED Stage
    /\ UserReturns \/ Framework =>
         \/ Stage' < Stage
         \/ pc = "chain" /\ UNCHANGED Stage /\ depth' < depth

\* A request goes through its stages in one order and through each once: what
\* user code calls never sets it back, and whatever else happens, a return, a
\* panic or a step of the package, brings it nearer its end (ServeHTTP, Handle,
\* writeResponse).
RequestAdvances == [][StageStep]_vars

-----------------------------------------------------------------------------
(* The inductive invariant behind the properties above.                    *)

AfterRecover == pc \in {"log", "done", "finished"}

\* What the program counter says about the wire.
WireInv ==
    /\ AccountingMatchesWire
    /\ CommitsOnce
    /\ swWriter = ~hijacked
    /\ wireStatus = 0 => wireBytes = 0
    /\ BeforeWrite => wireStatus = 0 /\ ~hijacked
    /\ pc \in {"notfound", "write", "stream"} => wireStatus # 0
    /\ pc \in {"notfound", "write"} => ~hijacked
    /\ pc \in {"takeover", "closing"} => wireStatus = 0 /\ hijacked
    /\ pc = "recover" => wireStatus # 0 \/ hijacked \/ panicking
    /\ AfterRecover => wireStatus # 0 \/ hijacked
    /\ pc \in {"dispatch", "notfound", "commit", "write"} => ~panicking

\* Tickets only grow, so a stale handle never becomes live again.
HandlesBounded == \A h \in handles : h <= ticket

\* What it says about the Context and the handles.
ContextInv ==
    /\ BeforeWrite => ctxWriter
    /\ ResponseOrTakeover
    /\ LiveHandleHasResponse
    /\ HandlesBounded
    /\ pc = "dispatch" => handles = {} /\ ctxStatus = 0
    /\ pc = "chain" /\ HasResponse => header.gens \subseteq {ticket}
    /\ pc = "commit" /\ HasResponse => header.gens \subseteq {ticket - 1}

\* What it says about the end of the request.
EndInv ==
    /\ closes = (IF hijacked /\ wireStatus = 0 /\ (pc = "recover" \/ AfterRecover)
                 THEN 1 ELSE 0)
    /\ pc \in {"done", "finished"} =>
         logged = (IF hijacked THEN "hijacked" ELSE "response")
    /\ pc = "finished" => ((outcome = "takenover") <=> hijacked)

IInv == TypeOK /\ WireInv /\ ContextInv /\ EndInv

=============================================================================
