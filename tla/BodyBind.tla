------------------------------ MODULE BodyBind ------------------------------
(***************************************************************************)
(* One form or JSON body bound under a timeout:                            *)
(* bindFullTextBodyWithTimeout and the binders it runs (request_body.go),  *)
(* with requestHandler's use of the result (request.go).                   *)
(*                                                                         *)
(* Two goroutines share the request body and the value being filled: the   *)
(* caller, which selects on the answer, the timer and the request context, *)
(* and the binder, which reads and decodes.  The client sends the body in  *)
(* chunks, and may stall or vanish after any of them.                      *)
(***************************************************************************)
EXTENDS BindingContract, Sequences

CONSTANT Chunks  \* chunks of the body that Content-Length announces

ASSUME ChunksAssumption == Chunks \in Nat \ {0}

VARIABLES
    req,       \* what the request and its struct tags fix
    caller,    \* where the caller's goroutine is
    status,    \* what bindFullTextBody returned: OK, an error status or a panic
    fired,     \* the timer has fired
    canceled,  \* the request context is done
    binder,    \* where the binder's goroutine is
    answer,    \* what the binder has to send
    done,      \* the channel of capacity 1
    parsed,    \* the value being bound
    reading,   \* the binder is inside Body.Read
    got,       \* chunks read so far
    closed,    \* Body.Close has taken effect
    sent,      \* chunks the client has sent
    gone       \* the client has disconnected

callerVars == <<caller, status>>
binderVars == <<binder, answer, done, parsed>>
bodyVars   == <<reading, got, closed>>
clientVars == <<sent, gone>>
clockVars  == <<fired, canceled>>
vars == <<req, callerVars, binderVars, bodyVars, clientVars, clockVars>>

-----------------------------------------------------------------------------

Answers  == {OK, Panicked, 400, 415, 500}
Statuses == Answers \cup {Pending, 408, 411, 413}

\* Content-Length and charset parameter; the three ways a body is bound: a
\* form, a JSON value decoded into one field, a JSON object into named ones;
\* and whether Close of this body ends a Read that is waiting, or waits itself
\* for the Read to end.
Requests == [length  : {"missing", "fits", "tooLarge"},
             charset : {"absent", "known", "unknown"},
             target  : {"form", "jsonWhole", "jsonNamed"},
             closeInterrupts : BOOLEAN]

IsForm == req.target = "form"

-----------------------------------------------------------------------------
(* The caller: bindFullTextBodyWithTimeout around the select.              *)

Return(s) ==
    /\ caller' = "returned"
    /\ status' = s

RefuseLength ==
    /\ caller = "entry" /\ req.length # "fits"
    /\ Return(IF req.length = "missing" THEN 411 ELSE 413)
    /\ UNCHANGED <<req, binderVars, bodyVars, clientVars, clockVars>>

StartBinder ==
    /\ caller = "entry" /\ req.length = "fits"
    /\ caller' = "select" /\ binder' = "charset"
    /\ UNCHANGED <<req, status, answer, done, parsed, bodyVars, clientVars,
                   clockVars>>

\* A recovered panic of the binder is raised again here.
TakeAnswer ==
    /\ caller = "select" /\ done # <<>>
    /\ Return(Head(done))
    /\ done' = <<>>
    /\ UNCHANGED <<req, binder, answer, parsed, bodyVars, clientVars, clockVars>>

\* Mutants of Abandon: a default arm, and a select without the timer.
AbandonAtOnce ==
    /\ caller = "select"
    /\ caller' = "closing"
    /\ UNCHANGED <<req, status, binderVars, bodyVars, clientVars, clockVars>>

AbandonIfCanceled ==
    /\ caller = "select" /\ canceled
    /\ caller' = "closing"
    /\ UNCHANGED <<req, status, binderVars, bodyVars, clientVars, clockVars>>

\* The select may choose these arms even with an answer waiting.
Abandon ==
    /\ caller = "select" /\ (fired \/ canceled)
    /\ caller' = "closing"
    /\ UNCHANGED <<req, status, binderVars, bodyVars, clientVars, clockVars>>

\* Mutants of CloseBody: the result of Close is all that is returned, and
\* the body is left open.
CloseBodyReturnsNil ==
    /\ caller = "closing"
    /\ req.closeInterrupts \/ ~reading
    /\ closed' = TRUE
    /\ Return(OK)
    /\ UNCHANGED <<req, binderVars, reading, got, clientVars, clockVars>>

LeaveBodyOpen ==
    /\ caller = "closing"
    /\ Return(408)
    /\ UNCHANGED <<req, binderVars, bodyVars, clientVars, clockVars>>

CloseBody ==
    /\ caller = "closing"
    /\ req.closeInterrupts \/ ~reading
    /\ closed' = TRUE
    /\ Return(408)
    /\ UNCHANGED <<req, binderVars, reading, got, clientVars, clockVars>>

-----------------------------------------------------------------------------
(* requestHandler with what the binding returned.  A panic passes through. *)

CallHandler ==
    /\ caller = "returned" /\ status = OK
    /\ caller' = "handler"
    /\ UNCHANGED <<req, status, binderVars, bodyVars, clientVars, clockVars>>

\* A bind error, a panic, or a value that fails validation.
RejectRequest ==
    /\ caller = "returned"
    /\ caller' = "rejected"
    /\ UNCHANGED <<req, status, binderVars, bodyVars, clientVars, clockVars>>

-----------------------------------------------------------------------------
(* The body.  A Read ends with a chunk, at the end of the body, or with an *)
(* error; one that meets a closed body ends either way.                    *)

BeginRead ==
    /\ binder \in {"peek", "read", "tail"} /\ ~reading
    /\ reading' = TRUE
    /\ UNCHANGED <<req, callerVars, binderVars, got, closed, clientVars, clockVars>>

CanGet  == reading /\ got < sent
CanEnd  == reading /\ (got = Chunks \/ closed)
CanFail == reading /\ ((gone /\ got = sent /\ got < Chunks) \/ closed)

\* A Read that has ended, with what the binder does next.
EndRead(n, next) ==
    /\ reading' = FALSE /\ got' = got + n
    /\ binder' = next
    /\ UNCHANGED <<req, callerVars, done, closed, clientVars, clockVars>>

-----------------------------------------------------------------------------
(* The binder's goroutine.                                                 *)

\* Its last act but the send: every path of it ends in one answer.
Answer(a) == answer' = a

UnknownCharset ==
    /\ binder = "charset" /\ req.charset = "unknown"
    /\ binder' = "send" /\ Answer(415)
    /\ UNCHANGED <<req, callerVars, done, parsed, bodyVars, clientVars, clockVars>>

OpenReader ==
    /\ binder = "charset" /\ req.charset # "unknown"
    /\ binder' = IF req.charset = "absent" THEN "peek" ELSE "read"
    /\ UNCHANGED <<req, callerVars, answer, done, parsed, bodyVars, clientVars,
                   clockVars>>

\* Peek for a byte-order mark: errors are dropped, the next Read meets them.
PeekMark ==
    /\ binder = "peek"
    /\ \/ CanGet /\ \E next \in {"peek", "read"} : EndRead(1, next)
       \/ (CanEnd \/ CanFail) /\ EndRead(0, "read")
    /\ UNCHANGED <<answer, parsed>>

\* The loop of io.ReadAll and of the JSON decoder's refill.
ReadChunk ==
    /\ binder \in {"read", "tail"} /\ CanGet
    /\ EndRead(1, binder)
    /\ UNCHANGED <<answer, parsed>>

ReadFails ==
    /\ binder \in {"read", "tail"} /\ CanFail
    /\ EndRead(0, "send") /\ Answer(IF IsForm THEN 500 ELSE 400)
    /\ UNCHANGED parsed

\* The whole form is there: it parses or it does not.
EndOfForm ==
    /\ binder = "read" /\ IsForm /\ CanEnd
    /\ \/ EndRead(0, "bind") /\ UNCHANGED answer
       \/ EndRead(0, "send") /\ Answer(400)
    /\ UNCHANGED parsed

\* The body ends inside the JSON value.
EndInsideValue ==
    /\ binder = "read" /\ ~IsForm /\ CanEnd
    /\ EndRead(0, "send") /\ Answer(400)
    /\ UNCHANGED parsed

\* Mutant of DecodeValue: what follows the value is not looked at.
DecodeValueOnly ==
    /\ binder = "read" /\ ~IsForm /\ ~reading /\ got > 0
    /\ parsed' = "written"
    /\ binder' = "send" /\ \E a \in {OK, 400, Panicked} : Answer(a)
    /\ UNCHANGED <<req, callerVars, done, bodyVars, clientVars, clockVars>>

\* The decoder has a complete value among the chunks it read and stores it,
\* or meets an error in the middle of it.
DecodeValue ==
    /\ binder = "read" /\ ~IsForm /\ ~reading /\ got > 0
    /\ parsed' = IF req.target = "jsonWhole" THEN "written" ELSE parsed
    /\ \/ binder' = "tail" /\ UNCHANGED answer
       \/ binder' = "send" /\ \E a \in {400, Panicked} : Answer(a)
    /\ UNCHANGED <<req, callerVars, done, bodyVars, clientVars, clockVars>>

\* What follows the value is white space or it is not.
EndOfTail ==
    /\ binder = "tail" /\ CanEnd
    /\ \/ req.target = "jsonNamed" /\ EndRead(0, "bind") /\ UNCHANGED answer
       \/ req.target = "jsonWhole" /\ EndRead(0, "send") /\ Answer(OK)
       \/ EndRead(0, "send") /\ Answer(400)
    /\ UNCHANGED parsed

\* BindStructWithTag, or the Set of the one form field: a write that may stop
\* half way.
BindFields ==
    /\ binder = "bind"
    /\ parsed' = "written"
    /\ binder' = "send" /\ \E a \in {OK, 400, Panicked} : Answer(a)
    /\ UNCHANGED <<req, callerVars, done, bodyVars, clientVars, clockVars>>

\* Mutants of Send: a success falls through to a second send, and the answer
\* goes out before the fields are bound.
SendTwice ==
    /\ binder = "send" /\ Len(done) < 2
    /\ done' = Append(done, answer)
    /\ binder' = IF answer = OK /\ done = <<>> THEN "send" ELSE "gone"
    /\ UNCHANGED <<req, callerVars, answer, parsed, bodyVars, clientVars, clockVars>>

\* The send is the goroutine's last step; the channel's capacity is 1.
Send ==
    /\ binder = "send" /\ done = <<>>
    /\ done' = <<answer>>
    /\ binder' = "gone"
    /\ UNCHANGED <<req, callerVars, answer, parsed, bodyVars, clientVars, clockVars>>

-----------------------------------------------------------------------------
(* The environment: the client, the timer and the request context.         *)

ClientSends ==
    /\ ~gone /\ sent < Chunks
    /\ sent' = sent + 1
    /\ UNCHANGED <<req, callerVars, binderVars, bodyVars, gone, clockVars>>

ClientLeaves ==
    /\ ~gone /\ gone' = TRUE
    /\ UNCHANGED <<req, callerVars, binderVars, bodyVars, sent, clockVars>>

\* The timer runs until the function returns.
TimerFires ==
    /\ caller \in {"select", "closing"} /\ ~fired
    /\ fired' = TRUE
    /\ UNCHANGED <<req, callerVars, binderVars, bodyVars, clientVars, canceled>>

\* By the client's disconnect once the body is read, or by the application's
\* context, which is the base context of every request.
ContextCanceled ==
    /\ ~canceled /\ canceled' = TRUE
    /\ UNCHANGED <<req, callerVars, binderVars, bodyVars, clientVars, fired>>

Finished ==
    /\ caller \in {"handler", "rejected"} /\ binder \in {"none", "gone"}
    /\ UNCHANGED vars

-----------------------------------------------------------------------------

Init ==
    /\ req \in Requests
    /\ caller = "entry" /\ status = Pending
    /\ binder = "none" /\ answer = Pending /\ done = <<>> /\ parsed = "default"
    /\ reading = FALSE /\ got = 0 /\ closed = FALSE
    /\ sent = 0 /\ gone = FALSE
    /\ fired = FALSE /\ canceled = FALSE

Caller == \/ RefuseLength \/ StartBinder \/ TakeAnswer \/ Abandon \/ CloseBody
          \/ CallHandler \/ RejectRequest

Binder == \/ UnknownCharset \/ OpenReader \/ PeekMark \/ BeginRead \/ ReadChunk
          \/ ReadFails \/ EndOfForm \/ EndInsideValue \/ DecodeValue \/ EndOfTail
          \/ BindFields \/ Send

Client == ClientSends \/ ClientLeaves

Next == Caller \/ Binder \/ Client \/ TimerFires \/ ContextCanceled \/ Finished

\* Both goroutines are scheduled and the timer fires if it is not stopped.
\* Nothing is assumed of the client.
Fairness == WF_vars(Caller) /\ WF_vars(Binder) /\ WF_vars(TimerFires)

Spec == Init /\ [][Next]_vars /\ Fairness

-----------------------------------------------------------------------------
(* Properties.                                                             *)

Binders  == {"none", "charset", "peek", "read", "tail", "bind", "send", "gone"}
Channels == {<<>>} \cup {<<a>> : a \in Answers}

\* Every variable keeps to the values its Go counterpart can have.
TypeOK ==
    /\ req \in Requests
    /\ caller \in {"entry", "select", "closing", "returned", "handler", "rejected"}
    /\ status \in Statuses
    /\ binder \in Binders
    /\ answer \in Answers \cup {Pending}
    /\ done \in Channels
    /\ parsed \in {"default", "written"}
    /\ reading \in BOOLEAN /\ closed \in BOOLEAN
    /\ gone \in BOOLEAN /\ fired \in BOOLEAN /\ canceled \in BOOLEAN
    /\ got \in 0 .. Chunks /\ sent \in 0 .. Chunks

\* When the binding has succeeded, the binder has written its last and is
\* gone: the handler never shares the value with a binder, whatever the race
\* of answer, timer and cancellation (bindFullTextBodyWithTimeout's comment on
\* parsed, requestHandler's error return).
HandlerOwnsParsed ==
    status = OK => binder = "gone" /\ parsed = "written" /\ ~reading

\* A binding succeeds only on the complete body: not on one that was closed
\* or cut off, nor on a JSON value with unread data behind it (bindForm,
\* bindJson).
SuccessReadsAll == status = OK => got = Chunks /\ ~closed

\* An answer is dropped only for a 408, and a 408 comes only of the timer or
\* the context; a panic of the binder is not lost otherwise
\* (bindFullTextBodyWithTimeout's select).
AnswerReachesCaller ==
    binder = "gone" /\ caller \in {"returned", "handler", "rejected"} =>
        status = answer \/ (status = 408 /\ (fired \/ canceled))

\* Once the binding has succeeded, the value the handler gets stays as it is.
HandlerParsedStable == [][ status = OK => parsed' = parsed ]_vars

\* Neither goroutine waits for the other in vain: a binder that is about to send
\* finds room in the channel, whether or not its caller still listens, and a
\* caller whose binder has ended finds the answer there (the capacity of done).
NobodyWaitsInVain ==
    /\ binder = "send" => done = <<>>
    /\ caller = "select" /\ binder = "gone" => done = <<answer>>

\* Both goroutines end, a binder that was abandoned included, if no Read can
\* wait for ever: Close ends it, or the client has sent everything or left
\* (bindFullTextBodyWithTimeout's comment; the capacity of its channel).
GoroutinesEnd ==
    req.closeInterrupts \/ sent = Chunks \/ gone ~>
        caller \in {"handler", "rejected"} /\ binder \in {"none", "gone"}

\* The caller gets its answer in the end, whatever body and client do: form
\* and JSON bodies are read with a timeout (doc.go).
CallerReturns == <>(caller \in {"handler", "rejected"})

-----------------------------------------------------------------------------
(* What GoroutinesEnd rests on besides fairness.                           *)

CallerLeft ==
    CASE caller = "entry" -> 4 [] caller = "select" -> 3 [] caller = "closing" -> 2
      [] caller = "returned" -> 1 [] caller \in {"handler", "rejected"} -> 0

BinderRank ==
    CASE binder = "charset" -> 6 [] binder = "peek" -> 5 [] binder = "read" -> 4
      [] binder = "tail" -> 3 [] binder = "bind" -> 2 [] binder = "send" -> 1
      [] binder \in {"none", "gone"} -> 0

ReadLeft == IF reading THEN 0 ELSE 1

\* What the binder has still to read and to do, and the Read it is inside of.
BinderLeft == 2 * (Chunks - got) + 2 * BinderRank + ReadLeft

AdvanceStep ==
    /\ Caller => /\ CallerLeft' < CallerLeft
                 /\ caller # "entry" => BinderLeft' = BinderLeft
    /\ Binder => BinderLeft' < BinderLeft /\ UNCHANGED CallerLeft
    /\ Client \/ TimerFires \/ ContextCanceled => UNCHANGED <<CallerLeft, BinderLeft>>

\* Every step of either goroutine leaves it less to do and takes nothing from
\* the other: no loop over the reads, nor a bind after a decode, goes on for
\* ever, and nothing the client, the timer or the context does sets one back
\* (bindFullTextBodyWithTimeout, bindForm, bindJson).
GoroutinesAdvance == [][AdvanceStep]_vars

\* A Read that cannot end waits for a client that is there and has more to
\* send, on a body that is open: the caller's Close, the client's last byte
\* and its leaving each end it (bindFullTextBodyWithTimeout).
ReadsWaitForClient ==
    reading /\ ~(CanGet \/ CanEnd \/ CanFail) => sent < Chunks /\ ~gone /\ ~closed

-----------------------------------------------------------------------------
(* The abstract specification.                                             *)

\* What the caller leaves of the body to the parsers behind it.
RestOfBody ==
    IF status \in {Pending, 411, 413, 415} THEN "whole"
    ELSE IF (status = 408 /\ closed) \/ (status = 500 /\ gone) THEN "closed"
    ELSE IF got = Chunks THEN "drained" ELSE "part"

Binding == INSTANCE BoundedBinding WITH
    target  <- IF IsForm THEN "form" ELSE "json",
    outcome <- status,
    rest    <- RestOfBody

\* However answer, timer, cancellation and client race, the caller gets one
\* outcome and the body is left as that outcome says, for good.
ImplementsBinding == Binding!Spec

-----------------------------------------------------------------------------
(* The inductive invariant behind the safety properties above.             *)

Waiting == caller \in {"entry", "select", "closing"}

\* What is known where the caller is.
CallerInv ==
    /\ Waiting <=> status = Pending
    /\ caller = "entry" => binder = "none"
    /\ caller = "select" => binder # "none"
    /\ caller = "closing" \/ status = 408 => fired \/ canceled
    /\ caller = "handler" => status = OK
    /\ closed <=> status = 408
    /\ status \in {411, 413} => binder = "none"
    /\ status \in Answers => binder = "gone" /\ status = answer /\ done = <<>>

\* What is known where the binder is.
BinderInv ==
    /\ done # <<>> => binder = "gone" /\ done = <<answer>>
    /\ reading => binder \in {"peek", "read", "tail"}
    /\ binder = "bind" => got = Chunks \/ closed
    /\ binder = "tail" /\ req.target = "jsonWhole" => parsed = "written"
    /\ answer # Pending => binder \in {"send", "gone"}
    /\ binder \in {"send", "gone"} => answer \in Answers
    /\ answer = OK => parsed = "written" /\ (got = Chunks \/ closed)

\* What an error says about the body.
ErrorInv ==
    /\ answer = 400 /\ IsForm => got = Chunks \/ closed
    /\ answer = 500 => IsForm /\ (gone \/ closed)

IInv == TypeOK /\ CallerInv /\ BinderInv /\ ErrorInv

=============================================================================
