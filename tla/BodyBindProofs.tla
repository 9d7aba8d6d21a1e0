--------------------------- MODULE BodyBindProofs ---------------------------
(***************************************************************************)
(* Proofs about BodyBind, for every length of the body and both meanings   *)
(* of Close.  The inductive invariant IInv is defined in BodyBind, where   *)
(* TLC checks it too.                                                      *)
(***************************************************************************)
EXTENDS BodyBind, TLAPS

USE DEF callerVars, binderVars, bodyVars, clientVars, clockVars

LEMMA InitInvariant == Init => IInv
<1> SUFFICES ASSUME Init
             PROVE  IInv
  OBVIOUS
<1>1. TypeOK
  <2>1. done \in Channels /\ binder \in Binders
    BY DEF Init, Channels, Binders
  <2>2. status \in Statuses /\ got \in 0 .. Chunks /\ sent \in 0 .. Chunks
    BY ChunksAssumption DEF Init, Statuses
  <2>3. /\ reading \in BOOLEAN /\ closed \in BOOLEAN /\ gone \in BOOLEAN
        /\ fired \in BOOLEAN /\ canceled \in BOOLEAN
    BY DEF Init
  <2>4. QED
    BY <2>1, <2>2, <2>3 DEF Init, TypeOK
<1>2. CallerInv
  BY DEF Init, CallerInv, Waiting, Pending, Answers, OK, Panicked
<1>3. BinderInv
  BY DEF Init, BinderInv, Pending, OK
<1>4. ErrorInv
  BY DEF Init, ErrorInv, Pending
<1>5. QED
  BY <1>1, <1>2, <1>3, <1>4 DEF IInv

-----------------------------------------------------------------------------
(* Steps of the caller.                                                    *)

LEMMA CallerTypes ==
    ASSUME TypeOK, Caller
    PROVE  TypeOK'
<1> USE DEF TypeOK, Return
<1>1. CASE RefuseLength
  BY <1>1 DEF RefuseLength, Statuses
<1>2. CASE StartBinder
  BY <1>2 DEF StartBinder, Binders
<1>3. CASE TakeAnswer
  <2>1. PICK a \in Answers : done = <<a>>
    BY <1>3 DEF TakeAnswer, Channels
  <2>2. status' \in Statuses
    BY <1>3, <2>1 DEF TakeAnswer, Statuses
  <2>3. done' \in Channels
    BY <1>3 DEF TakeAnswer, Channels
  <2>4. QED
    BY <1>3, <2>2, <2>3 DEF TakeAnswer
<1>4. CASE Abandon
  BY <1>4 DEF Abandon
<1>5. CASE CloseBody
  BY <1>5 DEF CloseBody, Statuses
<1>6. CASE CallHandler \/ RejectRequest
  BY <1>6 DEF CallHandler, RejectRequest
<1>7. QED
  BY <1>1, <1>2, <1>3, <1>4, <1>5, <1>6 DEF Caller

LEMMA CallerInvariant ==
    ASSUME IInv, Caller
    PROVE  CallerInv' /\ BinderInv'
<1> USE DEF IInv, CallerInv, BinderInv, Waiting, Return, OK, Pending, Panicked,
            Answers
<1>1. CASE RefuseLength
  BY <1>1 DEF RefuseLength
<1>2. CASE StartBinder
  BY <1>2 DEF StartBinder
<1>3. CASE TakeAnswer
  <2>1. done = <<answer>> /\ binder = "gone" /\ answer \in Answers /\ ~closed
    BY <1>3 DEF TakeAnswer
  <2>2. status' = answer
    BY <1>3, <2>1 DEF TakeAnswer
  <2>3. QED
    BY <1>3, <2>1, <2>2 DEF TakeAnswer
<1>4. CASE Abandon
  BY <1>4 DEF Abandon
<1>5. CASE CloseBody
  BY <1>5 DEF CloseBody
<1>6. CASE CallHandler
  BY <1>6 DEF CallHandler
<1>7. CASE RejectRequest
  BY <1>7 DEF RejectRequest
<1>8. QED
  BY <1>1, <1>2, <1>3, <1>4, <1>5, <1>6, <1>7 DEF Caller

-----------------------------------------------------------------------------
(* Steps of the binder.                                                    *)

LEMMA EndReadTypes ==
    ASSUME TypeOK, NEW n \in 0 .. 1, NEW next \in Binders, EndRead(n, next),
           got + n <= Chunks, answer' \in Answers \cup {Pending},
           parsed' = parsed
    PROVE  TypeOK'
<1>1. got' \in 0 .. Chunks
  BY ChunksAssumption DEF EndRead, TypeOK
<1>2. QED
  BY <1>1 DEF EndRead, TypeOK

LEMMA BinderTypes ==
    ASSUME IInv, Binder
    PROVE  TypeOK'
<1> USE DEF IInv, TypeOK, Answer
<1>1. CASE UnknownCharset
  BY <1>1 DEF UnknownCharset, Answers, Binders
<1>2. CASE OpenReader
  BY <1>2 DEF OpenReader, Binders
<1>3. CASE BeginRead
  BY <1>3 DEF BeginRead
<1>4. /\ {400, 500, OK} \subseteq Answers
      /\ {"peek", "read", "tail", "bind", "send", "gone"} \subseteq Binders
      /\ got \in Nat /\ got <= Chunks /\ Chunks \in Nat
      /\ CanGet => got + 1 <= Chunks
  BY ChunksAssumption DEF Answers, Binders, CanGet
<1>5. CASE PeekMark
  BY <1>4, <1>5, EndReadTypes DEF PeekMark
<1>6. CASE ReadChunk
  BY <1>4, <1>6, EndReadTypes DEF ReadChunk
<1>7. CASE ReadFails \/ EndOfForm \/ EndInsideValue \/ EndOfTail
  BY <1>4, <1>7, EndReadTypes
     DEF ReadFails, EndOfForm, EndInsideValue, EndOfTail
<1>8. CASE DecodeValue
  BY <1>8 DEF DecodeValue, Answers, Binders
<1>9. CASE BindFields
  BY <1>9 DEF BindFields, Answers, Binders
<1>10. CASE Send
  <2>1. answer \in Answers
    BY <1>10 DEF Send, BinderInv
  <2>2. done' \in Channels /\ binder' \in Binders
    BY <1>4, <1>10, <2>1 DEF Send, Channels
  <2>3. QED
    BY <1>10, <2>2 DEF Send
<1>11. QED
  BY <1>1, <1>2, <1>3, <1>4, <1>5, <1>6, <1>7, <1>8, <1>9, <1>10 DEF Binder

\* No step of the binder changes what the caller knows: its answer is not
\* taken before it is gone.
LEMMA BinderKeepsCaller ==
    ASSUME IInv, Binder
    PROVE  CallerInv'
<1>1. UNCHANGED <<caller, status, closed, fired, canceled>>
  BY DEF Binder, UnknownCharset, OpenReader, PeekMark, BeginRead, ReadChunk,
         ReadFails, EndOfForm, EndInsideValue, DecodeValue, EndOfTail, BindFields,
         Send, EndRead
<1>2. binder \notin {"none", "gone"} /\ binder' # "none"
  BY DEF Binder, UnknownCharset, OpenReader, PeekMark, BeginRead, ReadChunk,
         ReadFails, EndOfForm, EndInsideValue, DecodeValue, EndOfTail, BindFields,
         Send, EndRead
<1>3. status \notin Answers
  BY <1>2 DEF IInv, CallerInv
<1>4. QED
  BY <1>1, <1>2, <1>3 DEF IInv, CallerInv, Waiting

LEMMA BinderInvariant ==
    ASSUME IInv, Binder
    PROVE  BinderInv'
<1> USE DEF IInv, BinderInv, Answer, Answers, OK, Pending, Panicked
<1>1. CASE UnknownCharset
  BY <1>1 DEF UnknownCharset
<1>2. CASE OpenReader
  BY <1>2 DEF OpenReader
<1>3. CASE BeginRead
  BY <1>3 DEF BeginRead
<1>4. CASE PeekMark
  BY <1>4 DEF PeekMark, EndRead
<1>5. CASE ReadChunk
  BY <1>5 DEF ReadChunk, EndRead
<1>6. CASE ReadFails
  BY <1>6 DEF ReadFails, EndRead, TypeOK
<1>7. CASE EndOfForm
  BY <1>7 DEF EndOfForm, EndRead, CanEnd, TypeOK
<1>8. CASE EndInsideValue
  BY <1>8 DEF EndInsideValue, EndRead, TypeOK
<1>9. CASE DecodeValue
  BY <1>9 DEF DecodeValue
<1>10. CASE EndOfTail
  BY <1>10 DEF EndOfTail, EndRead, CanEnd, TypeOK
<1>11. CASE BindFields
  BY <1>11 DEF BindFields
<1>12. CASE Send
  BY <1>12 DEF Send
<1>13. QED
  BY <1>1, <1>2, <1>3, <1>4, <1>5, <1>6, <1>7, <1>8, <1>9, <1>10, <1>11, <1>12
     DEF Binder

\* An error answer is made once, from what the Read found, and stays true: a
\* body that has ended, a client that is gone and a closed body remain so.
LEMMA ErrorInvariant ==
    ASSUME IInv, [Next]_vars
    PROVE  ErrorInv'
<1>1. CASE UNCHANGED <<req, answer>>
  <2>1. /\ got = Chunks \/ closed => got' = Chunks \/ closed'
        /\ gone \/ closed => gone' \/ closed'
    <3>1. closed => closed'
      BY DEF Next, Caller, Binder, Client, RefuseLength, StartBinder, TakeAnswer, Abandon,
             CloseBody, CallHandler, RejectRequest, UnknownCharset, OpenReader, PeekMark,
             BeginRead, ReadChunk, ReadFails, EndOfForm, EndInsideValue, DecodeValue,
             EndOfTail, BindFields, Send, EndRead, ClientSends, ClientLeaves, TimerFires,
             ContextCanceled, Finished, vars
    <3>2. gone => gone'
      BY DEF Next, Caller, Binder, Client, RefuseLength, StartBinder, TakeAnswer, Abandon,
             CloseBody, CallHandler, RejectRequest, UnknownCharset, OpenReader, PeekMark,
             BeginRead, ReadChunk, ReadFails, EndOfForm, EndInsideValue, DecodeValue,
             EndOfTail, BindFields, Send, EndRead, ClientSends, ClientLeaves, TimerFires,
             ContextCanceled, Finished, vars
    <3>3. got = Chunks => got' = Chunks
      BY DEF IInv, TypeOK, CanGet, Next, Caller, Binder, Client, RefuseLength, StartBinder,
             TakeAnswer, Abandon, CloseBody, CallHandler, RejectRequest, UnknownCharset,
             OpenReader, PeekMark, BeginRead, ReadChunk, ReadFails, EndOfForm,
             EndInsideValue, DecodeValue, EndOfTail, BindFields, Send, EndRead,
             ClientSends, ClientLeaves, TimerFires, ContextCanceled, Finished, vars
    <3>4. QED
      BY <3>1, <3>2, <3>3
  <2>2. QED
    BY <1>1, <2>1 DEF IInv, ErrorInv, IsForm
<1>2. CASE Binder /\ ~UNCHANGED <<req, answer>>
  <2> USE DEF ErrorInv, IsForm, Answer
  <2>1. CASE UnknownCharset
    BY <2>1 DEF UnknownCharset
  <2>2. CASE ReadFails
    BY <2>2 DEF ReadFails, CanFail, EndRead
  <2>3. CASE EndOfForm
    BY <2>3 DEF EndOfForm, CanEnd, EndRead, IInv, TypeOK
  <2>4. CASE EndInsideValue \/ DecodeValue
    BY <2>4 DEF EndInsideValue, DecodeValue, EndRead, Panicked, IInv
  <2>8. CASE EndOfTail
    BY <2>8 DEF EndOfTail, EndRead, CanEnd, OK, IInv, TypeOK
  <2>5. CASE BindFields
    BY <2>5 DEF BindFields, IInv, BinderInv, OK, Panicked
  <2>6. CASE OpenReader \/ PeekMark \/ BeginRead \/ ReadChunk \/ Send
    BY <1>2, <2>6 DEF OpenReader, PeekMark, BeginRead, ReadChunk, Send, EndRead
  <2>7. QED
    BY <1>2, <2>1, <2>2, <2>3, <2>4, <2>5, <2>6, <2>8 DEF Binder
<1>3. CASE ~Binder
  BY <1>1, <1>3
  DEF Next, Caller, Client, RefuseLength, StartBinder, TakeAnswer, Abandon, CloseBody,
      CallHandler, RejectRequest, ClientSends, ClientLeaves, TimerFires, ContextCanceled,
      Finished, vars
<1>4. QED
  BY <1>1, <1>2, <1>3

-----------------------------------------------------------------------------
(* Steps of the environment, and all steps.                                *)

LEMMA EnvironmentInvariant ==
    ASSUME IInv, Client \/ TimerFires \/ ContextCanceled
    PROVE  TypeOK' /\ CallerInv' /\ BinderInv'
<1>1. /\ UNCHANGED <<req, caller, status, binder, answer, done, parsed, reading,
                     got, closed>>
      /\ fired => fired'
      /\ canceled => canceled'
  BY DEF Client, ClientSends, ClientLeaves, TimerFires, ContextCanceled
<1>2. TypeOK'
  <2>1. sent' \in 0 .. Chunks
    BY ChunksAssumption
       DEF IInv, TypeOK, Client, ClientSends, ClientLeaves, TimerFires,
           ContextCanceled
  <2>2. gone' \in BOOLEAN /\ fired' \in BOOLEAN /\ canceled' \in BOOLEAN
    BY DEF IInv, TypeOK, Client, ClientSends, ClientLeaves, TimerFires,
           ContextCanceled
  <2>3. QED
    BY <1>1, <2>1, <2>2 DEF IInv, TypeOK
<1>3. CallerInv'
  BY <1>1 DEF IInv, CallerInv, Waiting
<1>4. BinderInv'
  BY <1>1 DEF IInv, BinderInv
<1>5. QED
  BY <1>2, <1>3, <1>4

LEMMA StepInvariant == IInv /\ [Next]_vars => IInv'
<1> SUFFICES ASSUME IInv, [Next]_vars
             PROVE  IInv'
  OBVIOUS
<1>1. CASE Caller
  BY <1>1, CallerTypes, CallerInvariant, ErrorInvariant DEF IInv
<1>2. CASE Binder
  BY <1>2, BinderTypes, BinderKeepsCaller, BinderInvariant, ErrorInvariant DEF IInv
<1>3. CASE Client \/ TimerFires \/ ContextCanceled
  BY <1>3, EnvironmentInvariant, ErrorInvariant DEF IInv
<1>4. CASE UNCHANGED vars
  BY <1>4, ErrorInvariant DEF vars, IInv, TypeOK, CallerInv, BinderInv, Waiting
<1>5. QED
  BY <1>1, <1>2, <1>3, <1>4 DEF Next, Finished

-----------------------------------------------------------------------------
(* Neither goroutine waits in vain.                                        *)

LEMMA AnswerWaits ==
    ASSUME IInv, NobodyWaitsInVain, [Next]_vars, caller' = "select", binder' = "gone"
    PROVE  done' = <<answer'>>
<1>1. CASE Caller
  BY <1>1 DEF Caller, RefuseLength, StartBinder, TakeAnswer, Abandon, CloseBody,
              CallHandler, RejectRequest, Return
<1>2. CASE Send
  BY <1>2 DEF Send
<1>3. CASE Binder /\ ~Send
  BY <1>3 DEF Binder, UnknownCharset, OpenReader, PeekMark, BeginRead, ReadChunk,
              ReadFails, EndOfForm, EndInsideValue, DecodeValue, EndOfTail, BindFields,
              EndRead
<1>4. CASE UNCHANGED <<caller, binder, answer, done>>
  BY <1>4 DEF NobodyWaitsInVain
<1>5. CASE Client \/ TimerFires \/ ContextCanceled
  BY <1>4, <1>5 DEF Client, ClientSends, ClientLeaves, TimerFires, ContextCanceled,
                    callerVars, binderVars
<1>6. CASE UNCHANGED vars
  BY <1>4, <1>6 DEF vars, callerVars, binderVars
<1> QED BY <1>1, <1>2, <1>3, <1>5, <1>6 DEF Next, Finished

-----------------------------------------------------------------------------
(* The theorems.                                                           *)

\* Types, and what is known where each of the two goroutines is.
THEOREM InvariantCorrect == Spec => []IInv
BY InitInvariant, StepInvariant, PTL DEF Spec

\* Every variable keeps to the values its Go counterpart can have.
THEOREM TypeCorrect == Spec => []TypeOK
<1>1. IInv => TypeOK
  BY DEF IInv
<1>2. QED
  BY <1>1, InvariantCorrect, PTL

\* The value is the handler's alone once the binding has succeeded.
THEOREM SuccessCorrect == Spec => []HandlerOwnsParsed
<1>1. IInv => HandlerOwnsParsed
  BY DEF IInv, CallerInv, BinderInv, HandlerOwnsParsed, Answers, OK, Pending, Panicked
<1>2. QED
  BY <1>1, InvariantCorrect, PTL

\* A binding succeeds on the complete body only (bindForm, bindJson).
THEOREM CompleteCorrect == Spec => []SuccessReadsAll
<1>1. IInv => SuccessReadsAll
  BY DEF IInv, CallerInv, BinderInv, SuccessReadsAll, Answers, OK, Pending, Panicked
<1>2. QED
  BY <1>1, InvariantCorrect, PTL

\* An answer of the binder, a panic included, is the caller's unless the timer
\* or the context came first.
THEOREM AnswerCorrect == Spec => []AnswerReachesCaller
<1>1. IInv => AnswerReachesCaller
  <2> SUFFICES ASSUME IInv, binder = "gone",
                      caller \in {"returned", "handler", "rejected"}
               PROVE  status = answer \/ (status = 408 /\ (fired \/ canceled))
    BY DEF AnswerReachesCaller
  <2>1. status \in Answers \cup {408}
    BY DEF IInv, TypeOK, CallerInv, Statuses, Waiting
  <2>2. QED
    BY <2>1 DEF IInv, CallerInv
<1>2. QED
  BY <1>1, InvariantCorrect, PTL

\* Nothing writes the value after the binding has succeeded.
THEOREM StableCorrect == Spec => HandlerParsedStable
<1>1. IInv /\ [Next]_vars => (status = OK => parsed' = parsed)
  <2> SUFFICES ASSUME IInv, [Next]_vars, status = OK
               PROVE  parsed' = parsed
    OBVIOUS
  <2>1. binder = "gone"
    BY DEF IInv, CallerInv, Answers
  <2>2. CASE Caller
    BY <2>2 DEF Caller, RefuseLength, StartBinder, TakeAnswer, Abandon, CloseBody,
                CallHandler, RejectRequest
  <2>3. CASE Binder
    BY <2>1, <2>3
       DEF Binder, UnknownCharset, OpenReader, PeekMark, BeginRead, ReadChunk,
           ReadFails, EndOfForm, EndInsideValue, DecodeValue, EndOfTail,
           BindFields, Send
  <2>4. CASE Client \/ TimerFires \/ ContextCanceled
    BY <2>4 DEF Client, ClientSends, ClientLeaves, TimerFires, ContextCanceled
  <2>5. QED
    BY <2>2, <2>3, <2>4 DEF Next, Finished, vars
<1>2. QED
  BY <1>1, InvariantCorrect, PTL DEF Spec, HandlerParsedStable

-----------------------------------------------------------------------------
(* The refinement of BoundedBinding.                                       *)

\* What the caller returns, and leaves of the body, is within the contract.
LEMMA ReturnMaps ==
    ASSUME IInv, Caller, status = Pending, status' # Pending
    PROVE  Binding!Next
<1> DEFINE t == IF IsForm THEN "form" ELSE "json"
           left == IF (status' = 408 /\ closed') \/ (status' = 500 /\ gone') THEN "closed"
                   ELSE IF got' = Chunks THEN "drained" ELSE "part"
<1>1. UNCHANGED <<req, got, gone>>
  BY DEF Caller, RefuseLength, StartBinder, TakeAnswer, Abandon, CloseBody, CallHandler,
         RejectRequest
<1>2. RestOfBody = "whole" /\ t' = t /\ t \in {"form", "json"}
  BY <1>1 DEF RestOfBody, Binding!Pending, Pending, IsForm
<1>3. RestOfBody' = (IF status' \in {411, 413, 415} THEN "whole" ELSE left)
  BY DEF RestOfBody
<1>4. status' \in Outcomes /\ Allowed(t, "whole", status', RestOfBody')
  <2>1. CASE RefuseLength
    <3>1. status' \in {411, 413}
      BY <2>1 DEF RefuseLength, Return
    <3>2. QED
      BY <1>3, <3>1 DEF Allowed, Outcomes
  <2>2. CASE CloseBody
    <3>1. status' = 408 /\ closed'
      BY <2>2 DEF CloseBody, Return
    <3>2. QED
      BY <1>3, <3>1 DEF Allowed, Outcomes
  <2>3. CASE TakeAnswer
    <3>1. done = <<answer>> /\ answer \in Answers
      BY <2>3 DEF TakeAnswer, IInv, BinderInv
    <3>2. status' = answer /\ status' \in Answers
      BY <2>3, <3>1 DEF TakeAnswer, Return
    <3>3. ~closed
      BY DEF IInv, CallerInv, Pending
    <3>4. /\ status' = OK => got = Chunks
          /\ status' = 400 /\ IsForm => got = Chunks
          /\ status' = 500 => IsForm /\ gone
      BY <3>2, <3>3 DEF IInv, BinderInv, ErrorInv
    <3>5. QED
      BY <1>1, <1>2, <1>3, <3>2, <3>4 DEF Allowed, Outcomes, Answers, LeftOf, OK, Panicked
  <2>4. QED
    BY <2>1, <2>2, <2>3 DEF Caller, StartBinder, Abandon, CallHandler, RejectRequest
<1>5. RestOfBody' \in Rests
  BY <1>3 DEF Rests
<1> HIDE DEF t, left
<1>6. QED
  BY <1>2, <1>4, <1>5 DEF t, Binding!Next, Binding!Resolve, Binding!Pending, Pending,
     Binding!Allowed, Allowed, Binding!LeftOf, LeftOf, Binding!Outcomes, Outcomes,
     Binding!Rests, Rests, Binding!OK, OK, Binding!Panicked, Panicked

\* After the return nothing that the other parsers see changes.
LEMMA StaysMapped ==
    ASSUME IInv, [Next]_vars, status' = status
    PROVE  UNCHANGED Binding!bvars
<1>1. req' = req
  BY DEF Next, Caller, Binder, Client, RefuseLength, StartBinder, TakeAnswer, Abandon,
         CloseBody, CallHandler, RejectRequest, UnknownCharset, OpenReader, PeekMark,
         BeginRead, ReadChunk, ReadFails, EndOfForm, EndInsideValue, DecodeValue,
         EndOfTail, BindFields, Send, EndRead, ClientSends, ClientLeaves, TimerFires,
         ContextCanceled, Finished, vars
<1>2. RestOfBody' = RestOfBody
  <2>1. CASE status \in {Pending, 411, 413, 415}
    BY <2>1 DEF RestOfBody
  <2>2. CASE status = 408
    <3>1. closed /\ closed'
      BY <2>2, StepInvariant DEF IInv, CallerInv
    <3>2. QED
      BY <2>2, <3>1 DEF RestOfBody, Pending
  <2>3. CASE status \in {OK, Panicked, 400, 500}
    <3>1. binder = "gone" /\ status = answer /\ ~closed
      BY <2>3 DEF IInv, CallerInv, Answers, OK, Panicked
    <3>2. status = 500 => gone
      BY <3>1 DEF IInv, ErrorInv
    <3>3. got' = got /\ (gone => gone')
      BY <3>1 DEF Next, Caller, Binder, Client, RefuseLength, StartBinder, TakeAnswer,
         Abandon, CloseBody, CallHandler, RejectRequest, UnknownCharset, OpenReader,
         PeekMark, BeginRead, ReadChunk, ReadFails, EndOfForm, EndInsideValue,
         DecodeValue, EndOfTail, BindFields, Send, EndRead, ClientSends, ClientLeaves,
         TimerFires, ContextCanceled, Finished, vars
    <3>4. QED
      BY <2>3, <3>2, <3>3 DEF RestOfBody, OK, Panicked, Pending
  <2>4. QED
    BY <2>1, <2>2, <2>3 DEF IInv, TypeOK, Statuses, Answers
<1>3. QED
  BY <1>1, <1>2 DEF Binding!bvars, IsForm

LEMMA StepMaps == IInv /\ [Next]_vars => [Binding!Next]_Binding!bvars
<1> SUFFICES ASSUME IInv, [Next]_vars
             PROVE  [Binding!Next]_Binding!bvars
  OBVIOUS
<1>1. CASE status' = status
  BY <1>1, StaysMapped
<1>2. CASE status' # status
  <2>1. Caller /\ status = Pending
    BY <1>2 DEF Next, Caller, Binder, Client, RefuseLength, StartBinder, TakeAnswer, Abandon,
       CloseBody, CallHandler, RejectRequest, UnknownCharset, OpenReader, PeekMark,
       BeginRead, ReadChunk, ReadFails, EndOfForm, EndInsideValue, DecodeValue,
       EndOfTail, BindFields, Send, EndRead, ClientSends, ClientLeaves, TimerFires,
       ContextCanceled, Finished, vars, IInv, CallerInv, Waiting
  <2>2. QED
    BY <1>2, <2>1, ReturnMaps
<1>3. QED
  BY <1>1, <1>2

\* With its two goroutines a binding does what BoundedBinding says of one that
\* is a single step, whatever the client, the timer and the context do.
THEOREM BindingCorrect == Spec => ImplementsBinding
<1>1. Init => Binding!Init
  BY DEF Init, Binding!Init, RestOfBody, Binding!Pending, Pending
<1>2. QED
  BY <1>1, StepMaps, InvariantCorrect, PTL DEF Spec, Binding!Spec, ImplementsBinding

\* The binder's send never blocks, and the caller's select never waits for an
\* answer that was lost: what GoroutinesEnd needs besides the scheduler.
THEOREM NoVainWaitCorrect == Spec => []NobodyWaitsInVain
<1>1. Init => NobodyWaitsInVain
  BY DEF Init, NobodyWaitsInVain
<1>2. IInv /\ IInv' /\ NobodyWaitsInVain /\ [Next]_vars => NobodyWaitsInVain'
  <2> SUFFICES ASSUME IInv, IInv', NobodyWaitsInVain, [Next]_vars
               PROVE  NobodyWaitsInVain'
    OBVIOUS
  <2>1. binder' = "send" => done' = <<>>
    BY DEF IInv, BinderInv
  <2> QED BY <2>1, AnswerWaits DEF NobodyWaitsInVain
<1> QED BY <1>1, <1>2, InvariantCorrect, PTL DEF Spec

-----------------------------------------------------------------------------
(* How the two goroutines approach their ends.                             *)

LEMMA ReadStays == ASSUME UNCHANGED reading PROVE UNCHANGED ReadLeft
<1>1. reading' <=> reading
  OBVIOUS
<1> QED BY <1>1 DEF ReadLeft

LEMMA ReadTurns ==
    /\ ReadLeft \in 0 .. 1
    /\ reading => ReadLeft = 0
    /\ ~reading' => ReadLeft' = 1
    /\ ~reading => ReadLeft = 1
    /\ reading' => ReadLeft' = 0
  BY DEF ReadLeft

LEMMA SmallerLeft ==
    ASSUME NEW c \in Nat, NEW g \in Nat, NEW h \in Nat, NEW r \in Nat, NEW q \in Nat,
           NEW l \in 0 .. 1, NEW m \in 0 .. 1,
           \/ h = g /\ q < r
           \/ h = g + 1 /\ q <= r
    PROVE  2 * (c - h) + 2 * q + m < 2 * (c - g) + 2 * r + l
  OBVIOUS

LEMMA CallerAdvances ==
    ASSUME IInv, Caller
    PROVE  /\ CallerLeft' < CallerLeft
           /\ caller # "entry" => BinderLeft' = BinderLeft
<1>1. CallerLeft' < CallerLeft
  BY DEF Caller, RefuseLength, StartBinder, TakeAnswer, Abandon, CloseBody, CallHandler,
         RejectRequest, Return, CallerLeft
<1>2. caller # "entry" => UNCHANGED <<binder, got, reading>>
  BY DEF Caller, RefuseLength, StartBinder, TakeAnswer, Abandon, CloseBody, CallHandler,
         RejectRequest
<1>3. caller # "entry" => UNCHANGED <<BinderRank, ReadLeft>>
  <2>1. UNCHANGED binder => UNCHANGED BinderRank
    BY DEF BinderRank
  <2>2. UNCHANGED reading => UNCHANGED ReadLeft
    BY ReadStays
  <2> QED BY <1>2, <2>1, <2>2
<1> QED BY <1>1, <1>2, <1>3 DEF BinderLeft

\* A Read that has ended takes a chunk with it, or is the last of its kind.
LEMMA ReadEndAdvances ==
    ASSUME IInv, reading, NEW n \in 0 .. 1, NEW next \in Binders, EndRead(n, next),
           got + n <= Chunks,
           BinderRank' <= BinderRank, n = 0 => BinderRank' < BinderRank
    PROVE  BinderLeft' < BinderLeft
<1>1. got \in Nat /\ Chunks \in Nat /\ got' = got + n
  BY ChunksAssumption DEF IInv, TypeOK, EndRead
<1>2. BinderRank \in Nat /\ BinderRank' \in Nat
  BY DEF IInv, TypeOK, EndRead, Binders, BinderRank
<1>3. ReadLeft = 0 /\ ReadLeft' = 1
  <2>1. ~reading'
    BY DEF EndRead
  <2> QED BY <2>1, ReadTurns
<1>4. \/ got' = got /\ BinderRank' < BinderRank
      \/ got' = got + 1 /\ BinderRank' <= BinderRank
  BY <1>1
<1>5. got' \in Nat /\ ReadLeft \in 0 .. 1 /\ ReadLeft' \in 0 .. 1
  BY <1>1, <1>3
<1> QED BY <1>1, <1>2, <1>4, <1>5, SmallerLeft, Zenon DEF BinderLeft

LEMMA BinderAdvances ==
    ASSUME IInv, Binder
    PROVE  BinderLeft' < BinderLeft
<1> USE ChunksAssumption DEF IInv, TypeOK
<1>1. CASE UnknownCharset \/ OpenReader \/ DecodeValue \/ BindFields \/ Send
  <2>1. /\ BinderRank' < BinderRank /\ BinderRank \in Nat /\ BinderRank' \in Nat
        /\ UNCHANGED <<got, reading>>
    BY <1>1 DEF UnknownCharset, OpenReader, DecodeValue, BindFields, Send, BinderRank
  <2>2. UNCHANGED ReadLeft /\ ReadLeft \in Nat
    BY <2>1, ReadStays, ReadTurns
  <2>3. got \in Nat /\ Chunks \in Nat /\ ReadLeft \in 0 .. 1 /\ ReadLeft' \in 0 .. 1
    BY <2>2, ReadTurns
  <2> QED BY <2>1, <2>3, SmallerLeft, Zenon DEF BinderLeft
<1>2. CASE BeginRead
  <2>1. ReadLeft = 1 /\ ReadLeft' = 0
    BY <1>2, ReadTurns DEF BeginRead
  <2>2. UNCHANGED <<BinderRank, got>> /\ BinderRank \in Nat
    BY <1>2 DEF BeginRead, Binders, BinderRank
  <2> QED BY <2>1, <2>2 DEF BinderLeft
<1>3. CASE PeekMark
  <2>1. CASE CanGet /\ \E next \in {"peek", "read"} : EndRead(1, next)
    <3>1. PICK next \in {"peek", "read"} : EndRead(1, next)
      BY <2>1
    <3>2. reading /\ got + 1 <= Chunks /\ BinderRank' <= BinderRank /\ next \in Binders
      BY <1>3, <2>1, <3>1 DEF PeekMark, CanGet, EndRead, BinderRank, Binders
    <3> QED BY <3>1, <3>2, ReadEndAdvances
  <2>2. CASE (CanEnd \/ CanFail) /\ EndRead(0, "read")
    <3>1. reading /\ got + 0 <= Chunks /\ BinderRank' < BinderRank /\ "read" \in Binders
      BY <1>3, <2>2 DEF PeekMark, CanEnd, CanFail, EndRead, BinderRank, Binders
    <3>2. BinderRank \in Nat /\ BinderRank' \in Nat
      BY <2>2 DEF EndRead, Binders, BinderRank
    <3> QED BY <2>2, <3>1, <3>2, ReadEndAdvances
  <2> QED BY <1>3, <2>1, <2>2 DEF PeekMark
<1>4. CASE ReadChunk
  <2>1. reading /\ got + 1 <= Chunks /\ EndRead(1, binder) /\ BinderRank' = BinderRank
    BY <1>4 DEF ReadChunk, CanGet, EndRead, BinderRank
  <2>2. BinderRank \in Nat
    BY DEF Binders, BinderRank
  <2> QED BY <2>1, <2>2, ReadEndAdvances
<1>5. CASE ReadFails \/ EndOfForm \/ EndInsideValue \/ EndOfTail
  <2>1. PICK next \in {"bind", "send"} : EndRead(0, next)
    BY <1>5, Zenon DEF ReadFails, EndOfForm, EndInsideValue, EndOfTail
  <2>2. reading /\ binder \in {"read", "tail"}
    BY <1>5 DEF ReadFails, EndOfForm, EndInsideValue, EndOfTail, CanEnd, CanFail
  <2>3. got + 0 <= Chunks /\ BinderRank' < BinderRank /\ next \in Binders
    BY <2>1, <2>2 DEF EndRead, BinderRank, Binders
  <2>4. BinderRank \in Nat /\ BinderRank' \in Nat
    BY <2>1, <2>3 DEF EndRead, Binders, BinderRank
  <2> QED BY <2>1, <2>2, <2>3, <2>4, ReadEndAdvances
<1> QED BY <1>1, <1>2, <1>3, <1>4, <1>5 DEF Binder

LEMMA NextAdvances == IInv /\ [Next]_vars => AdvanceStep
<1> SUFFICES ASSUME IInv PROVE AdvanceStep
  OBVIOUS
<1>1. ASSUME Binder PROVE UNCHANGED CallerLeft
  <2>1. UNCHANGED caller
    BY <1>1 DEF Binder, UnknownCharset, OpenReader, PeekMark, BeginRead, ReadChunk, ReadFails,
       EndOfForm, EndInsideValue, DecodeValue, EndOfTail, BindFields, Send, EndRead
  <2> QED BY <2>1 DEF CallerLeft
<1>2. ASSUME Client \/ TimerFires \/ ContextCanceled
      PROVE  UNCHANGED <<CallerLeft, BinderLeft>>
  <2>1. UNCHANGED <<caller, binder, got, reading>>
    BY <1>2 DEF Client, ClientSends, ClientLeaves, TimerFires, ContextCanceled
  <2>2. UNCHANGED ReadLeft
    BY <2>1, ReadStays
  <2> QED BY <2>1, <2>2 DEF CallerLeft, BinderLeft, BinderRank
<1> QED BY <1>1, <1>2, CallerAdvances, BinderAdvances DEF AdvanceStep

\* Either goroutine has less to do with every step of it, for a body of any length: what
\* GoroutinesEnd needs besides the scheduler (request_body.go:89-183).
THEOREM AdvanceCorrect == Spec => GoroutinesAdvance
  BY NextAdvances, InvariantCorrect, PTL DEF Spec, GoroutinesAdvance

\* A read cannot overtake the client.
ReadsBehind == got <= sent

\* A Read that goes on waits for a client that can still send: it is the only wait of
\* the binder, and the caller's Close ends it (request_body.go:89-183).
THEOREM ReadsCorrect == Spec => []ReadsWaitForClient
<1>1. Init => ReadsBehind
  BY DEF Init, ReadsBehind
<1>2. IInv /\ ReadsBehind /\ [Next]_vars => ReadsBehind'
  <2> SUFFICES ASSUME IInv, ReadsBehind, [Next]_vars PROVE ReadsBehind'
    OBVIOUS
  <2> USE DEF IInv, TypeOK, ReadsBehind
  <2>1. CASE PeekMark \/ ReadChunk
    BY <2>1 DEF PeekMark, ReadChunk, CanGet, EndRead
  <2>2. CASE Client
    BY <2>2 DEF Client, ClientSends, ClientLeaves
  <2>3. CASE ReadFails \/ EndOfForm \/ EndInsideValue \/ EndOfTail
    BY <2>3 DEF ReadFails, EndOfForm, EndInsideValue, EndOfTail, EndRead
  <2>4. CASE UNCHANGED <<got, sent>>
    BY <2>4
  <2> QED
    BY <2>1, <2>2, <2>3, <2>4
       DEF Next, Caller, Binder, RefuseLength, StartBinder, TakeAnswer, Abandon, CloseBody,
           CallHandler, RejectRequest, UnknownCharset, OpenReader, BeginRead, DecodeValue,
           BindFields, Send, TimerFires, ContextCanceled, Finished, vars
<1>3. IInv /\ ReadsBehind => ReadsWaitForClient
  BY ChunksAssumption DEF IInv, TypeOK, ReadsBehind, ReadsWaitForClient, CanGet, CanEnd,
     CanFail
<1> QED BY <1>1, <1>2, <1>3, InvariantCorrect, PTL DEF Spec

=============================================================================
