--------------------------- MODULE ServeHTTPProofs ---------------------------
(***************************************************************************)
(* Proofs about ServeHTTP, for every number of middlewares, every set of   *)
(* statuses and every bound on user calls.  The inductive invariant IInv   *)
(* is defined in ServeHTTP, where TLC checks it too.                       *)
(***************************************************************************)
EXTENDS ServeHTTP, TLAPS

USE DEF wireVars, swVars, ctxVars, flowVars, contextSide, writerSide

-----------------------------------------------------------------------------
(* The calls of ResponseContext and StreamWriter.                          *)

LEMMA NewResponseTypes ==
    ASSUME ContextTypeOK, header \in Headers,
           NEW status \in Nat, NewResponse(status)
    PROVE  ContextTypeOK' /\ header' \in Headers
<1>0. "nil" \in Bodies
  BY DEF Bodies, JsonBodies
<1>1. CASE ~ValidStatus(status)
  BY <1>1 DEF NewResponse, RaisePanic, ContextTypeOK
<1>2. CASE ValidStatus(status) /\ ~ctxWriter
  BY <1>0, <1>2 DEF NewResponse, ContextTypeOK
<1>3. CASE ValidStatus(status) /\ ctxWriter
  <2> DEFINE new == ticket + 1
  <2>1. ticket' = new /\ new \in Nat /\ handles' = handles \cup {new}
    BY <1>3 DEF NewResponse, ContextTypeOK
  <2> HIDE DEF new
  <2>2. handles' \subseteq Nat
    BY <2>1 DEF ContextTypeOK
  <2>3. header' \in Headers
    BY <1>3 DEF NewResponse, NoHeader, Headers, ContentTypes
  <2>4. QED
    BY <1>0, <1>3, <2>1, <2>2, <2>3 DEF NewResponse, ContextTypeOK
<1>4. QED
  BY <1>1, <1>2, <1>3

LEMMA AddHeaderTypes ==
    ASSUME ticket \in Nat, header \in Headers, AddHeader
    PROVE  header' \in Headers
BY DEF AddHeader, Headers

\* What a step of user code leaves of the Context and of the header map.
LEMMA ContextCallTypes ==
    ASSUME TypeOK, ContextCall
    PROVE  ContextTypeOK' /\ header' \in Headers
<1>1. CASE \E status \in StatusArgs : NewResponse(status)
  BY <1>1, NewResponseTypes, StatusArgsAssumption
     DEF TypeOK, WriterTypeOK
<1>2. CASE Hijack
  BY <1>2 DEF Hijack, TypeOK, WriterTypeOK, ContextTypeOK, Bodies
<1>3. CASE Response
  BY <1>3 DEF Response, TypeOK, WriterTypeOK, ContextTypeOK
<1>4. QED
  BY <1>1, <1>2, <1>3 DEF ContextCall

LEMMA SetBodyTypes ==
    ASSUME ContextTypeOK, header \in Headers,
           NEW h \in handles, NEW body \in Bodies, NEW m \in {"direct", "json"},
           SetBody(h, body, m)
    PROVE  ContextTypeOK' /\ header' \in Headers
BY DEF SetBody, RaisePanic, ContextTypeOK

LEMMA SetTypedBodyTypes ==
    ASSUME ContextTypeOK, header \in Headers,
           NEW h \in handles, NEW body \in Bodies, NEW type \in ContentTypes,
           SetTypedBody(h, body, type)
    PROVE  ContextTypeOK' /\ header' \in Headers
<1>1. CASE RaisePanic
  BY <1>1 DEF RaisePanic, ContextTypeOK
<1>2. CASE ~RaisePanic
  <2>1. header' = [gens |-> header.gens \cup {ticket}, type |-> type]
    BY <1>2 DEF SetTypedBody
  <2>2. header' \in Headers
    BY <2>1 DEF Headers, ContextTypeOK
  <2>3. QED
    BY <1>2, <2>2 DEF SetTypedBody, ContextTypeOK
<1>3. QED
  BY <1>1, <1>2

LEMMA ResponseCallTypes ==
    ASSUME TypeOK, ResponseCall
    PROVE  ContextTypeOK' /\ header' \in Headers
<1>0. ContextTypeOK /\ header \in Headers
  BY DEF TypeOK, WriterTypeOK
<1>1. PICK h \in handles :
         \/ \E body \in DirectBodies : SetBody(h, body, "direct")
         \/ \E body \in JsonBodies : SetBody(h, body, "json")
         \/ SetTypedBody(h, "string", "plain")
         \/ SetTypedBody(h, "bytes", "octets")
         \/ Cookie(h)
         \/ SetHeader(h)
  BY DEF ResponseCall
<1>2. CASE \E body \in DirectBodies : SetBody(h, body, "direct")
  BY <1>0, <1>2, SetBodyTypes DEF Bodies
<1>3. CASE \E body \in JsonBodies : SetBody(h, body, "json")
  BY <1>0, <1>3, SetBodyTypes DEF Bodies
<1>4. CASE SetTypedBody(h, "string", "plain")
  BY <1>0, <1>4, SetTypedBodyTypes DEF Bodies, DirectBodies, ContentTypes
<1>5. CASE SetTypedBody(h, "bytes", "octets")
  BY <1>0, <1>5, SetTypedBodyTypes DEF Bodies, DirectBodies, ContentTypes
<1>6. CASE Cookie(h) \/ SetHeader(h)
  BY <1>0, <1>6, AddHeaderTypes
     DEF Cookie, SetHeader, RaisePanic, ContextTypeOK
<1>7. QED
  BY <1>1, <1>2, <1>3, <1>4, <1>5, <1>6

LEMMA WriteHeaderTypes ==
    ASSUME WriterTypeOK, NEW code \in Nat, NEW h \in Headers,
           WriteHeader(code, h), header' \in Headers
    PROVE  WriterTypeOK'
BY DEF WriteHeader, NetWriteHeader, IsFinal, WriterTypeOK

LEMMA WriteTypes ==
    ASSUME WriterTypeOK, NEW n \in 0 .. 1, Write(n), UNCHANGED header
    PROVE  WriterTypeOK'
BY DEF Write, NetWrite, NetWriteHeader, IsFinal, WriterTypeOK

LEMMA FlushTypes ==
    ASSUME WriterTypeOK, Flush, UNCHANGED header
    PROVE  WriterTypeOK'
BY DEF Flush, NetWriteHeader, IsFinal, WriterTypeOK

LEMMA HijackConnTypes ==
    ASSUME WriterTypeOK, HijackConn, UNCHANGED header
    PROVE  WriterTypeOK'
BY DEF HijackConn, WriterTypeOK

LEMMA NoHeaderType == NoHeader \in Headers
BY DEF NoHeader, Headers, ContentTypes

-----------------------------------------------------------------------------
(* Type correctness.                                                       *)

LEMMA InitTypes == Init => TypeOK
<1> SUFFICES ASSUME Init
             PROVE  TypeOK
  OBVIOUS
<1>1. WriterTypeOK
  <2>1. header \in Headers /\ wireHeader \in Headers
    BY NoHeaderType DEF Init, WriterInit
  <2>2. hijacked \in BOOLEAN /\ swWriter \in BOOLEAN
    BY DEF Init, WriterInit
  <2>3. wireStatus = 0 /\ wireBytes = 0 /\ swStatus = 0 /\ swBytes = 0
    BY DEF Init, WriterInit
  <2>4. QED
    BY <2>1, <2>2, <2>3 DEF WriterTypeOK
<1>2. ContextTypeOK
  <2>1. ctxWriter \in BOOLEAN /\ panicking \in BOOLEAN
    BY DEF Init, ContextInit
  <2>2. /\ ctxStatus = 0 /\ ticket = 0
        /\ ctxBody = "nil" /\ marshaller = "direct" /\ handles = {}
    BY DEF Init, ContextInit
  <2>3. QED
    BY <2>1, <2>2 DEF ContextTypeOK, Bodies, JsonBodies
<1>3. FlowTypeOK
  BY DEF Init, FlowTypeOK, Pcs
<1>4. QED
  BY <1>1, <1>2, <1>3 DEF TypeOK

\* User code, one step per call.
LEMMA UserCallTypes ==
    ASSUME TypeOK, UserCalls
    PROVE  TypeOK'
<1> USE DEF TypeOK
<1>1. CASE ContextCall
  <2>1. WriterTypeOK'
    BY <1>1, ContextCallTypes DEF ContextCall, WriterTypeOK
  <2>2. FlowTypeOK'
    BY <1>1 DEF ContextCall, UserOp, FlowTypeOK
  <2>3. QED
    BY <1>1, <2>1, <2>2, ContextCallTypes
<1>2. CASE ResponseCall
  <2>1. WriterTypeOK'
    BY <1>2, ResponseCallTypes DEF ResponseCall, WriterTypeOK
  <2>2. FlowTypeOK'
    BY <1>2 DEF ResponseCall, UserOp, FlowTypeOK
  <2>3. QED
    BY <1>2, <2>1, <2>2, ResponseCallTypes
<1>3. CASE Panic
  BY <1>3 DEF Panic, UserOp, RaisePanic, WriterTypeOK, ContextTypeOK, FlowTypeOK
<1>4. CASE RecoverPanic
  <2>1. WriterTypeOK'
    BY <1>4 DEF RecoverPanic, WriterTypeOK
  <2>2. ContextTypeOK'
    BY <1>4 DEF RecoverPanic, ContextTypeOK
  <2>3. FlowTypeOK'
    BY <1>4 DEF RecoverPanic, FlowTypeOK
  <2>4. QED
    BY <2>1, <2>2, <2>3
<1>5. CASE CallNext
  BY <1>5 DEF CallNext, WriterTypeOK, ContextTypeOK, FlowTypeOK
<1>6. CASE StreamWrite
  <2>1. WriterTypeOK'
    BY <1>6, WriteTypes DEF StreamWrite, RaisePanic, WriterTypeOK
  <2>2. ContextTypeOK'
    BY <1>6 DEF StreamWrite, RaisePanic, ContextTypeOK
  <2>3. FlowTypeOK'
    BY <1>6 DEF StreamWrite, UserOp, FlowTypeOK
  <2>4. QED
    BY <2>1, <2>2, <2>3
<1>7. CASE StreamWriteHeader
  <2>1. WriterTypeOK'
    BY <1>7, WriteHeaderTypes, StreamStatusesAssumption
       DEF StreamWriteHeader, RaisePanic, WriterTypeOK
  <2>2. ContextTypeOK'
    BY <1>7 DEF StreamWriteHeader, RaisePanic, ContextTypeOK
  <2>3. FlowTypeOK'
    BY <1>7 DEF StreamWriteHeader, UserOp, FlowTypeOK
  <2>4. QED
    BY <2>1, <2>2, <2>3
<1>8. CASE StreamHijack
  BY <1>8, HijackConnTypes
     DEF StreamHijack, UserOp, ContextTypeOK, FlowTypeOK
<1>9. CASE StreamFlush
  <2>1. WriterTypeOK'
    BY <1>9, FlushTypes DEF StreamFlush
  <2>2. QED
    BY <1>9, <2>1 DEF StreamFlush, UserOp, ContextTypeOK, FlowTypeOK
<1>10. CASE StreamHeader
  <2>1. header' \in Headers
    <3>1. CASE AddHeader
      BY <3>1, AddHeaderTypes DEF ContextTypeOK, WriterTypeOK
    <3>2. CASE RaisePanic
      BY <3>2 DEF RaisePanic, WriterTypeOK
    <3>3. QED
      BY <1>10, <3>1, <3>2 DEF StreamHeader
  <2>2. WriterTypeOK'
    BY <1>10, <2>1 DEF StreamHeader, WriterTypeOK
  <2>3. ContextTypeOK'
    BY <1>10 DEF StreamHeader, RaisePanic, ContextTypeOK
  <2>4. FlowTypeOK'
    BY <1>10 DEF StreamHeader, UserOp, FlowTypeOK
  <2>5. QED
    BY <2>2, <2>3, <2>4
<1>11. QED
  BY <1>1, <1>2, <1>3, <1>4, <1>5, <1>6, <1>7, <1>8, <1>9, <1>10 DEF UserCalls

LEMMA UserReturnTypes ==
    ASSUME TypeOK, UserReturns
    PROVE  TypeOK'
<1> USE DEF TypeOK, WriterTypeOK, ContextTypeOK, FlowTypeOK, InChain, Pcs
<1>1. CASE ReturnFrame
  BY <1>1 DEF ReturnFrame
<1>2. CASE Unwind
  BY <1>2 DEF Unwind
<1>3. CASE StreamReturn
  BY <1>3 DEF StreamReturn
<1>4. CASE TakeoverReturn
  BY <1>4 DEF TakeoverReturn
<1>5. QED
  BY <1>1, <1>2, <1>3, <1>4 DEF UserReturns

LEMMA CommitTypes ==
    ASSUME TypeOK, Commit
    PROVE  TypeOK'
<1> USE DEF TypeOK
<1>1. ASSUME WriteEmpty500
      PROVE  TypeOK'
  <2>1. WriterTypeOK'
    BY <1>1, NoHeaderType, WriteHeaderTypes DEF WriteEmpty500
  <2>2. QED
    BY <1>1, <2>1 DEF WriteEmpty500, ContextTypeOK, FlowTypeOK, Pcs
<1>2. ASSUME NEW h \in Headers, CommitStatus(h), pc' \in Pcs,
             UNCHANGED <<ctxStatus, ctxBody, marshaller, ticket>>,
             ctxWriter' \in BOOLEAN
      PROVE  TypeOK'
  <2>1. WriterTypeOK'
    BY <1>2, WriteHeaderTypes DEF CommitStatus, ContextTypeOK
  <2>2. QED
    BY <1>2, <2>1 DEF CommitStatus, ContextTypeOK, FlowTypeOK
<1>3. header \in Headers /\ [header EXCEPT !.type = "json"] \in Headers
  BY DEF WriterTypeOK, Headers, ContentTypes
<1>4. CASE CommitJson
  BY <1>2, <1>3, <1>4 DEF CommitJson, ContextTypeOK, Pcs
<1>5. CASE CommitEmpty \/ CommitBytes \/ CommitStream
  BY <1>2, <1>3, <1>5 DEF CommitEmpty, CommitBytes, CommitStream, ContextTypeOK, Pcs
<1>6. CASE JsonMarshalFails \/ ResponseMissing \/ HijackFails
  BY <1>1, <1>6 DEF JsonMarshalFails, ResponseMissing, HijackFails
<1>7. CASE JsonMarshalPanics
  BY <1>7 DEF JsonMarshalPanics, WriterTypeOK, ContextTypeOK, FlowTypeOK, Pcs
<1>8. CASE CommitHijack
  BY <1>8, HijackConnTypes
     DEF CommitHijack, ContextTypeOK, FlowTypeOK, Pcs, Bodies, JsonBodies
<1>9. QED
  BY <1>4, <1>5, <1>6, <1>7, <1>8 DEF Commit

LEMMA FrameworkTypes ==
    ASSUME TypeOK, Framework
    PROVE  TypeOK'
<1> USE DEF TypeOK
<1>1. CASE Dispatch
  BY <1>1 DEF Dispatch, WriterTypeOK, ContextTypeOK, FlowTypeOK, Pcs
<1>2. CASE NotFound
  <2>1. WriterTypeOK'
    BY <1>2, WriteHeaderTypes DEF NotFound, WriterTypeOK
  <2>2. QED
    BY <1>2, <2>1 DEF NotFound, ContextTypeOK, FlowTypeOK, Pcs
<1>3. CASE NotFoundBody
  <2>1. WriterTypeOK'
    BY <1>3, WriteTypes DEF NotFoundBody
  <2>2. QED
    BY <1>3, <2>1 DEF NotFoundBody, ContextTypeOK, FlowTypeOK, Pcs
<1>4. CASE BeginWrite
  BY <1>4 DEF BeginWrite, WriterTypeOK, ContextTypeOK, FlowTypeOK, Pcs
<1>5. CASE Commit
  BY <1>5, CommitTypes
<1>6. CASE WriteBody
  <2>1. WriterTypeOK'
    BY <1>6, WriteTypes DEF WriteBody
  <2>2. QED
    BY <1>6, <2>1 DEF WriteBody, ContextTypeOK, FlowTypeOK, Pcs
<1>7. CASE PanicBecomes500
  <2>1. WriterTypeOK'
    BY <1>7, NoHeaderType, WriteHeaderTypes DEF PanicBecomes500
  <2>2. ContextTypeOK'
    BY <1>7 DEF PanicBecomes500, ContextTypeOK
  <2>3. FlowTypeOK'
    BY <1>7 DEF PanicBecomes500, FlowTypeOK, Pcs
  <2>4. QED
    BY <2>1, <2>2, <2>3
<1>8. CASE NetFinish
  <2>1. WriterTypeOK'
    BY <1>8 DEF NetFinish, NetWriteHeader, WriterTypeOK
  <2>2. ContextTypeOK'
    BY <1>8 DEF NetFinish, ContextTypeOK
  <2>3. FlowTypeOK'
    BY <1>8 DEF NetFinish, FlowTypeOK, Pcs
  <2>4. QED
    BY <2>1, <2>2, <2>3
<1>9. CASE CloseConn \/ NoPanic \/ PanicAborts \/ Log
  <2>1. WriterTypeOK'
    BY <1>9 DEF CloseConn, NoPanic, PanicAborts, Log, WriterTypeOK
  <2>2. ContextTypeOK'
    BY <1>9 DEF CloseConn, NoPanic, PanicAborts, Log, ContextTypeOK
  <2>3. FlowTypeOK'
    BY <1>9 DEF CloseConn, NoPanic, PanicAborts, Log, FlowTypeOK, Pcs
  <2>4. QED
    BY <2>1, <2>2, <2>3
<1>10. QED
  BY <1>1, <1>2, <1>3, <1>4, <1>5, <1>6, <1>7, <1>8, <1>9 DEF Framework

LEMMA StepTypes == TypeOK /\ [Next]_vars => TypeOK'
<1>1. UNCHANGED vars /\ TypeOK => TypeOK'
  BY DEF vars, TypeOK, WriterTypeOK, ContextTypeOK, FlowTypeOK
<1>2. QED
  BY <1>1, UserCallTypes, UserReturnTypes, FrameworkTypes DEF Next, Finished

\* Every variable keeps to the values its Go counterpart can have, whatever
\* user code does (ServeHTTP and all it calls).
THEOREM TypeCorrect == Spec => []TypeOK
BY InitTypes, StepTypes, PTL DEF Spec

-----------------------------------------------------------------------------
(* The invariant IInv: what the program counter says about the wire.       *)

LEMMA UserOpWire ==
    ASSUME WireInv, pc \in {"chain", "stream", "takeover"},
           UNCHANGED <<pc, commits, writerSide>>
    PROVE  WireInv'
BY DEF WireInv, AccountingMatchesWire, CommitsOnce, BeforeWrite, AfterRecover

\* A body write to a response whose status is out changes only the counts.
LEMMA CommittedWrite ==
    ASSUME AccountingMatchesWire, wireStatus # 0, ~hijacked,
           NEW n \in 0 .. 1, Write(n)
    PROVE  /\ UNCHANGED <<wireStatus, swStatus, hijacked, swWriter>>
           /\ wireBytes' = swBytes'
BY DEF AccountingMatchesWire, Write, NetWrite, NetWriteHeader

\* A stream body that flushes, or changes headers, changes nothing that the
\* client or the log sees: its status is out before it runs.
LEMMA FlushIsSilent ==
    ASSUME IInv, StreamFlush \/ StreamHeader
    PROVE  /\ pc = "stream" /\ pc' = "stream" /\ UNCHANGED <<commits, writerSide>>
           /\ wireStatus # 0
<1>1. /\ pc = "stream" /\ pc' = "stream" /\ UNCHANGED commits
      /\ wireStatus # 0
  BY DEF StreamFlush, StreamHeader, UserOp, IInv, WireInv
<1>2. UNCHANGED writerSide
  BY <1>1 DEF StreamFlush, StreamHeader, Flush, NetWriteHeader
<1>3. QED
  BY <1>1, <1>2

LEMMA UserCallWire ==
    ASSUME IInv, UserCalls
    PROVE  WireInv'
<1>1. CASE ContextCall \/ ResponseCall \/ Panic \/ RecoverPanic \/ CallNext
  <2>1. pc \in {"chain", "stream", "takeover"}
    BY <1>1 DEF ContextCall, ResponseCall, Panic, RecoverPanic, CallNext,
                UserOp, InUserCode, InChain
  <2>2. UNCHANGED <<pc, commits, writerSide>>
    BY <1>1 DEF ContextCall, ResponseCall, Panic, RecoverPanic, CallNext, UserOp
  <2>3. QED
    BY <2>1, <2>2, UserOpWire DEF IInv
<1>2. CASE StreamWrite
  <2>1. CASE UNCHANGED writerSide
    BY <1>2, <2>1, UserOpWire DEF StreamWrite, UserOp, IInv
  <2>2. CASE \E n \in 0 .. 1 : Write(n)
    <3>1. PICK n \in 0 .. 1 : Write(n)
      BY <2>2
    <3>2. CASE ~swWriter
      BY <1>2, <3>2, UserOpWire DEF StreamWrite, UserOp, IInv
    <3>3. CASE swWriter
      <4>1. /\ pc = "stream" /\ pc' = "stream" /\ commits' = commits
            /\ wireStatus # 0 /\ ~hijacked /\ AccountingMatchesWire
        BY <1>2, <3>3 DEF StreamWrite, UserOp, IInv, WireInv
      <4>2. /\ UNCHANGED <<wireStatus, swStatus, hijacked, swWriter>>
            /\ wireBytes' = swBytes'
        BY <3>1, <4>1, CommittedWrite
      <4>3. QED
        BY <4>1, <4>2
           DEF IInv, WireInv, AccountingMatchesWire, CommitsOnce, BeforeWrite,
               AfterRecover
    <3>4. QED
      BY <3>2, <3>3
  <2>3. QED
    BY <1>2, <2>1, <2>2 DEF StreamWrite
<1>3. CASE StreamWriteHeader
  <2>1. CASE UNCHANGED writerSide
    BY <1>3, <2>1, UserOpWire DEF StreamWriteHeader, UserOp, IInv
  <2>2. CASE \E code \in StreamStatuses : WriteHeader(code, header)
    <3>1. PICK code \in StreamStatuses : WriteHeader(code, header)
      BY <2>2
    <3>2. /\ pc = "stream" /\ pc' = "stream" /\ wireStatus # 0
          /\ swStatus = wireStatus
      BY <1>3 DEF StreamWriteHeader, UserOp, IInv, WireInv, AccountingMatchesWire
    <3>3. UNCHANGED <<commits, writerSide>>
      BY <1>3, <3>1, <3>2
         DEF StreamWriteHeader, UserOp, WriteHeader, NetWriteHeader
    <3>4. QED
      BY <3>2, <3>3, UserOpWire DEF IInv
  <2>3. QED
    BY <1>3, <2>1, <2>2 DEF StreamWriteHeader
<1>4. CASE StreamHijack
  BY <1>4 DEF StreamHijack, UserOp, HijackConn, IInv, WireInv,
              AccountingMatchesWire, CommitsOnce, BeforeWrite, AfterRecover
<1>5. CASE StreamFlush \/ StreamHeader
  BY <1>5, FlushIsSilent, UserOpWire DEF IInv
<1>6. QED
  BY <1>1, <1>2, <1>3, <1>4, <1>5 DEF UserCalls

LEMMA UserReturnWire ==
    ASSUME IInv, UserReturns
    PROVE  WireInv'
<1> USE DEF IInv, WireInv, AccountingMatchesWire, CommitsOnce, BeforeWrite,
            AfterRecover
<1>1. CASE ReturnFrame
  BY <1>1 DEF ReturnFrame, InChain
<1>2. CASE Unwind
  BY <1>2 DEF Unwind, InChain
<1>3. CASE StreamReturn
  BY <1>3 DEF StreamReturn
<1>4. CASE TakeoverReturn
  BY <1>4 DEF TakeoverReturn
<1>5. QED
  BY <1>1, <1>2, <1>3, <1>4 DEF UserReturns

LEMMA CommitWire ==
    ASSUME IInv, Commit
    PROVE  WireInv'
<1> USE DEF IInv, WireInv, AccountingMatchesWire, CommitsOnce, BeforeWrite,
            AfterRecover
<1>0. pc = "commit" /\ wireStatus = 0 /\ ~hijacked /\ ~panicking
  BY DEF Commit, CommitJson, JsonMarshalFails, JsonMarshalPanics, ResponseMissing,
         CommitEmpty, CommitBytes, CommitStream, CommitHijack, HijackFails, IsJson,
         IsDirect
<1>1. ASSUME WriteEmpty500
      PROVE  WireInv'
  BY <1>0, <1>1 DEF WriteEmpty500, WriteHeader, NetWriteHeader, IsFinal
<1>2. ASSUME NEW h, CommitStatus(h), HasResponse,
             pc' \in {"recover", "write", "stream"}
      PROVE  WireInv'
  <2>1. IsFinal(ctxStatus)
    BY <1>0, <1>2
       DEF HasResponse, ContextInv, ResponseOrTakeover, ValidStatus, IsFinal,
           TypeOK, ContextTypeOK
  <2>2. QED
    BY <1>0, <1>2, <2>1
       DEF CommitStatus, WriteHeader, NetWriteHeader, HasResponse
<1>3. ctxStatus = 0 => ctxBody \in {"nil", "hijack"} /\ marshaller = "direct"
  BY <1>0 DEF ContextInv, ResponseOrTakeover
<1>4. CASE CommitJson
  BY <1>2, <1>3, <1>4 DEF CommitJson, IsJson, HasResponse
<1>5. CASE CommitEmpty
  BY <1>2, <1>5 DEF CommitEmpty, HasResponse
<1>6. CASE CommitBytes \/ CommitStream
  BY <1>2, <1>3, <1>6 DEF CommitBytes, CommitStream, HasResponse
<1>7. CASE JsonMarshalFails \/ ResponseMissing \/ HijackFails
  BY <1>1, <1>7 DEF JsonMarshalFails, ResponseMissing, HijackFails
<1>8. CASE JsonMarshalPanics
  BY <1>0, <1>8 DEF JsonMarshalPanics
<1>9. CASE CommitHijack
  BY <1>0, <1>9 DEF CommitHijack, HijackConn
<1>10. QED
  BY <1>4, <1>5, <1>6, <1>7, <1>8, <1>9 DEF Commit

LEMMA FrameworkWire ==
    ASSUME IInv, Framework
    PROVE  WireInv'
<1> USE DEF IInv, WireInv, AccountingMatchesWire, CommitsOnce, BeforeWrite,
            AfterRecover
<1>1. CASE Dispatch
  BY <1>1 DEF Dispatch
<1>2. CASE NotFound
  BY <1>2 DEF NotFound, WriteHeader, NetWriteHeader, IsFinal
<1>3. CASE NotFoundBody
  BY <1>3 DEF NotFoundBody, Write, NetWrite, NetWriteHeader, IsFinal, TypeOK,
              WriterTypeOK
<1>4. CASE BeginWrite
  BY <1>4 DEF BeginWrite
<1>5. CASE Commit
  BY <1>5, CommitWire
<1>6. CASE WriteBody
  <2>1. PICK n \in 0 .. 1 : Write(n)
    BY <1>6 DEF WriteBody
  <2>2. wireStatus # 0 /\ swStatus = wireStatus /\ ~hijacked
    BY <1>6 DEF WriteBody
  <2>3. /\ UNCHANGED <<wireStatus, swStatus, hijacked, swWriter>>
        /\ wireBytes' = swBytes'
    BY <2>1, <2>2, CommittedWrite
  <2>4. QED
    BY <1>6, <2>2, <2>3 DEF WriteBody
<1>7. CASE CloseConn
  BY <1>7 DEF CloseConn
<1>8. CASE NoPanic
  BY <1>8 DEF NoPanic
<1>9. CASE PanicBecomes500
  <2>1. /\ pc' = "log" /\ ~hijacked /\ swWriter
        /\ wireStatus = 0 /\ swStatus = 0 /\ commits = 0 /\ swBytes = wireBytes
    BY <1>9 DEF PanicBecomes500, Undecided
  <2>2. /\ wireStatus' = 500 /\ swStatus' = 500 /\ commits' = commits + 1
        /\ UNCHANGED <<wireBytes, swBytes, hijacked, swWriter>>
    BY <1>9, <2>1 DEF PanicBecomes500, WriteHeader, NetWriteHeader, IsFinal
  <2>3. AccountingMatchesWire' /\ CommitsOnce'
    BY <2>1, <2>2
  <2>4. (swWriter = ~hijacked)'
    BY <2>1, <2>2
  <2>5. /\ pc' \notin {"dispatch", "chain", "commit", "write", "notfound",
                        "stream", "takeover", "closing", "recover"}
        /\ wireStatus' # 0
    BY <2>1, <2>2
  <2>6. QED
    BY <2>3, <2>4, <2>5
<1>10. CASE PanicAborts
  BY <1>10 DEF PanicAborts, Undecided
<1>11. CASE Log
  BY <1>11 DEF Log
<1>12. CASE NetFinish
  BY <1>12 DEF NetFinish, NetWriteHeader, IsFinal
<1>13. QED
  BY <1>1, <1>2, <1>3, <1>4, <1>5, <1>6, <1>7, <1>8, <1>9, <1>10, <1>11, <1>12
     DEF Framework

-----------------------------------------------------------------------------
(* The invariant IInv: the Context and the handles.                        *)

\* Outside the chain and the write only the order of tickets is left to say.
LEMMA PastWriteContext ==
    ASSUME HandlesBounded', pc' \notin {"dispatch", "chain", "commit", "write"}
    PROVE  ContextInv'
BY DEF ContextInv, BeforeWrite, ResponseOrTakeover, LiveHandleHasResponse

LEMMA NewResponseContext ==
    ASSUME TypeOK, ContextInv, NEW status \in Nat, NewResponse(status),
           pc = "chain", pc' = "chain"
    PROVE  ContextInv'
<1> USE DEF BeforeWrite
<1>1. ctxWriter /\ ctxWriter'
  BY DEF ContextInv, NewResponse, RaisePanic
<1>2. CASE ~ValidStatus(status)
  BY <1>1, <1>2
     DEF NewResponse, RaisePanic, ContextInv, ResponseOrTakeover,
         LiveHandleHasResponse, Live, HasResponse, HandlesBounded
<1>3. CASE ValidStatus(status)
  <2> DEFINE new == ticket + 1
  <2>1. /\ ticket' = new /\ new \in Nat /\ new > ticket
        /\ handles' = handles \cup {new}
        /\ ctxStatus' = status /\ ctxBody' = "nil" /\ header' = NoHeader
    BY <1>1, <1>3 DEF NewResponse, TypeOK, ContextTypeOK
  <2>2. \A h \in handles : h \in Nat /\ h < new
    BY <2>1 DEF ContextInv, HandlesBounded, TypeOK, ContextTypeOK
  <2> HIDE DEF new
  <2>3. HandlesBounded'
    BY <2>1, <2>2 DEF HandlesBounded
  <2>4. HasResponse' /\ status \in Nat /\ status # 0
    BY <1>3, <2>1 DEF HasResponse, ValidStatus
  <2>5. LiveHandleHasResponse'
    BY <2>4 DEF LiveHandleHasResponse
  <2>6. ResponseOrTakeover'
    BY <1>3, <2>1, <2>4 DEF ResponseOrTakeover, ValidStatus, HasResponse
  <2>7. header'.gens \subseteq {ticket'}
    BY <2>1 DEF NoHeader
  <2>8. QED
    BY <1>1, <2>3, <2>5, <2>6, <2>7 DEF ContextInv
<1>4. QED
  BY <1>2, <1>3

\* Setters on a live handle; a stale one panics and changes nothing.
LEMMA SetterContext ==
    ASSUME TypeOK, ContextInv, pc = "chain", pc' = "chain",
           NEW h \in handles,
           \/ \E body \in DirectBodies : SetBody(h, body, "direct")
           \/ \E body \in JsonBodies : SetBody(h, body, "json")
           \/ SetTypedBody(h, "string", "plain")
           \/ SetTypedBody(h, "bytes", "octets")
           \/ Cookie(h)
           \/ SetHeader(h)
    PROVE  ContextInv'
<1> USE DEF BeforeWrite
<1>1. /\ ctxWriter /\ ctxWriter' = ctxWriter
      /\ UNCHANGED <<ctxStatus, ticket, handles>>
  BY DEF ContextInv, SetBody, SetTypedBody, Cookie, SetHeader, RaisePanic
<1>2. HandlesBounded' /\ LiveHandleHasResponse'
  BY <1>1 DEF ContextInv, HandlesBounded, LiveHandleHasResponse, Live, HasResponse
<1>3. ResponseOrTakeover'
  <2>1. CASE UNCHANGED <<ctxBody, marshaller>>
    BY <1>1, <2>1 DEF ContextInv, ResponseOrTakeover, ValidStatus
  <2>2. CASE ~UNCHANGED <<ctxBody, marshaller>>
    <3>1. Live(h) /\ ctxBody' \in DirectBodies \cup JsonBodies
      BY <2>2 DEF SetBody, SetTypedBody, Cookie, SetHeader, RaisePanic, Check,
                  DirectBodies
    <3>2. ctxStatus # 0 /\ ValidStatus(ctxStatus)
      BY <3>1 DEF ContextInv, LiveHandleHasResponse, HasResponse,
                  ResponseOrTakeover
    <3>3. QED
      BY <1>1, <3>1, <3>2
         DEF ResponseOrTakeover, ValidStatus, DirectBodies, JsonBodies
  <2>3. QED
    BY <2>1, <2>2
<1>4. HasResponse' => header'.gens \subseteq {ticket'}
  <2>1. header' = header \/ header'.gens = header.gens \cup {ticket}
    BY DEF SetBody, SetTypedBody, Cookie, SetHeader, RaisePanic, AddHeader,
           TypeOK, WriterTypeOK, Headers
  <2>2. HasResponse' => header.gens \subseteq {ticket}
    BY <1>1 DEF ContextInv, HasResponse
  <2>3. QED
    BY <1>1, <2>1, <2>2
<1>5. QED
  BY <1>1, <1>2, <1>3, <1>4 DEF ContextInv

\* Hijack leaves no live handle, and Response only gives out the live one.
LEMMA HijackContext ==
    ASSUME TypeOK, ContextInv, pc = "chain", pc' = "chain", Hijack
    PROVE  ContextInv'
<1>1. \A h \in handles : h <= ticket /\ h \in Nat /\ ticket \in Nat
  BY DEF ContextInv, HandlesBounded, TypeOK, ContextTypeOK
<1>2. ticket' = ticket + 1 /\ handles' = handles
  BY DEF Hijack
<1>3. HandlesBounded' /\ LiveHandleHasResponse'
  BY <1>1, <1>2 DEF HandlesBounded, LiveHandleHasResponse, Live
<1>4. QED
  BY <1>3 DEF Hijack, ContextInv, BeforeWrite, ResponseOrTakeover, HasResponse

LEMMA ResponseContextCall ==
    ASSUME TypeOK, ContextInv, pc = "chain", pc' = "chain", Response
    PROVE  ContextInv'
<1>1. HasResponse' /\ HandlesBounded'
  BY DEF Response, HasResponse, ContextInv, HandlesBounded, TypeOK, ContextTypeOK
<1>2. LiveHandleHasResponse'
  BY <1>1 DEF LiveHandleHasResponse
<1>3. QED
  BY <1>1, <1>2
     DEF Response, ContextInv, BeforeWrite, ResponseOrTakeover, HasResponse,
         ValidStatus

\* In a stream or takeover body the order of tickets is kept as well.
LEMMA UserCallBounded ==
    ASSUME TypeOK, HandlesBounded, ContextCall \/ ResponseCall
    PROVE  HandlesBounded'
<1>1. CASE \E status \in StatusArgs : NewResponse(status)
  <2>1. \/ UNCHANGED <<ticket, handles>>
        \/ ticket' = ticket + 1 /\ handles' = handles \cup {ticket + 1}
    BY <1>1 DEF NewResponse, RaisePanic
  <2>2. ASSUME NEW h \in handles'
        PROVE  h <= ticket'
    <3>1. CASE UNCHANGED <<ticket, handles>>
      BY <3>1 DEF HandlesBounded
    <3>2. CASE ticket' = ticket + 1 /\ handles' = handles \cup {ticket + 1}
      BY <3>2 DEF HandlesBounded, TypeOK, ContextTypeOK
    <3>3. QED
      BY <2>1, <3>1, <3>2
  <2>3. QED
    BY <2>2 DEF HandlesBounded
<1>2. CASE Hijack
  BY <1>2 DEF Hijack, HandlesBounded, TypeOK, ContextTypeOK
<1>3. CASE Response
  BY <1>3 DEF Response, HandlesBounded, TypeOK, ContextTypeOK
<1>4. CASE ResponseCall
  BY <1>4 DEF ResponseCall, SetBody, SetTypedBody, Cookie, SetHeader, RaisePanic,
              HandlesBounded
<1>5. QED
  BY <1>1, <1>2, <1>3, <1>4 DEF ContextCall

\* A step that touches neither the Context, the handles nor the header map and
\* stays where it is, or leaves for a place where nothing is claimed.
LEMMA IdleContext ==
    ASSUME ContextInv, UNCHANGED <<header, ctxVars, handles>>,
           \/ pc' = pc
           \/ pc' \notin {"dispatch", "chain", "commit", "write"}
    PROVE  ContextInv'
<1>1. HandlesBounded'
  BY DEF ContextInv, HandlesBounded
<1>2. CASE pc' = pc
  BY <1>1, <1>2
     DEF ContextInv, BeforeWrite, ResponseOrTakeover, LiveHandleHasResponse,
         HasResponse, Live, ValidStatus
<1>3. QED
  BY <1>1, <1>2, PastWriteContext

LEMMA UserCallContext ==
    ASSUME IInv, UserCalls
    PROVE  ContextInv'
<1>0. TypeOK /\ ContextInv /\ HandlesBounded
  BY DEF IInv, ContextInv
<1>1. CASE ContextCall
  <2>1. pc' = pc /\ pc \in {"chain", "stream", "takeover"}
    BY <1>1 DEF ContextCall, UserOp, InUserCode, InChain
  <2>2. CASE pc = "chain"
    BY <1>0, <1>1, <2>1, <2>2, NewResponseContext, HijackContext,
       ResponseContextCall, StatusArgsAssumption DEF ContextCall
  <2>3. CASE pc # "chain"
    BY <1>0, <1>1, <2>1, <2>3, UserCallBounded, PastWriteContext
  <2>4. QED
    BY <2>2, <2>3
<1>2. CASE ResponseCall
  <2>1. pc' = pc /\ pc \in {"chain", "stream", "takeover"}
    BY <1>2 DEF ResponseCall, UserOp, InUserCode, InChain
  <2>2. CASE pc = "chain"
    BY <1>0, <1>2, <2>1, <2>2, SetterContext DEF ResponseCall
  <2>3. CASE pc # "chain"
    BY <1>0, <1>2, <2>1, <2>3, UserCallBounded, PastWriteContext
  <2>4. QED
    BY <2>2, <2>3
<1>3. CASE Panic \/ RecoverPanic \/ CallNext
  <2>1. pc' = pc /\ UNCHANGED <<header, ctxVars, handles>>
    BY <1>3 DEF Panic, RecoverPanic, CallNext, UserOp, RaisePanic
  <2>2. QED
    BY <1>0, <2>1, IdleContext
<1>4. CASE StreamWrite \/ StreamWriteHeader \/ StreamFlush \/ StreamHijack
  <2>1. pc' = pc /\ UNCHANGED <<header, ctxVars, handles>>
    BY <1>4 DEF StreamWrite, StreamWriteHeader, StreamFlush, StreamHijack, UserOp, RaisePanic
  <2>2. QED
    BY <1>0, <2>1, IdleContext
<1>5. CASE StreamHeader
  <2>1. pc' = "stream" /\ UNCHANGED <<ctxVars, handles>>
    BY <1>5 DEF StreamHeader, UserOp, RaisePanic
  <2>2. HandlesBounded'
    BY <1>0, <2>1 DEF HandlesBounded
  <2>3. QED
    BY <2>1, <2>2, PastWriteContext
<1>6. QED
  BY <1>1, <1>2, <1>3, <1>4, <1>5 DEF UserCalls

LEMMA UserReturnContext ==
    ASSUME IInv, UserReturns
    PROVE  ContextInv'
<1>1. UNCHANGED <<header, ctxVars, handles>>
  BY DEF UserReturns, ReturnFrame, Unwind, StreamReturn, TakeoverReturn
<1>2. pc' = pc \/ pc' \notin {"dispatch", "chain", "commit", "write"}
  BY DEF UserReturns, ReturnFrame, Unwind, StreamReturn, TakeoverReturn, InChain
<1>3. QED
  BY <1>1, <1>2, IdleContext DEF IInv

LEMMA CommitContext ==
    ASSUME IInv, Commit
    PROVE  ContextInv'
<1>1. /\ UNCHANGED <<ticket, handles>>
      /\ pc = "commit" /\ pc' \in {"write", "stream", "takeover", "recover"}
  BY DEF Commit, CommitJson, JsonMarshalFails, JsonMarshalPanics, ResponseMissing,
         CommitEmpty, CommitBytes, CommitStream, CommitHijack, HijackFails,
         WriteEmpty500, CommitStatus, IsJson, IsDirect
<1>2. HandlesBounded' /\ LiveHandleHasResponse'
  BY <1>1 DEF IInv, ContextInv, HandlesBounded, LiveHandleHasResponse, Live
<1>3. QED
  BY <1>1, <1>2 DEF ContextInv, BeforeWrite, ResponseOrTakeover

LEMMA FrameworkContext ==
    ASSUME IInv, Framework
    PROVE  ContextInv'
<1>0. TypeOK /\ ContextInv
  BY DEF IInv
<1>1. CASE Dispatch
  BY <1>0, <1>1
     DEF Dispatch, ContextInv, BeforeWrite, ResponseOrTakeover, HasResponse,
         LiveHandleHasResponse, HandlesBounded
<1>2. CASE BeginWrite
  <2>1. /\ ticket' = ticket + 1 /\ ticket \in Nat
        /\ \A h \in handles : h \in Nat /\ h <= ticket
    BY <1>0, <1>2 DEF BeginWrite, ContextInv, HandlesBounded, TypeOK, ContextTypeOK
  <2>2. HandlesBounded' /\ LiveHandleHasResponse'
    BY <1>2, <2>1 DEF BeginWrite, HandlesBounded, LiveHandleHasResponse, Live
  <2>3. HasResponse' => header'.gens \subseteq {ticket' - 1}
    <3>1. HasResponse' => header'.gens \subseteq {ticket}
      BY <1>0, <1>2 DEF BeginWrite, ContextInv, HasResponse
    <3>2. ticket' - 1 = ticket
      BY <2>1
    <3>3. QED
      BY <3>1, <3>2
  <2>4. QED
    BY <1>0, <1>2, <2>2, <2>3
       DEF BeginWrite, ContextInv, BeforeWrite, ResponseOrTakeover, ValidStatus
<1>3. CASE Commit
  BY <1>3, CommitContext
<1>4. CASE \/ NotFound \/ NotFoundBody \/ WriteBody \/ CloseConn \/ NoPanic
           \/ PanicBecomes500 \/ PanicAborts \/ Log \/ NetFinish
  <2>1. /\ UNCHANGED <<ticket, handles>>
        /\ pc' \notin {"dispatch", "chain", "commit", "write"}
    BY <1>4 DEF NotFound, NotFoundBody, WriteBody, CloseConn, NoPanic,
                PanicBecomes500, PanicAborts, Log, NetFinish
  <2>2. HandlesBounded'
    BY <1>0, <2>1 DEF ContextInv, HandlesBounded
  <2>3. QED
    BY <2>1, <2>2, PastWriteContext
<1>5. QED
  BY <1>1, <1>2, <1>3, <1>4 DEF Framework

-----------------------------------------------------------------------------
(* The invariant IInv: the end of the request.                             *)

LEMMA UserCallEnd ==
    ASSUME IInv, UserCalls
    PROVE  EndInv'
<1>1. /\ pc' = pc /\ pc \in {"chain", "stream", "takeover"}
      /\ UNCHANGED <<closes, logged, outcome>>
  BY DEF UserCalls, ContextCall, ResponseCall, Panic, RecoverPanic, CallNext,
         StreamWrite, StreamWriteHeader, StreamFlush, StreamHeader, StreamHijack,
         UserOp, InUserCode, InChain
<1>2. QED
  BY <1>1 DEF IInv, EndInv, AfterRecover

LEMMA UserReturnEnd ==
    ASSUME IInv, UserReturns
    PROVE  EndInv'
<1> USE DEF IInv, WireInv, EndInv, AfterRecover, BeforeWrite
<1>1. CASE ReturnFrame
  BY <1>1 DEF ReturnFrame, InChain
<1>2. CASE Unwind
  BY <1>2 DEF Unwind, InChain
<1>3. CASE StreamReturn
  BY <1>3 DEF StreamReturn
<1>4. CASE TakeoverReturn
  BY <1>4 DEF TakeoverReturn
<1>5. QED
  BY <1>1, <1>2, <1>3, <1>4 DEF UserReturns

LEMMA CommitEnd ==
    ASSUME IInv, Commit
    PROVE  EndInv'
<1>0. pc = "commit" /\ closes = 0 /\ ~hijacked
  BY DEF Commit, CommitJson, JsonMarshalFails, JsonMarshalPanics, ResponseMissing,
         CommitEmpty, CommitBytes, CommitStream, CommitHijack, HijackFails, IsJson,
         IsDirect, IInv, WireInv, EndInv, BeforeWrite, AfterRecover
<1>1. CASE CommitHijack
  BY <1>0, <1>1 DEF CommitHijack, EndInv, AfterRecover
<1>2. CASE ~CommitHijack
  <2>1. /\ UNCHANGED <<closes, hijacked>>
        /\ pc' \in {"write", "stream", "recover"}
    BY <1>2 DEF Commit, CommitJson, JsonMarshalFails, JsonMarshalPanics,
                ResponseMissing, CommitEmpty, CommitBytes, CommitStream,
                HijackFails, WriteEmpty500, CommitStatus, WriteHeader
  <2>2. QED
    BY <1>0, <2>1 DEF EndInv, AfterRecover
<1>3. QED
  BY <1>1, <1>2

LEMMA FrameworkEnd ==
    ASSUME IInv, Framework
    PROVE  EndInv'
<1> USE DEF IInv, WireInv, EndInv, AfterRecover, BeforeWrite
<1>1. CASE Dispatch
  BY <1>1 DEF Dispatch
<1>2. CASE NotFound
  BY <1>2 DEF NotFound, WriteHeader
<1>3. CASE NotFoundBody
  BY <1>3 DEF NotFoundBody, Write
<1>4. CASE BeginWrite
  BY <1>4 DEF BeginWrite
<1>5. CASE Commit
  BY <1>5, CommitEnd
<1>6. CASE WriteBody
  BY <1>6 DEF WriteBody, Write
<1>7. CASE CloseConn
  BY <1>7 DEF CloseConn
<1>8. CASE NoPanic
  BY <1>8 DEF NoPanic
<1>9. CASE PanicBecomes500
  BY <1>9 DEF PanicBecomes500, Undecided, WriteHeader
<1>10. CASE PanicAborts
  BY <1>10 DEF PanicAborts
<1>11. CASE Log
  BY <1>11 DEF Log
<1>12. CASE NetFinish
  BY <1>12 DEF NetFinish, NetWriteHeader, IsFinal
<1>13. QED
  BY <1>1, <1>2, <1>3, <1>4, <1>5, <1>6, <1>7, <1>8, <1>9, <1>10, <1>11, <1>12
     DEF Framework

-----------------------------------------------------------------------------
(* The theorems.                                                           *)

LEMMA InitInvariant == Init => IInv
<1> SUFFICES ASSUME Init
             PROVE  IInv
  OBVIOUS
<1>1. TypeOK
  BY InitTypes
<1>2. WireInv
  <2>1. /\ swWriter = TRUE /\ hijacked = FALSE /\ panicking = FALSE
        /\ wireStatus = 0 /\ swStatus = 0 /\ wireBytes = 0 /\ swBytes = 0
        /\ commits = 0 /\ pc = "dispatch"
    BY DEF Init, WriterInit, ContextInit
  <2>2. QED
    BY <2>1 DEF WireInv, AccountingMatchesWire, CommitsOnce, BeforeWrite,
                AfterRecover
<1>3. ContextInv
  BY DEF Init, ContextInit, ContextInv, BeforeWrite, ResponseOrTakeover,
         LiveHandleHasResponse, HandlesBounded
<1>4. EndInv
  BY DEF Init, EndInv, AfterRecover
<1>5. QED
  BY <1>1, <1>2, <1>3, <1>4 DEF IInv

LEMMA StepInvariant == IInv /\ [Next]_vars => IInv'
<1> SUFFICES ASSUME IInv, [Next]_vars
             PROVE  IInv'
  OBVIOUS
<1>1. TypeOK'
  BY StepTypes DEF IInv
<1>2. CASE UserCalls
  BY <1>1, <1>2, UserCallWire, UserCallContext, UserCallEnd DEF IInv
<1>3. CASE UserReturns
  BY <1>1, <1>3, UserReturnWire, UserReturnContext, UserReturnEnd DEF IInv
<1>4. CASE Framework
  BY <1>1, <1>4, FrameworkWire, FrameworkContext, FrameworkEnd DEF IInv
<1>5. CASE UNCHANGED vars
  <2>1. WireInv'
    BY <1>5 DEF IInv, WireInv, AccountingMatchesWire, CommitsOnce, BeforeWrite,
                AfterRecover, vars
  <2>2. ContextInv'
    BY <1>5, IdleContext DEF IInv, vars
  <2>3. EndInv'
    BY <1>5 DEF IInv, EndInv, AfterRecover, vars
  <2>4. QED
    BY <1>1, <2>1, <2>2, <2>3 DEF IInv
<1>6. QED
  BY <1>2, <1>3, <1>4, <1>5 DEF Next, Finished

\* The invariant that the properties below follow from: what the program
\* counter says about the wire, the Context, the handles and the end.
THEOREM InvariantCorrect == Spec => []IInv
BY InitInvariant, StepInvariant, PTL DEF Spec

\* The status and the byte count that ServeHTTP logs are the client's.
THEOREM AccountingCorrect == Spec => []AccountingMatchesWire
<1>1. IInv => AccountingMatchesWire
  BY DEF IInv, WireInv
<1>2. QED
  BY <1>1, InvariantCorrect, PTL

\* The package commits one final status at most, and the client's status is
\* one that it committed (writeResponse, and the recovery in ServeHTTP).
THEOREM CommitCorrect == Spec => []CommitsOnce
<1>1. IInv => CommitsOnce
  BY DEF IInv, WireInv
<1>2. QED
  BY <1>1, InvariantCorrect, PTL

\* A handle that passes check is the one of the response that is pending.
THEOREM HandlesCorrect == Spec => []LiveHandleHasResponse
<1>1. IInv => LiveHandleHasResponse
  BY DEF IInv, ContextInv
<1>2. QED
  BY <1>1, InvariantCorrect, PTL

\* A Context is never a mix of a response and a takeover while the chain runs
\* (NewResponse, Hijack, and the setters of response.go).
THEOREM PendingCorrect == Spec => []ResponseOrTakeover
<1>1. IInv => ResponseOrTakeover
  BY DEF IInv, ContextInv
<1>2. QED
  BY <1>1, InvariantCorrect, PTL

\* A connection that writeResponse took over is closed once, however its body
\* ends, and no other is.
THEOREM TakeoverCorrect == Spec => []TakeoverClosesOnce
<1>1. IInv => TakeoverClosesOnce
  BY DEF IInv, WireInv, EndInv, AfterRecover, TakeoverClosesOnce
<1>2. QED
  BY <1>1, InvariantCorrect, PTL

\* The completion line that ServeHTTP logs agrees with what became of the
\* connection.
THEOREM LogCorrect == Spec => []LogTellsOutcome
<1>1. IInv => LogTellsOutcome
  BY DEF IInv, WireInv, EndInv, AfterRecover, LogTellsOutcome
<1>2. QED
  BY <1>1, InvariantCorrect, PTL

-----------------------------------------------------------------------------
(* The action properties.                                                  *)

LEMMA StepSilent ==
    ASSUME IInv, [Next]_vars, hijacked
    PROVE  UNCHANGED <<wireVars, swVars, commits>>
<1>0. /\ ~swWriter
      /\ pc \notin {"dispatch", "notfound", "chain", "commit", "write"}
  BY DEF IInv, WireInv, BeforeWrite
<1>1. CASE UserCalls
  BY <1>0, <1>1
     DEF UserCalls, ContextCall, ResponseCall, Panic, RecoverPanic, CallNext,
         StreamWrite, StreamWriteHeader, StreamFlush, Flush, StreamHeader,
         StreamHijack, HijackConn, UserOp
<1>2. CASE UserReturns
  BY <1>2 DEF UserReturns, ReturnFrame, Unwind, StreamReturn, TakeoverReturn
<1>3. CASE Framework
  BY <1>0, <1>3
     DEF Framework, Dispatch, NotFound, NotFoundBody, BeginWrite, Commit,
         CommitJson, JsonMarshalFails, JsonMarshalPanics, ResponseMissing,
         CommitEmpty, CommitBytes, CommitStream, CommitHijack, HijackFails, IsJson,
         IsDirect, WriteBody, CloseConn, NoPanic, PanicBecomes500, Undecided,
         PanicAborts, Log, NetFinish
<1>4. CASE UNCHANGED vars
  BY <1>4 DEF vars
<1>5. QED
  BY <1>1, <1>2, <1>3, <1>4 DEF Next, Finished

\* Once the connection is taken over nothing more is written to it as HTTP.
THEOREM SilenceCorrect == Spec => HijackedIsSilent
<1>1. IInv /\ [Next]_vars => (hijacked => UNCHANGED <<wireVars, swVars, commits>>)
  BY StepSilent
<1>2. QED
  BY <1>1, InvariantCorrect, PTL DEF Spec, HijackedIsSilent

\* The steps that put a status on the wire.
LEMMA StatusSteps ==
    ASSUME IInv, [Next]_vars, wireStatus = 0, wireStatus' # 0, pc # "dispatch"
    PROVE  \/ Commit /\ ~CommitHijack /\ ~JsonMarshalPanics
           \/ PanicBecomes500
<1>0. pc \notin {"notfound", "write", "stream"}
  BY DEF IInv, WireInv
<1>1. CASE UserCalls
  BY <1>0, <1>1
     DEF UserCalls, ContextCall, ResponseCall, Panic, RecoverPanic, CallNext,
         StreamWrite, StreamWriteHeader, StreamFlush, StreamHeader, StreamHijack,
         UserOp
<1>2. CASE UserReturns
  BY <1>2 DEF UserReturns, ReturnFrame, Unwind, StreamReturn, TakeoverReturn
<1>3. CASE Framework /\ ~Commit /\ ~PanicBecomes500
  <2>1. CASE NetFinish
    BY <2>1 DEF NetFinish, NetWriteHeader, IInv, WireInv, AfterRecover
  <2>2. CASE ~NetFinish
    BY <1>0, <1>3, <2>2
       DEF Framework, Dispatch, NotFound, NotFoundBody, BeginWrite, WriteBody,
           CloseConn, NoPanic, PanicAborts, Log
  <2>3. QED
    BY <2>1, <2>2
<1>4. CASE Commit
  BY <1>4 DEF CommitHijack, HijackConn, JsonMarshalPanics
<1>5. CASE UNCHANGED vars
  BY <1>5 DEF vars
<1>6. QED
  BY <1>1, <1>2, <1>3, <1>4, <1>5 DEF Next, Finished, Framework

LEMMA StepReplies ==
    ASSUME IInv, [Next]_vars, wireStatus = 0, wireStatus' # 0, pc # "dispatch"
    PROVE  IF pc = "commit" /\ HasResponse /\ ctxBody # "badvalue"
           THEN wireStatus' = ctxStatus /\ wireHeader'.gens \subseteq {ticket - 1}
           ELSE wireStatus' = 500 /\ wireHeader' = NoHeader
<1>1. ASSUME NEW h, pc = "commit", CommitStatus(h), h.gens = header.gens,
             HasResponse
      PROVE  wireStatus' = ctxStatus /\ wireHeader'.gens \subseteq {ticket - 1}
  <2>1. wireStatus' = ctxStatus /\ wireHeader' = h
    BY <1>1 DEF CommitStatus, WriteHeader, NetWriteHeader
  <2>2. header.gens \subseteq {ticket - 1}
    BY <1>1 DEF IInv, ContextInv
  <2>3. QED
    BY <1>1, <2>1, <2>2
<1>2. ASSUME WriteEmpty500
      PROVE  wireStatus' = 500 /\ wireHeader' = NoHeader
  BY <1>2 DEF WriteEmpty500, WriteHeader, NetWriteHeader
<1>3. CASE PanicBecomes500
  BY <1>3 DEF PanicBecomes500, WriteHeader, NetWriteHeader
<1>4. CASE Commit /\ ~CommitHijack /\ ~JsonMarshalPanics
  <2>1. pc = "commit"
    BY <1>4 DEF Commit, CommitJson, JsonMarshalFails, ResponseMissing, CommitEmpty,
                CommitBytes, CommitStream, HijackFails, IsJson, IsDirect
  <2>2. ctxStatus = 0 => ctxBody \in {"nil", "hijack"} /\ marshaller = "direct"
    BY <2>1 DEF IInv, ContextInv, ResponseOrTakeover, BeforeWrite
  <2>3. ctxStatus # 0 => ctxBody # "hijack"
    BY <2>1 DEF IInv, ContextInv, ResponseOrTakeover, BeforeWrite
  <2>4. CASE CommitJson
    <3>1. [header EXCEPT !.type = "json"].gens = header.gens
      BY DEF IInv, TypeOK, WriterTypeOK, Headers
    <3>2. QED
      BY <1>1, <2>1, <2>2, <2>4, <3>1 DEF CommitJson, IsJson, HasResponse
  <2>5. CASE CommitEmpty \/ CommitBytes \/ CommitStream
    BY <1>1, <2>1, <2>2, <2>5
       DEF CommitEmpty, CommitBytes, CommitStream, HasResponse
  <2>6. CASE JsonMarshalFails \/ ResponseMissing \/ HijackFails
    BY <1>2, <2>1, <2>3, <2>6
       DEF JsonMarshalFails, ResponseMissing, HijackFails, HasResponse
  <2>7. QED
    BY <1>4, <2>4, <2>5, <2>6 DEF Commit
<1>5. QED
  BY <1>3, <1>4, StatusSteps

\* The client gets the response that was pending when the chain returned,
\* without headers of earlier ones, or an empty 500.
THEOREM ReplyCorrect == Spec => RepliesWithFinalResponse
<1>1. IInv /\ [Next]_vars =>
        (wireStatus = 0 /\ wireStatus' # 0 /\ pc # "dispatch" =>
           IF pc = "commit" /\ HasResponse /\ ctxBody # "badvalue"
           THEN wireStatus' = ctxStatus /\ wireHeader'.gens \subseteq {ticket - 1}
           ELSE wireStatus' = 500 /\ wireHeader' = NoHeader)
  BY StepReplies
<1>2. QED
  BY <1>1, InvariantCorrect, PTL DEF Spec, RepliesWithFinalResponse

-----------------------------------------------------------------------------
(* The refinement of HttpExchange: every step is a step of it or a stutter.*)

wire == <<wireStatus, wireBytes, hijacked>>

LEMMA StutterMaps ==
    ASSUME UNCHANGED wire, pc # "finished", pc' # "finished"
    PROVE  UNCHANGED Exchange!vars
BY DEF wire, Exchange!vars

LEMMA RespondMaps ==
    ASSUME pc # "finished", pc' # "finished",
           wireStatus = 0, wireStatus' \in 200 .. 599, ~hijacked, ~hijacked',
           wireBytes' = wireBytes
    PROVE  Exchange!Next
<1>1. PICK code \in 200 .. 599 : wireStatus' = code
  OBVIOUS
<1>2. Exchange!Respond(code)
  BY <1>1 DEF Exchange!Respond
<1>3. QED
  BY <1>2 DEF Exchange!Next

LEMMA SendMaps ==
    ASSUME TypeOK, pc # "finished", pc' # "finished", wireStatus # 0, ~hijacked,
           NEW n \in 0 .. 1, Write(n)
    PROVE  [Exchange!Next]_Exchange!vars
<1>1. /\ UNCHANGED <<wireStatus, hijacked>>
      /\ wireBytes \in Nat /\ wireBytes' = wireBytes + n
  BY DEF Write, NetWrite, NetWriteHeader, TypeOK, WriterTypeOK
<1>2. CASE n = 0
  BY <1>1, <1>2, StutterMaps DEF wire
<1>3. CASE n = 1
  <2>1. wireBytes' \in Nat /\ wireBytes' > wireBytes
    BY <1>1, <1>3
  <2>2. Exchange!Send
    BY <1>1, <2>1 DEF Exchange!Send
  <2>3. QED
    BY <2>2 DEF Exchange!Next
<1>4. QED
  BY <1>2, <1>3

LEMMA TakeOverMaps ==
    ASSUME pc # "finished", pc' # "finished", ~hijacked, hijacked',
           UNCHANGED <<wireStatus, wireBytes>>
    PROVE  Exchange!Next
<1>1. Exchange!TakeOver
  BY DEF Exchange!TakeOver
<1>2. QED
  BY <1>1 DEF Exchange!Next

LEMMA UserCallMaps ==
    ASSUME IInv, UserCalls
    PROVE  [Exchange!Next]_Exchange!vars
<1>0. /\ pc \in {"chain", "stream", "takeover"} /\ pc' = pc
      /\ pc = "stream" => wireStatus # 0
      /\ swWriter => ~hijacked
  BY DEF UserCalls, ContextCall, ResponseCall, Panic, RecoverPanic, CallNext,
         StreamWrite, StreamWriteHeader, StreamFlush, StreamHeader, StreamHijack,
         UserOp, InUserCode, InChain, IInv, WireInv
<1>1. CASE UNCHANGED wire
  BY <1>0, <1>1, StutterMaps
<1>2. CASE StreamWrite /\ ~UNCHANGED wire
  <2>1. (\E n \in 0 .. 1 : Write(n)) /\ swWriter
    BY <1>2 DEF StreamWrite, wire
  <2>2. wireStatus # 0
    BY <1>0, <1>2 DEF StreamWrite
  <2>3. QED
    BY <1>0, <2>1, <2>2, SendMaps DEF IInv
<1>3. CASE StreamWriteHeader
  <2>1. wireStatus # 0
    BY <1>0, <1>3 DEF StreamWriteHeader
  <2>2. UNCHANGED wire
    BY <1>3, <2>1 DEF StreamWriteHeader, WriteHeader, NetWriteHeader, wire
  <2>3. QED
    BY <1>1, <2>2
<1>4. CASE StreamHijack
  <2>1. ~hijacked /\ hijacked' /\ UNCHANGED <<wireStatus, wireBytes>>
    BY <1>0, <1>4 DEF StreamHijack, HijackConn
  <2>2. QED
    BY <1>0, <2>1, TakeOverMaps
<1>5. CASE ContextCall \/ ResponseCall \/ Panic \/ RecoverPanic \/ CallNext
  BY <1>1, <1>5 DEF ContextCall, ResponseCall, Panic, RecoverPanic, CallNext, wire
<1>6. CASE StreamFlush \/ StreamHeader
  BY <1>1, <1>6, FlushIsSilent DEF wire
<1>7. QED
  BY <1>1, <1>2, <1>3, <1>4, <1>5, <1>6 DEF UserCalls

LEMMA CommitMaps ==
    ASSUME IInv, Commit
    PROVE  [Exchange!Next]_Exchange!vars
<1>0. /\ pc = "commit" /\ wireStatus = 0 /\ ~hijacked
      /\ pc' # "finished"
  BY DEF Commit, CommitJson, JsonMarshalFails, JsonMarshalPanics, ResponseMissing,
         CommitEmpty, CommitBytes, CommitStream, CommitHijack, HijackFails,
         WriteEmpty500, IsJson, IsDirect, IInv, WireInv, BeforeWrite
<1>1. ASSUME NEW code \in 200 .. 599, NEW h, WriteHeader(code, h)
      PROVE  Exchange!Next
  <2>1. wireStatus' = code /\ ~hijacked' /\ wireBytes' = wireBytes
    BY <1>0, <1>1 DEF WriteHeader, NetWriteHeader, IsFinal
  <2>2. QED
    BY <1>0, <2>1, RespondMaps
<1>2. ctxStatus # 0 => ctxStatus \in 200 .. 599
  BY <1>0 DEF IInv, ContextInv, ResponseOrTakeover, BeforeWrite, ValidStatus,
              TypeOK, ContextTypeOK
<1>3. ctxStatus = 0 => ctxBody \in {"nil", "hijack"} /\ marshaller = "direct"
  BY <1>0 DEF IInv, ContextInv, ResponseOrTakeover, BeforeWrite
<1>4. CASE CommitJson \/ CommitEmpty \/ CommitBytes \/ CommitStream
  <2>1. ctxStatus # 0
    BY <1>3, <1>4 DEF CommitJson, CommitEmpty, CommitBytes, CommitStream, IsJson
  <2>2. \E h : WriteHeader(ctxStatus, h)
    BY <1>4 DEF CommitJson, CommitEmpty, CommitBytes, CommitStream, CommitStatus
  <2>3. QED
    BY <1>1, <1>2, <2>1, <2>2
<1>5. CASE JsonMarshalFails \/ ResponseMissing \/ HijackFails
  BY <1>1, <1>5 DEF JsonMarshalFails, ResponseMissing, HijackFails, WriteEmpty500
<1>6. CASE JsonMarshalPanics
  BY <1>0, <1>6, StutterMaps DEF JsonMarshalPanics, wire
<1>7. CASE CommitHijack
  BY <1>0, <1>7, TakeOverMaps DEF CommitHijack, HijackConn
<1>8. QED
  BY <1>4, <1>5, <1>6, <1>7 DEF Commit

LEMMA NetFinishMaps ==
    ASSUME IInv, NetFinish
    PROVE  [Exchange!Next]_Exchange!vars
<1>1. /\ pc = "done" /\ pc' = "finished"
      /\ wireStatus # 0 \/ hijacked
      /\ UNCHANGED <<wireStatus, wireBytes, hijacked>>
  BY DEF NetFinish, NetWriteHeader, IInv, WireInv, AfterRecover
<1>2. CASE hijacked
  <2>1. outcome' = "takenover"
    BY <1>2 DEF NetFinish
  <2>2. QED
    BY <1>1, <1>2, <2>1 DEF Exchange!vars
<1>3. CASE ~hijacked /\ panicking
  <2>1. outcome' = "aborted"
    BY <1>3 DEF NetFinish
  <2>2. Exchange!Abort
    BY <1>1, <1>3, <2>1 DEF Exchange!Abort
  <2>3. QED
    BY <2>2 DEF Exchange!Next
<1>4. CASE ~hijacked /\ ~panicking
  <2>1. outcome' = "complete"
    BY <1>4 DEF NetFinish
  <2>2. Exchange!Complete
    BY <1>1, <1>4, <2>1 DEF Exchange!Complete
  <2>3. QED
    BY <2>2 DEF Exchange!Next
<1>5. QED
  BY <1>2, <1>3, <1>4

LEMMA FrameworkMaps ==
    ASSUME IInv, Framework
    PROVE  [Exchange!Next]_Exchange!vars
<1> USE DEF IInv, WireInv
<1>1. CASE NotFound
  <2>1. /\ pc = "dispatch" /\ pc' = "notfound" /\ wireStatus = 0 /\ ~hijacked
    BY <1>1 DEF NotFound, BeforeWrite
  <2>2. wireStatus' = 404 /\ ~hijacked' /\ wireBytes' = wireBytes
    BY <1>1, <2>1 DEF NotFound, WriteHeader, NetWriteHeader, IsFinal
  <2>3. QED
    BY <2>1, <2>2, RespondMaps
<1>2. CASE NotFoundBody
  BY <1>2, SendMaps DEF NotFoundBody
<1>3. CASE WriteBody
  BY <1>3, SendMaps DEF WriteBody
<1>4. CASE PanicBecomes500
  <2>1. pc = "recover" /\ pc' = "log" /\ wireStatus = 0 /\ ~hijacked
    BY <1>4 DEF PanicBecomes500, Undecided, AccountingMatchesWire
  <2>2. wireStatus' = 500 /\ ~hijacked' /\ wireBytes' = wireBytes
    BY <1>4, <2>1 DEF PanicBecomes500, WriteHeader, NetWriteHeader, IsFinal
  <2>3. QED
    BY <2>1, <2>2, RespondMaps
<1>5. CASE Commit
  BY <1>5, CommitMaps
<1>6. CASE NetFinish
  BY <1>6, NetFinishMaps
<1>7. CASE \/ Dispatch \/ BeginWrite \/ CloseConn \/ NoPanic \/ PanicAborts \/ Log
  BY <1>7, StutterMaps
     DEF Dispatch, BeginWrite, CloseConn, NoPanic, PanicAborts, Log, wire
<1>8. QED
  BY <1>1, <1>2, <1>3, <1>4, <1>5, <1>6, <1>7 DEF Framework

LEMMA UserReturnMaps ==
    ASSUME UserReturns
    PROVE  [Exchange!Next]_Exchange!vars
<1>1. UNCHANGED wire /\ pc # "finished" /\ pc' # "finished"
  BY DEF UserReturns, ReturnFrame, Unwind, StreamReturn, TakeoverReturn, InChain,
         wire
<1>2. QED
  BY <1>1, StutterMaps

LEMMA StepMaps == IInv /\ [Next]_vars => [Exchange!Next]_Exchange!vars
<1>1. UNCHANGED vars => UNCHANGED Exchange!vars
  BY DEF vars, Exchange!vars
<1>2. QED
  BY <1>1, UserCallMaps, UserReturnMaps, FrameworkMaps DEF Next, Finished

\* Whatever user code does, the client sees an exchange that HttpExchange
\* allows: a status before any byte, one status only, and never nothing.
THEOREM ExchangeSafety == Spec => Exchange!Safety
<1>1. Init => Exchange!Init
  BY DEF Init, WriterInit, Exchange!Init
<1>2. QED
  BY <1>1, StepMaps, InvariantCorrect, PTL DEF Spec, Exchange!Safety

-----------------------------------------------------------------------------
(* What writeResponse finds, and how a request approaches its end.         *)

EntryInv ==
    /\ pc = "chain" /\ depth = 0 => ~panicking
    /\ BeforeWrite => BodyHasCase

LEMMA CaseKept ==
    ASSUME BodyHasCase, UNCHANGED <<ctxStatus, ctxBody, marshaller>>
    PROVE  BodyHasCase'
BY DEF BodyHasCase, HasResponse

\* User code in the chain leaves a body of a kind that has a case: a setter that
\* passes check has a response to set it on.
LEMMA ChainCallCase ==
    ASSUME IInv, BodyHasCase, pc = "chain", ContextCall \/ ResponseCall
    PROVE  BodyHasCase'
<1>1. ASSUME NEW status, NewResponse(status)
      PROVE  BodyHasCase'
  <2>1. CASE ~ValidStatus(status)
    BY <1>1, <2>1, CaseKept DEF NewResponse, RaisePanic
  <2>2. CASE ValidStatus(status)
    BY <1>1, <2>2 DEF NewResponse, BodyHasCase
  <2> QED BY <2>1, <2>2
<1>2. CASE Hijack
  BY <1>2 DEF Hijack, BodyHasCase, HasResponse
<1>3. CASE Response
  BY <1>3, CaseKept DEF Response
<1>4. ASSUME NEW h \in handles, Check(h)
      PROVE  HasResponse
  BY <1>4 DEF Check, IInv, ContextInv, LiveHandleHasResponse
<1>5. ASSUME NEW h \in handles, NEW body \in DirectBodies, SetBody(h, body, "direct")
      PROVE  BodyHasCase'
  BY <1>4, <1>5, CaseKept DEF SetBody, RaisePanic, BodyHasCase, HasResponse
<1>6. ASSUME NEW h \in handles, NEW body \in JsonBodies, SetBody(h, body, "json")
      PROVE  BodyHasCase'
  BY <1>4, <1>6, CaseKept DEF SetBody, RaisePanic, BodyHasCase, HasResponse
<1>7. ASSUME NEW h \in handles, NEW type,
             SetTypedBody(h, "string", type) \/ SetTypedBody(h, "bytes", type)
      PROVE  BodyHasCase'
  BY <1>4, <1>7, CaseKept
     DEF SetTypedBody, RaisePanic, BodyHasCase, HasResponse, DirectBodies
<1>8. ASSUME NEW h \in handles, Cookie(h) \/ SetHeader(h)
      PROVE  BodyHasCase'
  BY <1>8, CaseKept DEF Cookie, SetHeader, RaisePanic
<1> QED
  BY <1>1, <1>2, <1>3, <1>5, <1>6, <1>7, <1>8 DEF ContextCall, ResponseCall

LEMMA UserCallEntry == ASSUME IInv, EntryInv, UserCalls PROVE EntryInv'
<1>1. pc' = pc /\ pc \in {"chain", "stream", "takeover"} /\ (pc = "chain" => depth > 0)
  BY DEF UserCalls, ContextCall, ResponseCall, Panic, RecoverPanic, CallNext,
         StreamWrite, StreamWriteHeader, StreamFlush, StreamHeader, StreamHijack,
         UserOp, InUserCode, InChain
<1>2. depth' \in {depth, depth + 1} /\ depth \in Nat
  BY DEF UserCalls, ContextCall, ResponseCall, Panic, RecoverPanic, CallNext,
         StreamWrite, StreamWriteHeader, StreamFlush, StreamHeader, StreamHijack, UserOp,
         IInv, TypeOK, FlowTypeOK
<1>3. ASSUME pc = "chain" PROVE BodyHasCase'
  <2>1. CASE ContextCall \/ ResponseCall
    BY <1>3, <2>1, ChainCallCase DEF EntryInv, BeforeWrite
  <2>2. CASE ~(ContextCall \/ ResponseCall)
    <3>1. UNCHANGED <<ctxStatus, ctxBody, marshaller>>
      BY <2>2 DEF UserCalls, Panic, RecoverPanic, CallNext, StreamWrite, StreamWriteHeader,
                  StreamFlush, StreamHeader, StreamHijack, RaisePanic, ctxVars
    <3> QED BY <1>3, <3>1, CaseKept DEF EntryInv, BeforeWrite
  <2> QED BY <2>1, <2>2
<1>4. pc' = "chain" => depth' # 0
  BY <1>1, <1>2
<1> QED BY <1>1, <1>3, <1>4 DEF EntryInv, BeforeWrite

LEMMA UserReturnEntry == ASSUME IInv, EntryInv, UserReturns PROVE EntryInv'
<1>1. UNCHANGED <<ctxStatus, ctxBody, marshaller>>
  BY DEF UserReturns, ReturnFrame, Unwind, StreamReturn, TakeoverReturn, ctxVars
<1>2. pc' = "chain" /\ depth' = 0 => ~panicking'
  BY DEF UserReturns, ReturnFrame, Unwind, StreamReturn, TakeoverReturn, InChain,
         IInv, TypeOK, FlowTypeOK
<1>3. pc' \in {"dispatch", "chain", "commit"} => pc = "chain"
  BY DEF UserReturns, ReturnFrame, Unwind, StreamReturn, TakeoverReturn, InChain
<1> QED BY <1>1, <1>2, <1>3, CaseKept DEF EntryInv, BeforeWrite

LEMMA FrameworkEntry == ASSUME IInv, EntryInv, Framework PROVE EntryInv'
<1>1. CASE Dispatch \/ BeginWrite
  <2>1. /\ UNCHANGED <<ctxStatus, ctxBody, marshaller, panicking>>
        /\ pc \in {"dispatch", "chain"} /\ (pc' = "chain" => depth' # 0)
    BY <1>1 DEF Dispatch, BeginWrite, ctxVars
  <2> QED BY <2>1, CaseKept DEF EntryInv, BeforeWrite
<1>2. CASE ~(Dispatch \/ BeginWrite)
  <2>1. pc' \notin {"dispatch", "chain", "commit"}
    BY <1>2 DEF Framework, NotFound, NotFoundBody, Commit, CommitJson, JsonMarshalFails,
       JsonMarshalPanics, ResponseMissing, CommitEmpty, CommitBytes, CommitStream,
       CommitHijack, HijackFails, WriteEmpty500, CommitStatus, WriteBody, CloseConn,
       NoPanic, PanicBecomes500, PanicAborts, Log, NetFinish
  <2> QED BY <2>1 DEF EntryInv, BeforeWrite
<1> QED BY <1>1, <1>2

\* When the chain returns, writeResponse finds its Context and a case for its body: its
\* arm for an unsupported body type is dead code (response.go:144-229).
THEOREM WriteCorrect == Spec => []WriteFindsCase
<1>1. Init => EntryInv
  BY DEF Init, ContextInit, EntryInv, BodyHasCase, BeforeWrite
<1>2. IInv /\ EntryInv /\ [Next]_vars => EntryInv'
  <2> SUFFICES ASSUME IInv, EntryInv, [Next]_vars PROVE EntryInv'
    OBVIOUS
  <2>1. CASE UNCHANGED vars
    <3>1. UNCHANGED <<pc, depth, panicking, ctxStatus, ctxBody, marshaller>>
      BY <2>1 DEF vars, flowVars, ctxVars
    <3> QED BY <3>1, CaseKept DEF EntryInv, BeforeWrite
  <2> QED BY <2>1, UserCallEntry, UserReturnEntry, FrameworkEntry DEF Next, Finished
<1>3. IInv /\ EntryInv => WriteFindsCase
  BY DEF IInv, ContextInv, EntryInv, BeforeWrite, WriteFindsCase
<1> QED BY <1>1, <1>2, <1>3, InvariantCorrect, PTL DEF Spec

LEMMA StepAdvances == IInv /\ [Next]_vars => StageStep
<1> SUFFICES ASSUME IInv PROVE StageStep
  OBVIOUS
<1>1. ASSUME UserCalls PROVE UNCHANGED Stage
  <2>1. UNCHANGED pc
    BY <1>1 DEF UserCalls, ContextCall, ResponseCall, Panic, RecoverPanic, CallNext,
       StreamWrite, StreamWriteHeader, StreamFlush, StreamHeader, StreamHijack, UserOp
  <2> QED BY <2>1 DEF Stage
<1>2. ASSUME Framework PROVE Stage' < Stage
  BY <1>2 DEF Framework, Dispatch, NotFound, NotFoundBody, BeginWrite, Commit, CommitJson,
     JsonMarshalFails, JsonMarshalPanics, ResponseMissing, CommitEmpty, CommitBytes,
     CommitStream, CommitHijack, HijackFails, WriteEmpty500, CommitStatus, WriteBody,
     CloseConn, NoPanic, PanicBecomes500, PanicAborts, Log, NetFinish, IsJson, IsDirect,
     Stage
<1>3. ASSUME UserReturns
      PROVE  Stage' < Stage \/ (pc = "chain" /\ UNCHANGED Stage /\ depth' < depth)
  BY <1>3 DEF UserReturns, ReturnFrame, Unwind, StreamReturn, TakeoverReturn, InChain, Stage,
     IInv, TypeOK, FlowTypeOK
<1> QED BY <1>1, <1>2, <1>3 DEF StageStep

\* A request passes its stages in one order, and only calls of user code, which the code
\* does not bound, leave it where it is (server.go:94-122, response.go:144-229).
THEOREM AdvanceCorrect == Spec => RequestAdvances
BY StepAdvances, InvariantCorrect, PTL DEF Spec, RequestAdvances

=============================================================================
