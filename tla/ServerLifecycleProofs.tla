------------------------ MODULE ServerLifecycleProofs ------------------------
(***************************************************************************)
(* Proofs about the start and the end of a server: the inductive invariant *)
(* of ServerLifecycle, for any connections, cleaners and handlers.  The    *)
(* argument is that a cleaner raises inShutdown before it waits for the    *)
(* runner to stop serving, and a runner that starts later sees the flag;   *)
(* so no connection is new after that wait, and those that are left can    *)
(* only end.                                                               *)
(***************************************************************************)
EXTENDS ServerLifecycle, TLAPS

-----------------------------------------------------------------------------

LEMMA InitInv == ASSUME Init PROVE IInv
<1>1. TypeOK
  <2>1. /\ failed = FALSE /\ canceled = FALSE /\ inShutdown = FALSE
        /\ alarms = 0 /\ runner = "idle" /\ err = "nil" /\ listener = "none"
        /\ expired = {} /\ unclean = {} /\ kind \in [Conns -> Kinds]
    BY Zenon DEF Init
  <2>2. conns \in [Conns -> {"none", "new", "idle", "active", "hijacked", "late", "closed"}]
    BY SMT DEF Init
  <2>3. cleaner \in [Cleaners -> {"idle", "close", "wait", "poll", "select", "done"}]
    BY SMT DEF Init
  <2>4. failed \in BOOLEAN /\ canceled \in BOOLEAN /\ inShutdown \in BOOLEAN
    BY <2>1, Zenon
  <2> QED BY <2>1, <2>2, <2>3, <2>4 DEF TypeOK
<1>2. RunnerInv
  <2>1. failed = FALSE /\ err = "nil" /\ runner = "idle" /\ alarms = 0
    BY DEF Init
  <2>2. ~(alarms > 0)
    BY <2>1, SMT
  <2> QED BY <2>1, <2>2, Zenon DEF RunnerInv
<1>3. ShutdownInv /\ CleanMeansClosed
  BY DEF Init, ShutdownInv, CleanMeansClosed
<1> QED BY <1>1, <1>2, <1>3 DEF IInv

LEMMA StutterInv == ASSUME IInv, UNCHANGED vars PROVE IInv'
  BY DEF IInv, TypeOK, RunnerInv, ShutdownInv, CleanMeansClosed,
         vars, runnerVars, connVars, cleanerVars

\* The runner's steps move no connection and no cleaner; the one into "serve"
\* needs inShutdown to be false.
LEMMA RunnerStepInv == ASSUME IInv, Run \/ Serving PROVE IInv'
<1>1. CASE Run
  BY <1>1 DEF IInv, TypeOK, RunnerInv, ShutdownInv, CleanMeansClosed,
              Run, ServeReturns, connVars, cleanerVars
<1>2. CASE Listen
  BY <1>2 DEF IInv, TypeOK, RunnerInv, ShutdownInv, CleanMeansClosed,
              Listen, connVars, cleanerVars
<1>3. CASE ListenFails
  BY <1>3 DEF IInv, TypeOK, RunnerInv, ShutdownInv, CleanMeansClosed,
              ListenFails, ServeReturns, connVars, cleanerVars
<1>4. CASE Track
  <2>1. TypeOK' /\ RunnerInv'
    BY <1>4 DEF IInv, TypeOK, RunnerInv, Track, ServeReturns, connVars, cleanerVars
  <2>2. ShutdownInv'
    BY <1>4 DEF IInv, ShutdownInv, Track, ServeReturns, connVars, cleanerVars
  <2>3. CleanMeansClosed'
    BY <1>4, <2>2 DEF IInv, TypeOK, ShutdownInv, CleanMeansClosed, Track, ServeReturns,
                      connVars, cleanerVars
  <2> QED BY <2>1, <2>2, <2>3 DEF IInv
<1>5. CASE AcceptFails
  BY <1>5 DEF IInv, TypeOK, RunnerInv, ShutdownInv, CleanMeansClosed,
              AcceptFails, ServeReturns, connVars, cleanerVars
<1>6. CASE AcceptClosed
  BY <1>6 DEF IInv, TypeOK, RunnerInv, ShutdownInv, CleanMeansClosed,
              AcceptClosed, ServeReturns, connVars, cleanerVars
<1>7. CASE Finish
  <2>1. TypeOK'
    BY <1>7, ShutdownOnErrorAssumption DEF IInv, TypeOK, RunnerInv, Finish, connVars, cleanerVars
  <2>2. RunnerInv' /\ ShutdownInv' /\ CleanMeansClosed'
    BY <1>7 DEF IInv, TypeOK, RunnerInv, ShutdownInv, CleanMeansClosed, Finish,
                connVars, cleanerVars
  <2> QED BY <2>1, <2>2 DEF IInv
<1> QED BY <1>1, <1>2, <1>3, <1>4, <1>5, <1>6, <1>7 DEF Serving

-----------------------------------------------------------------------------

ConnStates == {"none", "new", "idle", "active", "hijacked", "late", "closed"}

\* A connection may take a step after a cleanup without an error only if the
\* step ends it.
LEMMA SetConnInv ==
    ASSUME IInv, NEW c \in Conns, NEW state \in ConnStates, SetConn(c, state),
           kind' \in [Conns -> Kinds],
           conns[c] \in {"none", "closed", "hijacked", "late"} =>
              state = "closed" \/ runner = "serve"
    PROVE  IInv'
<1>1. TypeOK' /\ RunnerInv' /\ ShutdownInv'
  BY DEF IInv, TypeOK, RunnerInv, ShutdownInv, SetConn, ConnStates, runnerVars, cleanerVars
<1>2. CleanMeansClosed'
  <2> SUFFICES ASSUME NEW k \in Cleaners, cleaner[k] = "done", k \notin unclean
               PROVE  /\ runner' # "serve"
                      /\ \A d \in Conns : conns'[d] \in {"none", "closed", "hijacked", "late"}
    BY DEF CleanMeansClosed, SetConn, cleanerVars
  <2>1. runner # "serve" /\ \A d \in Conns : conns[d] \in {"none", "closed", "hijacked", "late"}
    BY DEF IInv, CleanMeansClosed
  <2>2. state = "closed"
    BY <2>1
  <2> QED BY <2>1, <2>2 DEF IInv, TypeOK, SetConn, runnerVars
<1> QED BY <1>1, <1>2 DEF IInv

LEMMA AcceptInv == ASSUME IInv, NEW c \in Conns, Accept(c) PROVE IInv'
<1>1. SetConn(c, "new") /\ kind' = kind /\ runner = "serve"
  BY DEF Accept, SetConn
<1> QED BY <1>1, SetConnInv DEF IInv, TypeOK, ConnStates

\* Every step of a connection after its first.
ConnStep(c) ==
    \/ EndRequest(c) \/ EndUntracked(c) \/ HijackConn(c) \/ ClientLeaves(c) \/ GiveUp(c)
    \/ \E k \in Kinds : ReadRequest(c, k)

LEMMA ConnStepInv == ASSUME IInv, NEW c \in Conns, ConnStep(c) PROVE IInv'
<1>1. kind' \in [Conns -> Kinds]
  BY DEF IInv, TypeOK, ConnStep, EndRequest, EndUntracked, HijackConn, ClientLeaves,
         GiveUp, ReadRequest
<1>2. PICK state \in ConnStates :
          /\ SetConn(c, state)
          /\ conns[c] \in {"none", "closed", "hijacked", "late"} => state = "closed"
  BY DEF ConnStep, EndRequest, EndUntracked, HijackConn, ClientLeaves, GiveUp, ReadRequest,
         ConnStates
<1> QED BY <1>1, <1>2, SetConnInv

-----------------------------------------------------------------------------

LEMMA CleanInv == ASSUME IInv, NEW k \in Cleaners, Clean(k) PROVE IInv'
  BY DEF IInv, TypeOK, RunnerInv, ShutdownInv, CleanMeansClosed, Clean, SetCleaner,
         runnerVars, connVars

LEMMA CloseListenerInv == ASSUME IInv, NEW k \in Cleaners, CloseListener(k) PROVE IInv'
  BY DEF IInv, TypeOK, RunnerInv, ShutdownInv, CleanMeansClosed, CloseListener, SetCleaner,
         connVars

\* Here the wait for the runner is what the invariant of the others rests on.
LEMMA WaitServeInv == ASSUME IInv, NEW k \in Cleaners, WaitServe(k) PROVE IInv'
  BY DEF IInv, TypeOK, RunnerInv, ShutdownInv, CleanMeansClosed, WaitServe, SetCleaner,
         runnerVars, connVars

LEMMA PollInv == ASSUME IInv, NEW k \in Cleaners, Poll(k) PROVE IInv'
<1>1. PICK late \in SUBSET {c \in Conns : conns[c] = "idle"}, h \in [Conns -> Kinds] :
          /\ conns' = [c \in Conns |-> IF c \in late THEN "late"
                                       ELSE IF conns[c] = "idle" THEN "closed"
                                       ELSE conns[c]]
          /\ kind' = [c \in Conns |-> IF c \in late THEN h[c] ELSE kind[c]]
  BY DEF Poll
<1>2. /\ UNCHANGED <<runner, err, alarms, failed, listener, expired, unclean,
                     canceled, inShutdown>>
      /\ cleaner' \in [Cleaners -> {"idle", "close", "wait", "poll", "select", "done"}]
      /\ \A j \in Cleaners : j # k => cleaner'[j] = cleaner[j]
      /\ cleaner[k] = "poll" /\ cleaner'[k] \in {"done", "select"}
      /\ cleaner'[k] = "done" => \A c \in Conns : conns[c] \notin {"new", "active"}
  BY DEF Poll, SetCleaner, IInv, TypeOK, runnerVars
<1>3. TypeOK'
  <2>1. conns' \in [Conns -> ConnStates]
    BY <1>1 DEF IInv, TypeOK, ConnStates
  <2>2. kind' \in [Conns -> Kinds]
    BY <1>1 DEF IInv, TypeOK
  <2> QED BY <1>2, <2>1, <2>2 DEF IInv, TypeOK, ConnStates
<1>4. RunnerInv' /\ ShutdownInv'
  BY <1>2 DEF IInv, RunnerInv, ShutdownInv
<1>5. CleanMeansClosed'
  <2> SUFFICES ASSUME NEW j \in Cleaners, cleaner'[j] = "done", j \notin unclean
               PROVE  /\ runner # "serve"
                      /\ \A c \in Conns : conns'[c] \in {"none", "closed", "hijacked", "late"}
    BY <1>2 DEF CleanMeansClosed
  <2>1. runner # "serve"
    BY <1>2 DEF IInv, ShutdownInv
  <2>2. \A c \in Conns : conns[c] \notin {"new", "active"}
    BY <1>2 DEF IInv, CleanMeansClosed
  <2> QED BY <1>1, <2>1, <2>2 DEF IInv, TypeOK
<1> QED BY <1>3, <1>4, <1>5 DEF IInv

LEMMA PollAgainInv == ASSUME IInv, NEW k \in Cleaners, PollAgain(k) PROVE IInv'
  BY DEF IInv, TypeOK, RunnerInv, ShutdownInv, CleanMeansClosed, PollAgain, SetCleaner,
         runnerVars, connVars

LEMMA StopWaitingInv == ASSUME IInv, NEW k \in Cleaners, StopWaiting(k) PROVE IInv'
  BY DEF IInv, TypeOK, RunnerInv, ShutdownInv, CleanMeansClosed, StopWaiting, SetCleaner,
         runnerVars, connVars

LEMMA ControllerInv ==
    ASSUME IInv, Cancel \/ \E k \in Cleaners : Expire(k) PROVE IInv'
<1>1. /\ UNCHANGED <<runner, err, alarms, failed, listener, conns, kind, cleaner,
                     unclean, inShutdown>>
      /\ canceled' \in BOOLEAN /\ (canceled => canceled') /\ expired' \subseteq Cleaners
  <2>1. CASE Cancel
    <3>1. canceled' \in BOOLEAN /\ (canceled => canceled')
      BY <2>1, Zenon DEF Cancel
    <3> QED BY <2>1, <3>1 DEF IInv, TypeOK, Cancel, runnerVars, connVars, cleanerVars
  <2>2. ASSUME NEW k \in Cleaners, Expire(k)
        PROVE  /\ UNCHANGED <<runnerVars, connVars, cleaner, unclean, canceled, inShutdown>>
               /\ expired' \subseteq Cleaners
    BY <2>2 DEF IInv, TypeOK, Expire
  <2> QED BY <2>1, <2>2 DEF IInv, TypeOK, runnerVars, connVars
<1>2. TypeOK'
  BY <1>1 DEF IInv, TypeOK
<1>3. RunnerInv' /\ ShutdownInv' /\ CleanMeansClosed'
  BY <1>1 DEF IInv, RunnerInv, ShutdownInv, CleanMeansClosed
<1> QED BY <1>2, <1>3 DEF IInv

-----------------------------------------------------------------------------

LEMMA NextInv == ASSUME IInv, [Next]_vars PROVE IInv'
<1>1. CASE Run \/ Serving
  BY <1>1, RunnerStepInv
<1>2. CASE Cancel \/ \E k \in Cleaners : Expire(k)
  BY <1>2, ControllerInv
<1>3. ASSUME NEW c \in Conns, Accept(c) PROVE IInv'
  BY <1>3, AcceptInv
<1>4. ASSUME NEW c \in Conns, ConnStep(c) PROVE IInv'
  BY <1>4, ConnStepInv
<1>5. ASSUME NEW k \in Cleaners, Clean(k) \/ Cleaning(k) PROVE IInv'
  BY <1>5, CleanInv, CloseListenerInv, WaitServeInv, PollInv, PollAgainInv, StopWaitingInv
  DEF Cleaning
<1>6. CASE UNCHANGED vars
  BY <1>6, StutterInv
<1> QED BY <1>1, <1>2, <1>3, <1>4, <1>5, <1>6 DEF Next, ConnStep, Finished

\* The inductive invariant of the server's lifecycle (server.go:126-147).
THEOREM InvariantCorrect == Spec => []IInv
<1>1. Init => IInv
  BY InitInv
<1>2. IInv /\ [Next]_vars => IInv'
  BY NextInv
<1> QED BY <1>1, <1>2, PTL DEF Spec

\* Every variable keeps to its type; one failure is reported at most.
THEOREM TypeCorrect == Spec => []TypeOK
<1>1. IInv => TypeOK
  BY DEF IInv
<1> QED BY <1>1, InvariantCorrect, PTL

\* The runner reports a failure to serve, and nothing else: not the end that a
\* shutdown causes, whenever it comes; and it stops the application if the
\* configuration says so (server.go:129-135).
THEOREM AlarmsCorrect == Spec => []AlarmsAreReal
<1>1. IInv => AlarmsAreReal
  BY DEF IInv, TypeOK, RunnerInv, AlarmsAreReal
<1> QED BY <1>1, InvariantCorrect, PTL

\* Any cleaner that ends without an error leaves a server that serves no more
\* and no connection that http.Server knows of (server.go:142).
THEOREM CleanCorrect == Spec => []CleanMeansClosed
<1>1. IInv => CleanMeansClosed
  BY DEF IInv
<1> QED BY <1>1, InvariantCorrect, PTL

LEMMA ListenerStep ==
    ASSUME IInv, ListenerClosedFirst, [Next]_vars
    PROVE  ListenerClosedFirst'
<1> SUFFICES ASSUME NEW k \in Cleaners, cleaner'[k] \notin {"idle", "close"},
                    runner' = "serve"
             PROVE  listener' = "closed"
  BY DEF ListenerClosedFirst
<1>1. CASE UNCHANGED <<runner, listener, cleaner>>
  BY <1>1 DEF ListenerClosedFirst
<1>2. CASE Track
  BY <1>2 DEF IInv, ShutdownInv, Track, ServeReturns, cleanerVars
<1>3. CASE Run \/ Listen \/ ListenFails \/ AcceptFails \/ AcceptClosed \/ Finish
  BY <1>3 DEF Run, Listen, ListenFails, AcceptFails, AcceptClosed, Finish, ServeReturns,
              IInv, RunnerInv
<1>4. ASSUME NEW j \in Cleaners, CloseListener(j)
      PROVE  listener' = "closed"
  BY <1>4 DEF CloseListener
<1>5. ASSUME NEW j \in Cleaners,
             Clean(j) \/ WaitServe(j) \/ Poll(j) \/ PollAgain(j) \/ StopWaiting(j)
      PROVE  listener' = "closed"
  <2>1. UNCHANGED <<runner, listener>>
    BY <1>5 DEF Clean, WaitServe, Poll, PollAgain, StopWaiting, runnerVars
  <2>2. cleaner[k] \notin {"idle", "close"} \/ Clean(j)
    BY <1>5 DEF IInv, TypeOK, WaitServe, Poll, PollAgain, StopWaiting, SetCleaner
  <2>3. cleaner[k] \notin {"idle", "close"}
    BY <2>2 DEF IInv, TypeOK, Clean, SetCleaner
  <2> QED BY <2>1, <2>3 DEF ListenerClosedFirst
<1>6. ASSUME NEW c \in Conns, Accept(c) \/ ConnStep(c)
      PROVE  UNCHANGED <<runner, listener, cleaner>>
  BY <1>6 DEF Accept, ConnStep, EndRequest, EndUntracked, HijackConn, ClientLeaves, GiveUp,
              ReadRequest, SetConn, runnerVars, cleanerVars
<1>7. CASE Cancel \/ \E j \in Cleaners : Expire(j)
  BY <1>1, <1>7 DEF Cancel, Expire, runnerVars, cleanerVars
<1>8. CASE UNCHANGED vars
  BY <1>1, <1>8 DEF vars, runnerVars, cleanerVars
<1> QED
  BY <1>1, <1>2, <1>3, <1>4, <1>5, <1>6, <1>7, <1>8
     DEF Next, Serving, Cleaning, ConnStep, Finished

\* A cleaner that waits for the runner has closed its listener, so that the runner
\* returns (server.go:126-147): what RunnerReturns needs besides the scheduler.
THEOREM ListenerCorrect == Spec => []ListenerClosedFirst
<1>1. Init => ListenerClosedFirst
  BY DEF Init, ListenerClosedFirst
<1>2. IInv /\ ListenerClosedFirst /\ [Next]_vars => ListenerClosedFirst'
  BY ListenerStep
<1> QED BY <1>1, <1>2, InvariantCorrect, PTL DEF Spec

-----------------------------------------------------------------------------
(* How a server approaches its end.                                        *)

RunnerOnly == UNCHANGED <<conns, kind, cleaner, inShutdown>> /\ (canceled => canceled')

LEMMA RunnerProgress ==
    ASSUME IInv, Run \/ Serving
    PROVE  EndsStep /\ DrainStep /\ WaitersStep
<1>1. RunnerOnly
  <2>1. UNCHANGED <<conns, kind, cleaner, inShutdown>>
    BY DEF Run, Serving, Listen, ListenFails, Track, AcceptFails, AcceptClosed, Finish,
           connVars, cleanerVars
  <2>2. canceled => canceled'
    BY Zenon DEF Run, Serving, Listen, ListenFails, Track, AcceptFails, AcceptClosed, Finish
  <2> QED BY <2>1, <2>2 DEF RunnerOnly
<1>2. /\ RunnerRank(runner') < RunnerRank(runner)
      /\ inShutdown /\ runner # "serve" => runner' # "serve"
  BY DEF Run, Serving, Listen, ListenFails, Track, AcceptFails, AcceptClosed, Finish,
         ServeReturns, RunnerRank
<1>3. EndsStep
  BY <1>1, <1>2 DEF EndsStep, RunnerOnly
<1>4. DrainStep
  BY <1>1, <1>2 DEF DrainStep, RunnerOnly
<1>5. WaitersStep
  BY <1>1 DEF WaitersStep, RunnerOnly
<1> QED BY <1>3, <1>4, <1>5

\* What a step of a connection, its first included, does to the connection.
ConnMoves(c) ==
    \/ conns[c] = "none" /\ conns'[c] = "new" /\ runner = "serve"
    \/ conns[c] \in {"new", "idle"} /\ conns'[c] \in {"active", "closed"}
    \/ conns[c] = "active" /\ conns'[c] = IF inShutdown THEN "closed" ELSE "idle"
    \/ conns[c] = "active" /\ conns'[c] \in {"hijacked", "closed"} /\ kind' = kind
    \/ conns[c] \in {"hijacked", "late"} /\ conns'[c] = "closed"

ConnOnly(c) ==
    /\ UNCHANGED <<runner, cleaner, inShutdown, canceled>>
    /\ \A d \in Conns \ {c} : conns'[d] = conns[d] /\ kind'[d] = kind[d]

LEMMA ConnShape ==
    ASSUME IInv, NEW c \in Conns, Accept(c) \/ ConnStep(c)
    PROVE  ConnMoves(c) /\ ConnOnly(c)
<1> USE DEF IInv, TypeOK
<1>1. CASE Accept(c)
  BY <1>1 DEF Accept, ConnMoves, ConnOnly, runnerVars, cleanerVars
<1>2. CASE EndRequest(c) \/ EndUntracked(c) \/ HijackConn(c) \/ ClientLeaves(c) \/ GiveUp(c)
  BY <1>2 DEF EndRequest, EndUntracked, HijackConn, ClientLeaves, GiveUp, SetConn, ConnMoves,
              ConnOnly, runnerVars, cleanerVars
<1>3. ASSUME NEW k \in Kinds, ReadRequest(c, k) PROVE ConnMoves(c) /\ ConnOnly(c)
  BY <1>3 DEF ReadRequest, SetConn, ConnMoves, ConnOnly, runnerVars, cleanerVars
<1> QED BY <1>1, <1>2, <1>3 DEF ConnStep

LEMMA ConnProgress ==
    ASSUME IInv, NEW c \in Conns, Accept(c) \/ ConnStep(c)
    PROVE  EndsStep /\ DrainStep /\ WaitersStep
<1>1. ConnMoves(c) /\ ConnOnly(c)
  BY ConnShape
<1>2. EndsStep
  BY <1>1 DEF EndsStep, ConnOnly
<1>3. DrainStep
  <2>1. inShutdown => ConnRank(conns'[c]) < ConnRank(conns[c])
    BY <1>1 DEF ConnMoves, ConnRank
  <2>2. runner # "serve" /\ conns[c] = "none" => conns'[c] = "none"
    BY <1>1 DEF ConnMoves
  <2> QED BY <1>1, <2>1, <2>2 DEF DrainStep, ConnOnly
<1>4. WaitersStep
  <2>1. conns[c] \in {"active", "hijacked"} /\ kind[c] = "waits" =>
           \/ conns'[c] \in {conns[c], "hijacked"} /\ kind'[c] = "waits"
           \/ conns'[c] \in {"idle", "closed"}
    BY <1>1 DEF ConnMoves
  <2> QED BY <1>1, <2>1 DEF WaitersStep, ConnOnly
<1> QED BY <1>2, <1>3, <1>4

LEMMA PollProgress ==
    ASSUME IInv, NEW k \in Cleaners, Poll(k)
    PROVE  EndsStep /\ DrainStep /\ WaitersStep
<1> USE DEF IInv, TypeOK
<1>1. /\ UNCHANGED <<runner, inShutdown, canceled>>
      /\ cleaner[k] = "poll" /\ \A j \in Cleaners \ {k} : cleaner'[j] = cleaner[j]
      /\ \/ cleaner'[k] = "done"
         \/ cleaner'[k] = "select" /\ \E c \in Conns : conns[c] \in {"new", "active"}
  BY DEF Poll, SetCleaner, runnerVars
<1>2. \A c \in Conns :
         \/ conns[c] = "idle" /\ conns'[c] \in {"late", "closed"}
         \/ conns[c] # "idle" /\ conns'[c] = conns[c] /\ kind'[c] = kind[c]
  <2>1. PICK late \in SUBSET {c \in Conns : conns[c] = "idle"}, h \in [Conns -> Kinds] :
          /\ conns' = [c \in Conns |-> IF c \in late THEN "late"
                                       ELSE IF conns[c] = "idle" THEN "closed"
                                       ELSE conns[c]]
          /\ kind' = [c \in Conns |-> IF c \in late THEN h[c] ELSE kind[c]]
    BY Zenon DEF Poll
  <2> QED BY <2>1
<1>3. EndsStep
  <2>1. CleanerRank("done") < CleanerRank("poll")
    BY DEF CleanerRank
  <2>2. (\E c \in Conns : conns[c] \in {"new", "active"}) =>
           \E c \in Conns : conns'[c] \in {"new", "active"}
    BY <1>2
  <2> QED BY <1>1, <2>1, <2>2 DEF EndsStep
<1>4. DrainStep
  <2>1. \A c \in Conns : conns'[c] # conns[c] => ConnRank(conns'[c]) < ConnRank(conns[c])
    BY <1>2 DEF ConnRank
  <2>2. \A c \in Conns : conns[c] = "none" => conns'[c] = "none"
    BY <1>2
  <2> QED BY <1>1, <2>1, <2>2 DEF DrainStep
<1>5. WaitersStep
  BY <1>1, <1>2 DEF WaitersStep
<1> QED BY <1>3, <1>4, <1>5

LEMMA CleanerProgress ==
    ASSUME IInv, NEW k \in Cleaners,
           Clean(k) \/ CloseListener(k) \/ WaitServe(k) \/ PollAgain(k) \/ StopWaiting(k)
    PROVE  EndsStep /\ DrainStep /\ WaitersStep
<1>1. UNCHANGED <<runner, conns, kind, canceled>>
  BY DEF Clean, CloseListener, WaitServe, PollAgain, StopWaiting, runnerVars, connVars
<1>2. inShutdown => inShutdown'
  BY Zenon DEF Clean, CloseListener, WaitServe, PollAgain, StopWaiting
<1>3. /\ \A j \in Cleaners \ {k} : cleaner'[j] = cleaner[j]
      /\ \/ CleanerRank(cleaner'[k]) < CleanerRank(cleaner[k])
         \/ cleaner[k] = "select" /\ cleaner'[k] = "poll"
  BY DEF IInv, TypeOK, Clean, CloseListener, WaitServe, PollAgain, StopWaiting, SetCleaner,
         CleanerRank
<1> QED BY <1>1, <1>2, <1>3 DEF EndsStep, DrainStep, WaitersStep

LEMMA IdleProgress ==
    ASSUME UNCHANGED vars \/ Cancel \/ \E k \in Cleaners : Expire(k)
    PROVE  EndsStep /\ DrainStep /\ WaitersStep
<1>1. UNCHANGED <<runner, conns, kind, cleaner, inShutdown>>
  BY DEF vars, Cancel, Expire, runnerVars, connVars, cleanerVars
<1>2. canceled => canceled'
  BY Zenon DEF vars, Cancel, Expire
<1> QED BY <1>1, <1>2 DEF EndsStep, DrainStep, WaitersStep

LEMMA NextProgress ==
    ASSUME IInv, [Next]_vars
    PROVE  EndsStep /\ DrainStep /\ WaitersStep
  BY RunnerProgress, ConnProgress, PollProgress, CleanerProgress, IdleProgress
     DEF Next, Cleaning, ConnStep, Finished

\* The runner and every cleaner only approach their ends, and a cleaner looks again
\* only for a connection in use (server.go:129-142).
THEOREM EndsCorrect == Spec => EndsApproach
<1>1. IInv /\ [Next]_vars => EndsStep
  BY NextProgress
<1> QED BY <1>1, InvariantCorrect, PTL DEF Spec, EndsApproach

\* While the server shuts down, every step of a connection brings it closer to its end,
\* and none follows another (server.go:137-147).
THEOREM DrainCorrect == Spec => ConnsDrain
<1>1. IInv /\ [Next]_vars => DrainStep
  BY NextProgress
<1> QED BY <1>1, InvariantCorrect, PTL DEF Spec, ConnsDrain

\* A handler that waits for its context keeps its connection until it ends, and the
\* cancellation it waits for is never taken back (server.go:70).
THEOREM WaitersCorrect == Spec => WaitersHoldOn
<1>1. IInv /\ [Next]_vars => WaitersStep
  BY NextProgress
<1> QED BY <1>1, InvariantCorrect, PTL DEF Spec, WaitersHoldOn

=============================================================================
