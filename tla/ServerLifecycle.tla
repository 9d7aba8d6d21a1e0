--------------------------- MODULE ServerLifecycle ---------------------------
(***************************************************************************)
(* A server from its start to its end (server.go): the runner's goroutine, *)
(* which serves until http.Server stops; the cleaners, which the lifecycle *)
(* controller calls to shut it down, before, while or after the runner     *)
(* serves, and more than once; connections and their requests, whose       *)
(* contexts derive from the application's.  http.Server and the controller *)
(* are external.                                                           *)
(***************************************************************************)
EXTENDS Naturals, FiniteSets

CONSTANTS
    Conns,            \* connections, each opened once
    Cleaners,         \* calls of the cleaner
    Kinds,            \* what handlers do: work, wait for their context, or hang
    ShutdownOnError   \* config.ShutdownOnError

ASSUME KindsAssumption == Kinds \subseteq {"works", "waits", "hangs"}

ASSUME ShutdownOnErrorAssumption == ShutdownOnError \in BOOLEAN

VARIABLES
    runner,      \* where the runner is in ListenAndServe
    err,         \* what ListenAndServe returned
    alarms,      \* calls of shutdown, or logs of an error without it
    failed,      \* history: serving failed, not because of a shutdown
    canceled,    \* the application's context
    inShutdown,  \* http.Server's flag
    listener,    \* none, open, or closed
    conns,       \* the state of each connection
    kind,        \* per connection, what its current handler does
    cleaner,     \* where each cleaner is in Server.Shutdown
    expired,     \* the cleanups whose context has ended
    unclean      \* the cleaners whose Shutdown returned an error

runnerVars  == <<runner, err, alarms, failed, listener>>
connVars    == <<conns, kind>>
cleanerVars == <<cleaner, expired, unclean>>
vars == <<runnerVars, connVars, cleanerVars, canceled, inShutdown>>

-----------------------------------------------------------------------------
(* The runner: ListenAndServe, and what the runner makes of its error.     *)

ServeReturns(e) == runner' = "returned" /\ err' = e

Run ==
    /\ runner = "idle"
    /\ IF inShutdown THEN ServeReturns("ErrServerClosed")
                     ELSE runner' = "listen" /\ UNCHANGED err
    /\ UNCHANGED <<alarms, failed, listener, connVars, cleanerVars, canceled, inShutdown>>

Listen ==
    /\ runner = "listen"
    /\ runner' = "track" /\ listener' = "open"
    /\ UNCHANGED <<err, alarms, failed, connVars, cleanerVars, canceled, inShutdown>>

\* The address is in use, for example.
ListenFails ==
    /\ runner = "listen"
    /\ ServeReturns("other") /\ failed' = TRUE
    /\ UNCHANGED <<alarms, listener, connVars, cleanerVars, canceled, inShutdown>>

\* The listener becomes one that Shutdown closes, unless Shutdown was faster.
Track ==
    /\ runner = "track"
    /\ IF inShutdown THEN ServeReturns("ErrServerClosed") /\ listener' = "closed"
                     ELSE runner' = "serve" /\ UNCHANGED <<err, listener>>
    /\ UNCHANGED <<alarms, failed, connVars, cleanerVars, canceled, inShutdown>>

Accept(c) ==
    /\ runner = "serve" /\ listener = "open"
    /\ conns[c] = "none"
    /\ conns' = [conns EXCEPT ![c] = "new"]
    /\ UNCHANGED <<runnerVars, kind, cleanerVars, canceled, inShutdown>>

\* Accept gives an error for a reason of its own.
AcceptFails ==
    /\ runner = "serve" /\ listener = "open"
    /\ ServeReturns(IF inShutdown THEN "ErrServerClosed" ELSE "other")
    /\ failed' = (failed \/ ~inShutdown)
    /\ listener' = "closed"
    /\ UNCHANGED <<alarms, connVars, cleanerVars, canceled, inShutdown>>

AcceptClosed ==
    /\ runner = "serve" /\ listener = "closed"
    /\ ServeReturns("ErrServerClosed")
    /\ UNCHANGED <<alarms, failed, listener, connVars, cleanerVars, canceled, inShutdown>>

\* Mutants of Finish: every error is reported; the runner serves again.
FinishReportsAll ==
    /\ runner = "returned"
    /\ runner' = "done"
    /\ alarms' = alarms + 1
    /\ canceled' = (canceled \/ ShutdownOnError)
    /\ UNCHANGED <<err, failed, listener, connVars, cleanerVars, inShutdown>>

FinishRetries ==
    /\ runner = "returned"
    /\ IF err = "other"
       THEN runner' = "listen" /\ alarms' = alarms + 1
            /\ canceled' = (canceled \/ ShutdownOnError)
       ELSE runner' = "done" /\ UNCHANGED <<alarms, canceled>>
    /\ UNCHANGED <<err, failed, listener, connVars, cleanerVars, inShutdown>>

\* The rest of runner.
Finish ==
    /\ runner = "returned"
    /\ runner' = "done"
    /\ IF err # "ErrServerClosed"
       THEN alarms' = alarms + 1 /\ canceled' = (canceled \/ ShutdownOnError)
       ELSE UNCHANGED <<alarms, canceled>>
    /\ UNCHANGED <<err, failed, listener, connVars, cleanerVars, inShutdown>>

-----------------------------------------------------------------------------
(* Connections and their requests.                                         *)

SetConn(c, state) ==
    /\ conns' = [conns EXCEPT ![c] = state]
    /\ UNCHANGED <<runnerVars, cleanerVars, canceled, inShutdown>>

ReadRequest(c, k) ==
    /\ conns[c] \in {"new", "idle"}
    /\ kind' = [kind EXCEPT ![c] = k]
    /\ SetConn(c, "active")

\* Mutant of RequestCanceled: requests derive from a background context.
RequestDetached == FALSE

\* Every request's context derives from BaseContext, the application's.
RequestCanceled == canceled

\* A handler that hangs, on a client that stalls for example, never ends.
CanEnd(c) == kind[c] = "works" \/ (kind[c] = "waits" /\ RequestCanceled)

\* http.Server keeps no connection alive once it shuts down.
EndRequest(c) ==
    /\ conns[c] = "active" /\ CanEnd(c)
    /\ SetConn(c, IF inShutdown THEN "closed" ELSE "idle") /\ UNCHANGED kind

\* A takeover, and a request that Shutdown did not see any more.
EndUntracked(c) ==
    /\ conns[c] \in {"hijacked", "late"} /\ CanEnd(c)
    /\ SetConn(c, "closed") /\ UNCHANGED kind

\* http.Server forgets a connection that a handler takes over.
HijackConn(c) ==
    /\ conns[c] = "active"
    /\ SetConn(c, "hijacked") /\ UNCHANGED kind

\* The client leaves; its request's context is canceled.
ClientLeaves(c) ==
    /\ conns[c] = "active" /\ kind[c] = "waits"
    /\ SetConn(c, "closed") /\ UNCHANGED kind

\* ReadHeaderTimeout and IdleTimeout; or the client closes the connection.
GiveUp(c) ==
    /\ conns[c] \in {"new", "idle"}
    /\ SetConn(c, "closed") /\ UNCHANGED kind

-----------------------------------------------------------------------------
(* The cleaners: Server.Shutdown.                                          *)

SetCleaner(k, label) == cleaner' = [cleaner EXCEPT ![k] = label]

\* Mutant of Clean: a cleanup whose context has ended does nothing.
CleanInTime(k) ==
    /\ cleaner[k] = "idle"
    /\ IF k \in expired THEN SetCleaner(k, "done") /\ UNCHANGED inShutdown
                        ELSE SetCleaner(k, "close") /\ inShutdown' = TRUE
    /\ UNCHANGED <<runnerVars, connVars, expired, unclean, canceled>>

Clean(k) ==
    /\ cleaner[k] = "idle"
    /\ SetCleaner(k, "close") /\ inShutdown' = TRUE
    /\ UNCHANGED <<runnerVars, connVars, expired, unclean, canceled>>

CloseListener(k) ==
    /\ cleaner[k] = "close"
    /\ SetCleaner(k, "wait")
    /\ listener' = IF runner = "serve" THEN "closed" ELSE listener
    /\ UNCHANGED <<runner, err, alarms, failed, connVars, expired, unclean,
                   canceled, inShutdown>>

\* The group of Serve calls.
WaitServe(k) ==
    /\ cleaner[k] = "wait" /\ runner # "serve"
    /\ SetCleaner(k, "poll")
    /\ UNCHANGED <<runnerVars, connVars, expired, unclean, canceled, inShutdown>>

\* Idle connections are closed; one that has just read a request serves it
\* all the same.
Poll(k) ==
    /\ cleaner[k] = "poll"
    /\ \E late \in SUBSET {c \in Conns : conns[c] = "idle"}, h \in [Conns -> Kinds] :
          /\ conns' = [c \in Conns |-> IF c \in late THEN "late"
                                       ELSE IF conns[c] = "idle" THEN "closed"
                                       ELSE conns[c]]
          /\ kind' = [c \in Conns |-> IF c \in late THEN h[c] ELSE kind[c]]
    /\ SetCleaner(k, IF \A c \in Conns : conns[c] \notin {"new", "active"}
                     THEN "done" ELSE "select")
    /\ UNCHANGED <<runnerVars, expired, unclean, canceled, inShutdown>>

PollAgain(k) ==
    /\ cleaner[k] = "select"
    /\ SetCleaner(k, "poll")
    /\ UNCHANGED <<runnerVars, connVars, expired, unclean, canceled, inShutdown>>

\* Mutants of StopWaiting: the context's error is dropped; the context is
\* not the one of the cleanup.
StopWaitingSilently(k) ==
    /\ cleaner[k] = "select" /\ k \in expired
    /\ SetCleaner(k, "done")
    /\ UNCHANGED <<runnerVars, connVars, expired, unclean, canceled, inShutdown>>

StopWaitingNever(k) ==
    /\ cleaner[k] = "select" /\ k \in {}
    /\ UNCHANGED vars

\* The context of the cleanup ends first: its error, which cleaner logs.
StopWaiting(k) ==
    /\ cleaner[k] = "select" /\ k \in expired
    /\ SetCleaner(k, "done") /\ unclean' = unclean \cup {k}
    /\ UNCHANGED <<runnerVars, connVars, expired, canceled, inShutdown>>

-----------------------------------------------------------------------------
(* The controller.                                                         *)

Cancel ==
    /\ canceled' = TRUE
    /\ UNCHANGED <<runnerVars, connVars, cleanerVars, inShutdown>>

Expire(k) ==
    /\ k \notin expired /\ expired' = expired \cup {k}
    /\ UNCHANGED <<runnerVars, connVars, cleaner, unclean, canceled, inShutdown>>

-----------------------------------------------------------------------------

Finished ==
    /\ runner = "done" /\ \A k \in Cleaners : cleaner[k] = "done"
    /\ UNCHANGED vars

Init ==
    /\ runner = "idle" /\ err = "nil" /\ alarms = 0 /\ failed = FALSE
    /\ canceled = FALSE /\ inShutdown = FALSE /\ listener = "none"
    /\ conns = [c \in Conns |-> "none"] /\ kind \in [Conns -> Kinds]
    /\ cleaner = [k \in Cleaners |-> "idle"] /\ expired = {} /\ unclean = {}

Serving == Listen \/ ListenFails \/ Track \/ AcceptFails \/ AcceptClosed \/ Finish

Cleaning(k) ==
    CloseListener(k) \/ WaitServe(k) \/ Poll(k) \/ PollAgain(k) \/ StopWaiting(k)

Next ==
    \/ Run \/ Serving \/ Cancel
    \/ \E c \in Conns : \/ Accept(c) \/ EndRequest(c) \/ EndUntracked(c)
                        \/ HijackConn(c) \/ ClientLeaves(c) \/ GiveUp(c)
                        \/ \E k \in Kinds : ReadRequest(c, k)
    \/ \E k \in Cleaners : Clean(k) \/ Cleaning(k) \/ Expire(k)
    \/ Finished

\* The goroutines run; a handler that can end does; http.Server's timeouts
\* fire; a select that may take either of two ready channels takes each in the
\* end.  Nobody need start or stop anything, and no cleanup need expire.
Fairness ==
    /\ WF_vars(Listen \/ ListenFails) /\ WF_vars(Track)
    /\ WF_vars(AcceptClosed) /\ WF_vars(Finish)
    /\ \A c \in Conns :
          /\ WF_vars(EndRequest(c)) /\ WF_vars(EndUntracked(c)) /\ WF_vars(GiveUp(c))
    /\ \A k \in Cleaners :
          WF_vars(Cleaning(k)) /\ SF_vars(StopWaiting(k))

Spec == Init /\ [][Next]_vars /\ Fairness

-----------------------------------------------------------------------------
(* Properties.                                                             *)

\* Every variable keeps to the values its Go counterpart can have; the
\* application is told of one failure at most.
TypeOK ==
    /\ runner \in {"idle", "listen", "track", "serve", "returned", "done"}
    /\ err \in {"nil", "ErrServerClosed", "other"}
    /\ alarms \in 0 .. 1
    /\ failed \in BOOLEAN /\ canceled \in BOOLEAN /\ inShutdown \in BOOLEAN
    /\ listener \in {"none", "open", "closed"}
    /\ conns \in [Conns -> {"none", "new", "idle", "active", "hijacked", "late", "closed"}]
    /\ kind \in [Conns -> Kinds]
    /\ cleaner \in [Cleaners -> {"idle", "close", "wait", "poll", "select", "done"}]
    /\ expired \subseteq Cleaners /\ unclean \subseteq Cleaners

\* The runner reports a failure exactly if serving failed of itself, and then
\* stops the application if the configuration says so: a server that is shut
\* down, at whatever point of its start, ends in silence (runner).
AlarmsAreReal ==
    /\ alarms > 0 => failed
    /\ runner = "done" /\ failed => alarms > 0 /\ (ShutdownOnError => canceled)

\* A cleaner that ends without an error leaves no connection open that is not
\* a takeover's, and the server cannot accept one any more (cleaner).
CleanMeansClosed ==
    \A k \in Cleaners : cleaner[k] = "done" /\ k \notin unclean =>
        /\ runner # "serve"
        /\ \A c \in Conns : conns[c] \in {"none", "closed", "hijacked", "late"}

\* Shutting the server down ends its runner, also one that is just starting.
RunnerReturns ==
    (\E k \in Cleaners : cleaner[k] # "idle") /\ runner # "idle" ~> runner = "done"

\* A cleanup ends when its context does; and without that once the
\* application is canceled, unless a handler hangs (BaseContext).
CleanersReturn ==
    \A k \in Cleaners :
        cleaner[k] # "idle" /\ (k \in expired \/ canceled) ~>
            \/ cleaner[k] = "done"
            \/ k \notin expired /\ \E c \in Conns : conns[c] = "active" /\ kind[c] = "hangs"

\* No cleaner waits for a runner that nobody has told to stop: while one is past
\* the listeners and the runner still serves, its listener is closed, however the
\* start of the runner and the shutdown overlap (runner, cleaner).
ListenerClosedFirst ==
    \A k \in Cleaners :
        cleaner[k] \notin {"idle", "close"} /\ runner = "serve" => listener = "closed"

\* Canceling the application ends the requests and the takeovers that wait for
\* their context, of which Shutdown knows nothing (BaseContext).
WaitersEnd ==
    \A c \in Conns :
        canceled /\ conns[c] \in {"active", "hijacked"} /\ kind[c] = "waits" ~>
            conns[c] \in {"idle", "closed"}

-----------------------------------------------------------------------------
(* What the liveness properties rest on besides fairness: how far the      *)
(* runner, a connection and a cleaner are from their ends.                 *)

RunnerRank(r) ==
    CASE r = "idle" -> 5 [] r = "listen" -> 4 [] r = "track" -> 3
      [] r = "serve" -> 2 [] r = "returned" -> 1 [] r = "done" -> 0

ConnRank(s) ==
    CASE s = "none" -> 4 [] s \in {"new", "idle"} -> 3 [] s = "active" -> 2
      [] s \in {"hijacked", "late"} -> 1 [] s = "closed" -> 0

CleanerRank(l) ==
    CASE l = "idle" -> 4 [] l = "close" -> 3 [] l = "wait" -> 2
      [] l \in {"poll", "select"} -> 1 [] l = "done" -> 0

EndsStep ==
    /\ runner' # runner => RunnerRank(runner') < RunnerRank(runner)
    /\ \A k \in Cleaners :
          cleaner'[k] # cleaner[k] =>
             \/ CleanerRank(cleaner'[k]) < CleanerRank(cleaner[k])
             \/ cleaner[k] = "poll" /\ cleaner'[k] = "select"
                /\ \E c \in Conns : conns'[c] \in {"new", "active"}
             \/ cleaner[k] = "select" /\ cleaner'[k] = "poll"

\* The runner and the cleaners never go back; a cleaner looks at the
\* connections again only for one that is new or serves a request (runner,
\* cleaner): behind RunnerReturns and CleanersReturn.
EndsApproach == [][EndsStep]_vars

DrainStep ==
    inShutdown =>
       /\ inShutdown'
       /\ \A c \in Conns :
             conns'[c] # conns[c] => ConnRank(conns'[c]) < ConnRank(conns[c])
       /\ runner # "serve" =>
             /\ runner' # "serve"
             /\ \A c \in Conns : conns[c] = "none" => conns'[c] = "none"

\* A shutdown is never taken back, and while it lasts every step of a
\* connection brings it closer to its end: no request follows another, and
\* once the runner serves no more, no connection follows another (cleaner):
\* behind CleanersReturn.
ConnsDrain == [][DrainStep]_vars

WaitersStep ==
    canceled =>
       /\ canceled'
       /\ \A c \in Conns :
             conns[c] \in {"active", "hijacked"} /\ kind[c] = "waits" =>
                \/ conns'[c] \in {conns[c], "hijacked"} /\ kind'[c] = "waits"
                \/ conns'[c] \in {"idle", "closed"}

\* A canceled application stays canceled; until a handler that waits for its
\* context ends, its connection stays that handler's, taken over or not, so
\* that it sees the cancellation (BaseContext): behind WaitersEnd.
WaitersHoldOn == [][WaitersStep]_vars

-----------------------------------------------------------------------------
(* The inductive invariant behind the safety properties.                   *)

RunnerInv ==
    /\ err = "other" => failed
    /\ failed => err = "other" /\ runner \in {"returned", "done"}
    /\ err # "nil" <=> runner \in {"returned", "done"}
    /\ alarms > 0 <=> runner = "done" /\ err = "other"
    /\ runner = "done" /\ err = "other" /\ ShutdownOnError => canceled

ShutdownInv ==
    \A k \in Cleaners :
        /\ cleaner[k] # "idle" => inShutdown
        /\ cleaner[k] \in {"poll", "select", "done"} => runner # "serve"

IInv == TypeOK /\ RunnerInv /\ ShutdownInv /\ CleanMeansClosed

=============================================================================
