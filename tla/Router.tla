-------------------------------- MODULE Router --------------------------------
(***************************************************************************)
(* Routers built from one another and the routes they register             *)
(* (router.go).  A Router is a value that holds a slice of middlewares;    *)
(* the closure that Handle registers holds the router, so that a request   *)
(* reads the array of that slice when it gets there, not when the route    *)
(* was registered.  The application calls Group with a slice of its own,   *)
(* which it may go on writing to.                                          *)
(***************************************************************************)
EXTENDS GoSlices

CONSTANTS
    Middlewares,   \* values of type Middleware
    Resolvable,    \* those whose name exception.Function finds
    Patterns,      \* patterns of routes
    Requests,      \* what serves requests, one at a time
    MaxArgs,       \* bound: the capacity of the application's slice
    MaxRoom,       \* bound: what append leaves free in a new array
    MaxRouters,    \* bound: routers the application makes
    MaxChain       \* bound: middlewares of one router

ASSUME BoundsAssumption == MaxArgs \in Nat /\ MaxRoom \in Nat /\ MaxChain \in Nat

ASSUME ResolvableAssumption == Resolvable \subseteq Middlewares

VARIABLES
    heap,      \* the arrays: the application's first, then those of Group
    routers,   \* the routers in the order they were made
    routes,    \* from the registered patterns to the routers they captured
    log,       \* the lines about registrations
    requests   \* per request its pattern and the frames of its chain

vars == <<heap, routers, routes, log, requests>>

-----------------------------------------------------------------------------

\* The application's own slice, of which it passes the first n elements.
Caller(n) == [array |-> 1, len |-> n]

Chain(router) == Elements(heap, router.slice)

Room == {[i \in 1 .. n |-> "nil"] : n \in 0 .. MaxRoom}

\* Mutant of Names: a value that cannot be resolved has no frame.
NamesFound(chain) == SelectSeq(chain, LAMBDA m : m \in Resolvable)

\* funcObjects: the names, in order and without gaps.
Names(chain) == [i \in 1 .. Len(chain) |->
                    IF chain[i] \in Resolvable THEN chain[i] ELSE "<unknown>"]

-----------------------------------------------------------------------------
(* The application.                                                        *)

Overwrite(i, m) ==
    /\ heap' = [heap EXCEPT ![1][i] = m]
    /\ UNCHANGED <<routers, routes, log, requests>>

-----------------------------------------------------------------------------
(* Routers.                                                                *)

MakeRouter(router) ==
    /\ Len(routers) < MaxRouters
    /\ routers' = Append(routers, router)
    /\ UNCHANGED <<routes, log, requests>>

WithLogger(r) ==
    /\ MakeRouter([routers[r] EXCEPT !.logger = TRUE])
    /\ UNCHANGED heap

\* Mutants of Group: one append, to the receiver's slice, and a first group
\* that keeps the slice it is called with.
GroupInPlace(r, n, room1, room2) ==
    /\ routers[r].slice.len + n <= MaxChain
    /\ LET g == AppendTo(heap, routers[r].slice, Elements(heap, Caller(n)), room1)
       IN  /\ heap' = g.heap
           /\ MakeRouter([routers[r] EXCEPT !.slice = g.slice])

GroupKeepsCaller(r, n, room1, room2) ==
    /\ routers[r].slice.len + n <= MaxChain
    /\ LET g == AppendTo(heap, routers[r].slice, Elements(heap, Caller(n)), room1)
       IN  IF routers[r].slice = Nil
           THEN /\ UNCHANGED heap
                /\ MakeRouter([routers[r] EXCEPT !.slice = Caller(n)])
           ELSE /\ heap' = Append(heap, Chain(routers[r]) \o Elements(heap, Caller(n)))
                /\ MakeRouter([routers[r] EXCEPT !.slice =
                       [array |-> Len(heap) + 1, len |-> @.len + n]])

\* append(append([]Middleware(nil), r.middlewares...), middlewares...): the
\* second append writes into the first one's array if that has room.
Group(r, n, room1, room2) ==
    /\ routers[r].slice.len + n <= MaxChain
    /\ LET c == AppendTo(heap, Nil, Chain(routers[r]), room1)
           g == AppendTo(c.heap, c.slice, Elements(heap, Caller(n)), room2)
       IN  /\ heap' = g.heap
           /\ MakeRouter([routers[r] EXCEPT !.slice = g.slice])

\* The line is written before HandleFunc is called.
LogRegistration(r, p) ==
    log' = IF routers[r].logger
           THEN log \cup {[pattern |-> p, middlewares |-> Names(Chain(routers[r]))]}
           ELSE log

Handle(r, p) ==
    /\ p \notin DOMAIN routes
    /\ routes' = [x \in DOMAIN routes \cup {p} |->
                    IF x = p THEN routers[r] ELSE routes[x]]
    /\ LogRegistration(r, p)
    /\ UNCHANGED <<heap, routers, requests>>

\* HandleFunc panics for a pattern that conflicts with a registered one.
HandleConflict(r, p) ==
    /\ p \in DOMAIN routes
    /\ LogRegistration(r, p)
    /\ UNCHANGED <<heap, routers, routes, requests>>

-----------------------------------------------------------------------------
(* Requests.                                                               *)

Idle == [pattern |-> "none", stack |-> <<>>]

\* Mutant of Dispatch: the bound is off by one.
DispatchOffByOne(slice, i) ==
    IF i + 1 < slice.len THEN heap[slice.array][i + 1] ELSE "handler"

\* dispatcher(ctx, i): what it calls, read from the array now.
Dispatch(slice, i) ==
    IF i < slice.len THEN heap[slice.array][i + 1] ELSE "handler"

\* The mux finds a route and calls its closure.
Serve(q, p) ==
    /\ requests[q] = Idle
    /\ p \in DOMAIN routes
    /\ requests' = [requests EXCEPT ![q] =
                        [pattern |-> p, stack |-> <<Dispatch(routes[p].slice, 0)>>]]
    /\ UNCHANGED <<heap, routers, routes, log>>

\* The innermost frame, a middleware, calls next.
Enter(q) ==
    LET stack == requests[q].stack
        slice == routes[requests[q].pattern].slice
    IN  /\ stack # <<>> /\ stack[Len(stack)] # "handler"
        /\ requests' = [requests EXCEPT ![q].stack =
                            Append(@, Dispatch(slice, Len(stack)))]
        /\ UNCHANGED <<heap, routers, routes, log>>

\* The innermost frame returns, or panics; its caller may call next again.
Return(q) ==
    LET stack == requests[q].stack IN
    /\ stack # <<>>
    /\ requests' = [requests EXCEPT ![q] =
                        IF Len(stack) = 1 THEN Idle
                        ELSE [@ EXCEPT !.stack = SubSeq(stack, 1, Len(stack) - 1)]]
    /\ UNCHANGED <<heap, routers, routes, log>>

-----------------------------------------------------------------------------

Init ==
    /\ heap \in {<<array>> : array \in [1 .. MaxArgs -> Middlewares]}
    /\ routers = <<[slice |-> Nil, logger |-> FALSE]>>
    /\ routes = <<>> /\ log = {}
    /\ requests = [q \in Requests |-> Idle]

Next ==
    \/ \E i \in 1 .. MaxArgs, m \in Middlewares : Overwrite(i, m)
    \/ \E r \in DOMAIN routers : WithLogger(r)
    \/ \E r \in DOMAIN routers, n \in 0 .. MaxArgs, room1, room2 \in Room :
           Group(r, n, room1, room2)
    \/ \E r \in DOMAIN routers, p \in Patterns : Handle(r, p)
    \/ \E r \in DOMAIN routers, p \in Patterns : HandleConflict(r, p)
    \/ \E q \in Requests, p \in Patterns : Serve(q, p)
    \/ \E q \in Requests : Enter(q)
    \/ \E q \in Requests : Return(q)

Spec == Init /\ [][Next]_vars

-----------------------------------------------------------------------------
(* Properties.                                                             *)

Slices == {Nil} \cup [array : 2 .. Len(heap), len : 0 .. MaxChain]

Frames == Middlewares \cup {"handler"}

\* Every variable keeps to the values its Go counterpart can have; no frame
\* is the nil that fills the room of an array.
TypeOK ==
    /\ heap \in Seq(Seq(Middlewares \cup {"nil"}))
    /\ routers \in Seq([slice : Slices, logger : BOOLEAN])
    /\ DOMAIN routes \subseteq Patterns
    /\ \A p \in DOMAIN routes : routes[p] \in [slice : Slices, logger : BOOLEAN]
    /\ requests \in [Requests -> [pattern : Patterns \cup {"none"}, stack : Seq(Frames)]]
    /\ \A q \in Requests : requests[q] = Idle \/ requests[q].pattern \in DOMAIN routes

\* The frames of a request are, at every moment, the first ones of the chain of
\* its route followed by its handler, whatever was grouped or overwritten
\* since it began (dispatcher in Handle).
RunsRegisteredChain ==
    \A q \in Requests :
        LET stack == requests[q].stack IN
        stack # <<>> =>
            LET run == Append(Chain(routes[requests[q].pattern]), "handler") IN
            /\ Len(stack) <= Len(run)
            /\ \A i \in 1 .. Len(stack) : stack[i] = run[i]

\* Some line logged about a route's pattern still tells what the route runs:
\* each middleware at its place, by name if it has one (funcObjects).
LogTellsChain ==
    \A p \in DOMAIN routes : routes[p].logger =>
        \E line \in log :
            LET chain == Chain(routes[p]) IN
            /\ line.pattern = p /\ Len(line.middlewares) = Len(chain)
            /\ \A i \in 1 .. Len(chain) :
                  line.middlewares[i] \in
                      (IF chain[i] \in Resolvable THEN {chain[i]} ELSE {"<unknown>"})

\* Once made, a router keeps its chain: deriving others from it, and what the
\* application does with the slice it passed, does not change it (the doc of
\* Group: does not mutate r, does not retain the caller's slice).
ChainsNeverChange ==
    [][\A r \in DOMAIN routers :
          /\ r \in DOMAIN routers'
          /\ Chain(routers[r])' = Chain(routers[r])]_vars

-----------------------------------------------------------------------------
(* The abstract specification.                                             *)

Promise == INSTANCE Routing WITH
    chains <- [r \in DOMAIN routers |-> Chain(routers[r])],
    table  <- [p \in DOMAIN routes |-> Chain(routes[p])]

\* Routers on shared arrays behave as routers that each own their chain.
ImplementsRouting == Promise!Spec

-----------------------------------------------------------------------------
(* The inductive invariant behind them.                                    *)

\* What a slice of a router holds was written to an array that Group made.
Filled(slice) ==
    slice # Nil =>
        /\ slice.len <= Len(heap[slice.array])
        /\ \A i \in 1 .. slice.len : heap[slice.array][i] \in Middlewares

CallerInv == heap # <<>> /\ heap[1] \in [1 .. MaxArgs -> Middlewares]

SliceInv ==
    /\ \A r \in DOMAIN routers : Filled(routers[r].slice)
    /\ \A p \in DOMAIN routes : Filled(routes[p].slice)

\* The line of the registration itself is in the log, and still true.
LogInv ==
    \A p \in DOMAIN routes :
        routes[p].logger =>
            [pattern |-> p, middlewares |-> Names(Chain(routes[p]))] \in log

IInv == TypeOK /\ CallerInv /\ SliceInv /\ RunsRegisteredChain /\ LogInv

=============================================================================
