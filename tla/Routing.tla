------------------------------- MODULE Routing -------------------------------
(***************************************************************************)
(* What the routers of one ServeMux promise (router.go, the docs of        *)
(* Router, Group and Handle): each router has a chain of middlewares of    *)
(* its own, which never changes; a route runs the chain that its router    *)
(* has, in order, and then its handler.                                    *)
(***************************************************************************)
EXTENDS Naturals, Sequences

CONSTANTS
    Middlewares,   \* values of type Middleware
    Patterns,      \* patterns of routes
    Requests,      \* what serves requests, one at a time
    MaxArgs        \* bound: middlewares in one call of Group

VARIABLES
    chains,    \* the chain of each router, in the order they were made
    table,     \* from the registered patterns to the chains they run
    requests   \* per request its pattern and the frames of its chain

rvars == <<chains, table, requests>>

Idle == [pattern |-> "none", stack |-> <<>>]

Push(q, frame) == requests' = [requests EXCEPT ![q].stack = Append(@, frame)]

\* The frame at position i of a chain: a middleware, or the handler behind them.
FrameOf(chain, i) == IF i <= Len(chain) THEN chain[i] ELSE "handler"

Group(r, args) ==
    /\ chains' = Append(chains, chains[r] \o args)
    /\ UNCHANGED <<table, requests>>

\* WithLogger: the same chain.
Derive(r) ==
    /\ chains' = Append(chains, chains[r])
    /\ UNCHANGED <<table, requests>>

Handle(r, p) ==
    /\ p \notin DOMAIN table
    /\ table' = [x \in DOMAIN table \cup {p} |->
                    IF x = p THEN chains[r] ELSE table[x]]
    /\ UNCHANGED <<chains, requests>>

Serve(q, p) ==
    /\ requests[q] = Idle
    /\ p \in DOMAIN table
    /\ requests' = [requests EXCEPT ![q] =
                        [pattern |-> p, stack |-> <<FrameOf(table[p], 1)>>]]
    /\ UNCHANGED <<chains, table>>

\* A middleware calls next.
Enter(q) ==
    LET stack == requests[q].stack IN
    /\ stack # <<>> /\ stack[Len(stack)] # "handler"
    /\ Push(q, FrameOf(table[requests[q].pattern], Len(stack) + 1))
    /\ UNCHANGED <<chains, table>>

\* A frame returns; the request is over with the outermost.
Return(q) ==
    LET stack == requests[q].stack IN
    /\ stack # <<>>
    /\ requests' = [requests EXCEPT ![q] =
                        IF Len(stack) = 1 THEN Idle
                        ELSE [@ EXCEPT !.stack = SubSeq(stack, 1, Len(stack) - 1)]]
    /\ UNCHANGED <<chains, table>>

Args == UNION {[1 .. n -> Middlewares] : n \in 0 .. MaxArgs}

Init ==
    /\ chains = << <<>> >>
    /\ table = <<>>
    /\ requests = [q \in Requests |-> Idle]

Next ==
    \/ \E r \in DOMAIN chains, args \in Args : Group(r, args)
    \/ \E r \in DOMAIN chains : Derive(r)
    \/ \E r \in DOMAIN chains, p \in Patterns : Handle(r, p)
    \/ \E q \in Requests, p \in Patterns : Serve(q, p)
    \/ \E q \in Requests : Enter(q) \/ Return(q)

Spec == Init /\ [][Next]_rvars

=============================================================================
