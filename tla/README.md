# A TLA+ model of go-httpserver

The package is a thin layer over `net/http`: it gives each request a `Context`
in which middlewares and handlers *prepare* a response, writes that response
once after they have all returned, and binds requests to typed structs.  This
directory holds TLA+ modules translated from its source, the TLC configurations
that check them, and TLAPS proofs of the main results for every value of the
constants.  `PROJECT.json` maps each definition to the lines it stands for.

## 1. Inventory

| Component | State it keeps | Operations | Hard behaviour | What makes it correct |
|---|---|---|---|---|
| Request flow: `httpServer.ServeHTTP`, closure and dispatcher of `Router.Handle` (`server.go`, `router.go`) | the stack of the chain, the panic under way | dispatch, call `next`, return, panic, recover, the two deferred functions | panics before, during and after the commit; `next` called never or many times; recovery must not write twice | one final status, a bare 500 for what fails before it, an abort for what fails after; one log line that tells the truth; every request ends |
| `Context` and `Response` handles (`context.go`, `response.go`) | pending writer, status, body, marshaller, ticket | `NewResponse`, `Hijack`, `Response`, `Hijacked`, setters, `Header`, `Cookie`, `writeResponse` | long sequences of replacing calls; handles kept past their response; user code run by the encoder, the stream and the takeover body | what is sent is the last response prepared and nothing of the earlier ones; stale handles cannot change it |
| `StreamWriter` (`stream_writer.go`) | status, bytes, whether the connection is still net/http's | `WriteHeader`, `Write`, `Hijack`, `Flush`, deadlines | informational statuses, repeated statuses, takeover in mid-stream | the accounting is the wire's; nothing is written to a connection taken over |
| Bounded body binding (`request_body.go`) | the body, the answer channel, the timer, the value being filled | `bindFullTextBodyWithTimeout`, `charsetReader`, `bindForm`, `bindJson` | two goroutines share the body and the value; timeout and cancellation race the answer; `Close` against a waiting `Read` | the handler never shares its value with a binder; success means a whole body; both goroutines end |
| Request pipeline (`request.go`, `request_bind.go`) | the parsed value of each parser, the one request body | defaults, header, cookie, query, url, one body binder, validation | several parsers of one body, `next` called again after a failure or a timeout | typed code sees a completely bound and validated value; the body reaches one binding; nothing is bound beside a binder left behind |
| Tag compiler and cache (`request_tags.go`) | `globalTags` under a mutex, index slices | `createTags`, `checkRecursively` | concurrent first use, panics under the lock, slices shared through `append` | compiled once per type; the tags are those the type declares; every call gets through |
| Charset detection (`request_body.go`) | the buffer in front of the body | `charsetReader` | a byte-order mark that arrives in pieces; the dropped error of `Peek` | the decoder is the declared one or the mark's; a body that broke off never counts as complete |
| Router construction (`router.go`) | middleware slice, prefix, logger | `Group`, `WithLogger`, `Handle`, the dispatcher | siblings that share a backing array; the caller's slice used again; a request reads the slice long after the registration | each router has a chain of its own; a request runs the chain its route was registered with, which is the one that was logged |
| Server lifecycle (`server.go`) | runner and cleaner goroutines, the base context | `NewServer`, runner, cleaner | `ListenAndServe` failing against `Shutdown` at any point of its start; requests that hang; takeovers | only real failures are reported, and stop the application if so configured; a clean shutdown leaves nothing open; runner, cleaner and waiting requests end |
| Path wildcard mirror (`request_path_unsafe.go`) | none | `getPathValues` | segments without a value between those that have one; private layout of `http.Request` | each wildcard's name gets its own value; no index is out of range |
| Logging (`response.go`) | none | `MarshalZerologObject` | none | formatting only |

Interactions: the mux calls the closure of `Router.Handle`, which makes a fresh
`Context` and calls the chain; parsers are frames of the chain and report errors
by `NewResponse`; `writeResponse` runs when the chain has returned and may call
user code again (encoder, stream body, takeover body); `StreamWriter` is under
all of it, from `ServeHTTP` to the stream body; the application's context is the
base context of every request and ends the bindings that are waiting.  The
lifecycle controller runs `runner` and calls `cleaner`, which meet in
`http.Server` only.

## 2. Modules

| Module | Models |
|---|---|
| `StreamWriter` | `stream_writer.go`, and what `net/http` does with a status, bytes and a takeover (external) |
| `ResponseContext` (extends `StreamWriter`) | the state of a `Context` and every method of `Context` and `Response` |
| `ServeHTTP` (extends `ResponseContext`) | one request from `ServeHTTP` to its log line and `net/http`'s end of it |
| `HttpExchange` | the abstract specification: what the client of one request is promised |
| `MCServeHTTP` | the statuses TLC tries |
| `ServeHTTPProofs` | the theorems about `ServeHTTP` |
| `BodyBind` | one form or JSON body bound under a timeout, with its two goroutines, its client and its timer |
| `BindingContract` | what a bounded binding may return and leave of the body: the interface of `BodyBind` and `RequestBinding` |
| `BoundedBinding` | the abstract specification of `BodyBind`: one binding as one step within the contract |
| `BodyBindProofs` | the theorems about `BodyBind` |
| `Charset` | `charsetReader` over a body that arrives in pieces |
| `MCCharset` | the bytes TLC tries |
| `CharsetProofs` | the theorems about `Charset` |
| `RequestBinding` | a chain of parsers over one request: `requestHandler` and `requestTags.parse` |
| `MCRequestBinding` | the request types and requests TLC tries |
| `RequestBindingProofs` | the theorems about `RequestBinding` |
| `GoSlices` | Go's slices: arrays on a heap, and `append` |
| `RequestTags` | `createTags`, its mutex and cache, and the walk of `checkRecursively` |
| `TagCache` | the abstract specification of `RequestTags`: a cache that is filled once per type |
| `MCRequestTags` | the types TLC tries |
| `RequestTagsProofs` | the theorems about `RequestTags` |
| `Router` | `Group`, `WithLogger`, `Handle` and its log line, and the dispatcher, on slices that share arrays |
| `Routing` | the abstract specification of `Router`: chains are values |
| `RouterProofs` | the theorems about `Router` and `GoSlices` |
| `ServerLifecycle` | runner and cleaner against `http.Server`, connections and requests under way |
| `ServerLifecycleProofs` | the theorems about `ServerLifecycle` |
| `PathValues` | `getPathValues` over the patterns and matches of `net/http` |
| `MCPathValues` | the symmetry TLC uses |
| `PathValuesProofs` | the theorems about `PathValues` |

### ServeHTTP, ResponseContext, StreamWriter

All of a request runs on one goroutine.  `pc` is its program counter: `chain`
while frames of the chain are on the stack (`depth` of them; frame `i` is
middleware `i`, the last one the handler), `commit` inside `writeResponse` before
the header is written, `write` before the one `Write` of a buffered body, `stream`
and `takeover` inside a body, `closing` at the deferred `conn.Close`, `recover`
and `log` at the two deferred functions of `ServeHTTP`.

User code is the nondeterminism: in `chain`, `stream` and `takeover` it makes any
call of `Context` or of any handle it was ever given, calls `next`, panics,
recovers, and returns, in any order.  The connection is the other one: a `Write`
may write nothing, fail, or both, and a takeover may be refused.

The data is abstracted to what the properties tell apart.  A body is its kind
(`nil`, bytes, string, stream, hijack, and three kinds of JSON values: one that
encodes, one whose encoder returns an error, one whose encoder panics).  The
header map is its Content-Type and the set `gens` of tickets under which a header
was set, so a header that outlives its response is visible.  A handle is its ticket;
`handles` is every handle ever given out, since user code may keep them all.
`Response.check` is `Check`; `Header` is `SetHeader`, which has no check, as in the
code.  The three bodies of `DirectBodies` stand for the setters of `response.go`.

`wireStatus`, `wireHeader`, `wireBytes` and `hijacked` are what reached the
connection; `swStatus`, `swBytes` and `swWriter` are the fields of `StreamWriter`.
`net/http` keeps the first final status, drops later ones, and writes a 200 by
itself when a handler returns without one: `NetWriteHeader`, `NetWrite` and
`NetFinish`, marked external.

### HttpExchange

What a client sees: one final status, then bytes, then an end, which is either
complete, aborted, or a takeover after which HTTP bytes stop.  Its liveness is
that the end is reached.  The refinement mapping is in `ServeHTTP`: the status and
bytes are the wire's, the mode follows `hijacked`, `wireStatus` and `outcome`.

### BodyBind

The caller's goroutine goes `entry`, `select`, `closing` (inside `Body.Close`),
`returned`, then `handler` or `rejected` (what `requestHandler` does with the
result).  The binder's goes `charset`, `peek`, `read`, `tail`, `bind`, `send`,
`gone`; `reading` is its being inside `Body.Read`.  The channel `done` has room for
one answer.  The client sends `Chunks` chunks and may stall or leave after any of
them; the timer and the context may fire at any point.

`req.closeInterrupts` is the one premise about the body that the code does not
decide, and is chosen with the request.  TRUE is a body whose `Close` ends a waiting
`Read`, which is what the comment of `bindFullTextBodyWithTimeout` assumes and what
the body of the repository's own timeout tests does.  FALSE is a body whose `Close`
waits for the `Read` to end, which is how the server-side body of `net/http`
behaves: both take one mutex.

A `Read` that meets the closed body may end with an error or like an end of file,
so `got = Chunks \/ closed` is what a binder knows when its reader has ended.

### BindingContract, BoundedBinding

A chain of parsers binds one body several times.  `RequestBinding` takes a binding
as one step, which is right only if the goroutines of `BodyBind` cannot do more
than that step says.  `Allowed` states once which outcomes and remains of the body
go together; `BodyBind` refines `BoundedBinding`, which makes one allowed step
(`ImplementsBinding`), and the steps of `RequestBinding` stay within `Allowed`
(theorem `ContractCorrect`) and leave nothing of it out (`BindingsCoverContract`).

### Charset

`body` is what arrives; a `Read` takes any piece of it, and its end or its failure
comes with the last piece or after it.  `fetched` and `consumed` are the two ends of
`bufio.Reader`'s buffer, `err` is the error that it holds back.  `Peek` fills until
there are three bytes or an error; `Detect` is the switch of `charsetReader`.  Peek's
error is dropped there, and by `bufio` as well, so that a later `Read` has to meet
the end again: `err' = "none"`.  That the body ends or fails a second time is what
`net/http`'s does.

### RequestBinding

All parsers of a chain run on the request's goroutine.  `depth` invocations are on
the stack, all but the innermost inside their typed user code, so that one `step`
tells where the request is: `defaults`, the four keyed sources in the order of
`parse`, `body`, `validate`, `user`.  `After` is that order.  `FailWith` is the
early return: `NewResponse` with the status, and the caller, the user code of the
layer above, goes on.  User code calls the next layer as often as it likes,
answers, panics and recovers.

A request is what `parse` looks at: whether the method has a body, the length
(`zero`, `unknown`, `known`, `tooLarge`), the media type, whether the charset and
the boundary are usable, and which keyed sources it has.  A request type is the
set of sources its tags name and the media types of its body tag, which is what
`createTags` compiles.  What is done with a value is abstracted to the names of the
steps in `applied`, its defaults, the sources bound and its validation, of which a
step that is skipped leaves no trace; what a step of the body left in it is `body`:
nothing, the content a bounded binder found, or the stream of a binder.  A source of
the request may always fail to convert, and defaults and validation may fail.
`TypedCodeSeesSources` compares both with what the request type and the request call
for (`Wanted`, `BodyOf`): a failed body binding or validation that let typed code run
would break it as a failed source would.

`body` is the one body of the request: `whole`, `part` or `drained` by what was
read with the outcomes
of `BindingContract`: a value (`BindFully`), a rejected one, a failed read, a
timeout or cancellation that leaves the binder behind, a panic.  That a `Read`
beginning after the `Close` fails is what `net/http`'s HTTP/1 body does.

### RequestTags, TagCache

Each of `Goroutines` builds one parser for some type of `RequestTypes`.  A type is
the tree of its fields, a function from index paths to fields: the fields of a struct
are numbered from one without gaps, and those of an embedded struct are one index
below it (`TypesAssumption`).  `checkRecursively` is a stack of structs in `walk`,
each with its path, the slice the code has for this path, and the index of its next
field; its eight similar blocks are one operator, `Rejects`, with what distinguishes
them (`WholeType`, and the rule that `multipart` and `body` are always whole) as data.
One field is one step: the blocks of different sources touch different fields of
`requestTags`.

What a type declares is stated without a walk: `Visible` are the exported fields of
the type and of the structs embedded in it, `KeepsRules` and `WellFormed` the rules of
the package doc for a set of fields and for the type, `Declared` the tags that a set of
fields stands for.

Paths are Go slices (`GoSlices`): an array of a heap and a length, so that `append` writes in
place when there is room (`Extend`) and the copy the code makes (`Copy`) is a real
copy.  The mutant `ExtendShared` shows that the model would notice its absence.

The panic of an ill-formed type unwinds through the deferred `Unlock`.

`TagCache` has no lock and no walk: a call waits, may fill the cache with what its type
declares if this is not there yet, and is answered from the cache, or refused if its
type is not well-formed.  The mapping takes the answers and the refusals from `pc`.

### Router, Routing

A router is a slice and whether it logs.  The first array of the heap is the
application's own, of which it passes any prefix to `Group` and which it may
overwrite at any time (`Overwrite`).  `Group` is the two `append`s of the code, each
of which may leave any room in a new array.  A route keeps the router it was
registered with, as the closure of `Handle` does, and a request reads the array when
it gets there (`Dispatch`), once for each call of `next`.  `Routing` has no arrays:
the refinement mapping takes each slice to the elements it has now, so that a write
that reached a shared array would be a step `Routing` does not have.

### ServerLifecycle

`runner` follows `ListenAndServe`: the check of `inShutdown`, listening, the second
check when the listener is tracked, serving, and the runner's handling of the error.
`cleaner` follows `Shutdown`: the flag, the listeners, the wait for the group of
`Serve` calls, then the poll of the connections until they are closed or the
context of the cleanup ends.  A connection is `new`, `idle`, `active`, `hijacked`
(which `http.Server` forgets), `late` (closed as idle by `Shutdown` just when it had
read a request, which it serves all the same), or `closed`.  A handler works, waits
for its context, or hangs.  `http.Server` and the controller are external: the
module states what the calls in `server.go` rely on.

### PathValues

The loop of `getPathValues`, one segment in each step.  `matches` is what `net/http`
recorded, a value for each named wildcard in the order of the pattern; a value is
known by the segment it was matched at, so that the wrong one is told from the right
one.  Literals may have the name of a wildcard, and a pattern may end with the
nameless wildcard of a trailing slash.

## 3. Runs

| Run | Configuration | Shows |
|---|---|---|
| `serve_safety` | 2 middlewares, 7 calls of user code, statuses at both bounds | the safety properties of the request flow; it implements `HttpExchange`, liveness included |
| `serve_stale_header` | the same statuses, fewer calls | violation: see section 6 |
| `body_timeout` | 3 chunks, both kinds of `Close`, any client | safety, the refinement of `BoundedBinding`, and that both goroutines end unless a `Read` can wait for ever |
| `body_stalled` | the same | violation: see section 6 |
| `binding_chain` | 3 layers, 6 request types, 12 requests, 4 calls of user code | the safety properties of the parser chain, and that its bindings cover the contract |
| `binding_twice` | 2 layers, 2 calls | violation: see section 6 |
| `tags_rules` | 1 goroutine, every struct of at most 3 of 19 fields, and a deep one | the walk compiles what the type declares, and panics for ill-formed types only |
| `tags_cache` | 3 goroutines, 5 types | one compilation per type, that every call ends, and the refinement of `TagCache` |
| `router_chains` | 4 routers, chains of 2, 2 middlewares one of which has no name, 1 request | chains never change, the log is the chain, `Router` implements `Routing` |
| `server_shutdown` | 2 connections, 1 cleaner, all 3 kinds of handlers | only real failures are reported, a clean shutdown is clean, and runner, cleaner and waiting requests end |
| `charset_marks` | every body of at most 4 of 6 bytes, in any pieces | the decoder is the right one, and no broken body counts as complete |
| `path_values` | every pattern of at most 4 segments over 3 names | each name has its own value and the values never run out |

Bounds.  `MaxOps` bounds the calls user code makes in one request and is the only
bound on the request flow.  Seven is enough for a response by each of two
middlewares and the handler, a setter through a handle that has gone stale in
between, a stream body that takes the connection over, and a panic with its
recovery.  The statuses are the lowest and highest that `NewResponse` accepts and
one beyond each bound; the stream body adds an informational status and a second
final one.  Three chunks are enough for the byte-order mark to need more than one
`Read`, for a JSON value to end inside the body, and for a tail to follow it.
Three layers are enough for a middleware that calls `next` again after the parser
below it, and one below that, have both failed or succeeded; four calls are those
of the two middlewares, a second `next`, and an answer or a use of a stream.  The
request types take every keyed source, each kind of body and mixes of them; the
requests differ from a plain one in each thing that `parse` looks at.  Three fields
are enough for two tags of one source in either order with a struct between them,
and the deep type reaches the fourth level, where the capacity that Go gives a
slice of three is four, so that siblings do share an array.  Three goroutines are
one that compiles, one that waits and one that comes later.  `tags_rules` has no
second goroutine because the mutex lets only one walk at a time (`CompilesOnce`).
Four routers are a root, a group, and two siblings of that group, the case in which
an array could be shared; a room of one is where the second sibling would write.
Two connections let a takeover or a request that hangs stand beside one that ends;
the application has one cleaner, and the proofs hold for any number.  Four bytes are
the longest mark and one byte behind it, four segments two wildcards with a literal
between them and a trailing slash.
Deadlock is checked in every run: a finished request, or parser, stutters by an
action of its own.

Fairness.  In `ServeHTTP` the request's goroutine keeps running
(`WF(Framework)`) and user code returns or panics in the end
(`WF(UserReturns)`); a handler that blocks for ever blocks its request in the code
too.  In `BodyBind` both goroutines are scheduled and a timer that is not stopped
fires; nothing is assumed of the client, and `GoroutinesEnd` is about those that
have sent everything or left, or whose body's `Close` interrupts.  In
`ServerLifecycle` the goroutines run, a handler that can end does, and
`http.Server`'s timeouts fire; a cleaner that polls again and again does in the end
take a context that has expired (strong fairness: Go's `select` picks among ready
arms at random).  Nothing need start, stop, cancel or expire.  In `RequestTags` each goroutine keeps running;
weak fairness is enough for the mutex because each goroutine takes it once.

## 4. Proofs

Every inductive invariant is called `IInv`, and the theorem about it
`InvariantCorrect`; the other theorems follow from it.

TLAPS proves, for every chain length, status set and number of calls, that the
inductive invariant `IInv` of `ServeHTTP` holds, and from it each of the safety
properties of `serve_safety` (`TypeCorrect`, `AccountingCorrect`,
`CommitCorrect`, `PendingCorrect`, `HandlesCorrect`, `TakeoverCorrect`,
`LogCorrect`, `WriteCorrect`, `SilenceCorrect`, `ReplyCorrect`) and the refinement `Spec => Exchange!Safety` (`ExchangeSafety`).
The properties are not inductive: that a request whose recovery finds no status
may be given a 500 needs to know that `recover` is reached only with a status, a
takeover or a panic (`WireInv`); that a stale handle stays stale needs tickets to
bound all handles (`HandlesBounded`); that the headers sent are the last
response's needs to know, all through the chain, under which ticket the headers
of the pending response were set (`ContextInv`).

For `BodyBind`, with any number of chunks and either kind of `Close`, `IInv` is
proved inductive and gives `SuccessCorrect`, `CompleteCorrect`, `AnswerCorrect`,
`StableCorrect`, and the refinement of `BoundedBinding` (`BindingCorrect`).  The step that carries the argument is that a status that is an
answer was taken from the channel, so its binder has sent and is gone, while a 408
never reaches the handler.

For `RequestBinding`, with any number of layers, any request types and requests and
any number of calls, `BytesCorrect` and `StrayCorrect` follow from `BodyInv`: a
binding that found bytes leaves the body drained or closed, a binder that was left
behind leaves it closed, and no step makes a closed body readable or a drained one
whole (`BodySteps`).  `SourcesCorrect` follows from `SourcesInv`: an invocation
that does not panic has done with its value exactly the wanted steps among those it has
passed, in their order; its body fields hold the body of the binder for its media type
from the body step on, and nothing before (`DoneSources`, `SkipSources`, `BinderBinds`);
and an invocation in which a step fails or panics leaves the stack, so that it never
reaches its typed code.
`ContractCorrect` says that each bounded binding is one that `BindingContract`
allows.  
For `RequestTags`, with any goroutines and any types,
`CompilesOnceCorrect` is inductive, and `AgreementCorrect` needs `ResultInv`: a
goroutine that has its tags, but may still hold the mutex, has those of the cache,
which keeps what it has because a type is stored only while it is absent.

That these tags are the declared ones (`DeclarationCorrect`) is proved for trees of any
depth and width, by the invariant `CompilerInv` of `RequestTagsProofs`:

- `StackInv` and `Passed`: the stack says which fields the walk has passed, namely
  those that no frame is ahead of (`AheadOf`).  Moving on passes the field the innermost
  frame is at, entering a struct passes nothing, leaving one passes nothing because no
  field was left (`PassField`, `EnterStruct`, `LeaveEmpty`); at first nothing is passed,
  and at the end all visible fields are (`BeginningAndEnd`).
- `Summarises`: the tags are those which the passed fields declare, and these keep the
  rules.  One more accepted field extends both (`AcceptedKeepsRules`,
  `AcceptedDeclares`); a refused one breaks a rule together with those before it, so
  that the type is ill-formed whatever comes after (`RefusedBreaksRules`).
- `SlicesInv`: each frame's slice holds its path, and the slices of the tags lie in
  arrays that no frame appends to.  This is where the copy at `request_tags.go:119` is
  needed: without it the invariant fails at the next sibling (`CopiedSlices`).
- `CacheInv` and `TypesInv`: what is cached is what its type declares, and who panics
  does so for a type that is ill-formed.

The refinement of `TagCache` (`TagCacheCorrect`) follows: the end of a walk fills the
cache with what the type declares, an `Unlock` answers from the cache or refuses, and
every other step is one of nobody.

Of the liveness properties the part that is an invariant is proved.  `MutexCorrect`:
the mutex is held only by a call that has a step to take, also one that panics;
`WalkEndsCorrect`: each step of a walk panics or leaves fewer fields, or as many and
fewer structs, so that a walk over finitely many fields ends.  `NoVainWaitCorrect`: a
binder's send never blocks, and the caller's select never waits for an answer that was
lost.  `ListenerCorrect`: a cleaner that waits for the runner has closed its listener.

The variants behind the others are action properties, proved from the same invariants:

- `RunnerReturns` and `CleanersReturn`: runner and cleaners never go back, and a cleaner
  polls again only because a connection is new or serves a request (`EndsCorrect`); after
  a shutdown began each step of a connection brings it closer to its end, and once the
  runner has stopped serving there are no more of them (`DrainCorrect`).
- `WaitersEnd`: a canceled application stays canceled, and a handler that waits keeps
  its connection, taken over or not, until it ends (`WaitersCorrect`).
- `GoroutinesEnd`: each step of the caller or the binder leaves that goroutine less to do
  and the other as much as before, and client, timer and context take nothing back
  (`AdvanceCorrect`, with `BinderLeft` counting the chunks still to be read, the places
  still to be reached and the `Read` it is in); a `Read` that cannot end waits for a
  client that is still there, has more to send, and on a body that is open
  (`ReadsCorrect`).
- The liveness half of `ImplementsExchange`: only user code stays at a stage of its
  request, and each return and each step of the package comes to a later stage, or leaves
  one function of the chain (`AdvanceCorrect`); `writeResponse` is never without a case to
  take (`WriteCorrect`).
- An invocation of a parser passes its steps in order, each once, or is left
  (`AdvanceCorrect` of `RequestBindingProofs`).

What is left to fairness is that a goroutine with a step to take is scheduled, and to
TLC the passage from variant and fairness to `~>`.

`BindingsCoverContract` says with ENABLED that `RequestBinding` offers each outcome the
contract allows.  `CoverCorrect` proves the same with the successor written out: for
each such outcome `Successor` gives every variable its next value, and that step is one
of `Body`.

For `Router`, with any middlewares, patterns, requests and capacities, the invariant
is that every slice of a router or a route lies in an array that `Group` made and is
completely written (`SliceInv`), and no step writes into the used part of such an
array: the only writes in place are to the application's own array, which no router
keeps, and the second `append` of a `Group`, whose array nobody else has yet.  From
this follow `ChainsCorrect`, `LogCorrect`, `RunsCorrect` and the refinement
`RoutingCorrect`.

For `ServerLifecycle`, with any connections, cleaners and handlers, the argument is
that a cleaner raises `inShutdown` before it waits for the runner to stop serving, and
a runner that starts later sees the flag; so no connection is new after that wait
(`ShutdownInv`), and those that are left can only end (`CleanCorrect`).  A failure is
reported exactly if `err` is not the one of a shutdown, which is so exactly if serving
failed while no shutdown was under way (`RunnerInv`, `AlarmsCorrect`).

For `Charset`, with bodies of any length and any bytes, a mark of the buffer is a mark
of the whole body as soon as the buffer holds three bytes or all there are
(`StartsBegins`), which gives `DecoderCorrect`; `CompleteCorrect` needs `ReaderInv`,
where the body is when an error has been seen.  For `PathValues`, with patterns of any
length, the index is the number of named wildcards before the segment (`LoopInv`), so
that it is inside of the matches at every named wildcard (`ValuesCorrect`).

The assumptions are those the modules state: bounds are natural numbers, `Chunks`
and `NumLayers` positive ones; the names that can be resolved are middlewares, the
marks are bytes, the empty name is no name, the fields of a type are a tree.  Only model-checked: every liveness
property as such (`GoroutinesEnd`, `CallsEnd`, `RunnerReturns`, `CleanersReturn`,
`WaitersEnd`, and the liveness half of `ImplementsExchange`), of which the variants above
are proved, and `BindingsCoverContract` in the form with ENABLED, because liveness under
fairness and ENABLED are beyond the prover.  The action properties that state the
variants, `ReadsWaitForClient` and `HandlerParsedStable`, which follows from
`HandlerOwnsParsed`, are proved and in no run.

## 5. Not modelled

- That the structures `request_path_unsafe.go` mirrors lie in memory where
  `net/http` has them: a layout, which a test of the repository checks.
- The decoders themselves, and the lookup of a charset's name.
- What `ApplyDefaults`, `BindStructWithTag` and `ValidateStruct` of the library do
  with a value: they succeed or fail.
- The connection deadlines of `StreamWriter`: they pass through to `net/http` and
  change no state of the package; a `Read` or `Write` may fail at any time.
- What `Body.Close` of `net/http` may itself still read of a body, within its own bound;
  in `BodyBind` a `Close` reads nothing.
- The error that closing a listener gives to `Shutdown`: `CloseListener` always succeeds.
- A nil logger, with which `Handle` does not log a registration (`router.go:80`).
- Formatting of log events; the contents of headers, cookies and bodies.
- The mux's own routing, beyond a route being found or not and equal patterns being
  a conflict.
- `http.Server` and the lifecycle controller beyond what `server.go` calls: a
  controller that starts a runner twice, for example.
- Concurrent use of one `Context` or `StreamWriter` by several goroutines, which
  the package does not support.

## 6. Findings and observations

- `binding_twice`: a test says that of two parsers that consume the body the second
  "hits EOF and fails".  It does for JSON; a second form parser reads nothing,
  parses the empty string and succeeds with defaults (`request_body.go:134-138`).
- `serve_stale_header`: `Response.Header` (`response.go:46`) hands out the header
  map without the check of the other methods.  After `NewResponse` and then
  `Hijack`, the first handle still writes headers, although the doc of `Hijack`
  says that using it panics.
- `body_stalled`: with `net/http`'s own body, `Body.Close` waits for the pending
  `Read`, and the server sets no read timeout, so a client that stalls inside its
  announced body holds the caller past the documented five seconds.  The
  repository's timeout tests use a body whose `Close` unblocks `Read`, the case of
  `req.closeInterrupts`, in which both goroutines do end (`GoroutinesEnd`).
- The last arm of `writeResponse`, for an unsupported body type (`response.go:221`), is
  dead: setters, `NewResponse` and `Hijack` change status, body and marshaller together,
  so that each body meets its case (`WriteFindsCase`).
- `writeResponse` does not clear the status for a stream body: inside the body
  `Context.Response` still reports a response.  The setters it allows have no
  effect any more, and no property depends on it.
- `Handle` logs "Registering route" before `HandleFunc`, so the log has a line for a
  route whose registration then panics (`HandleConflict`).  `LogTellsChain`
  therefore asks for some line that is true.
- `Shutdown` does not wait for takeovers, nor for a request that was read from an idle
  connection just as `Shutdown` closed it (`late`): `CleanMeansClosed` excepts both,
  and only the application's context ends the former (`WaitersEnd`).
- `charsetReader` drops the error of `Peek`, after which `bufio.Reader` has forgotten
  it: that a broken body is noticed rests on the body failing again.

## 7. Plan

1. Done: the request flow and its abstract exchange, the bounded body binding, the
   parser chain, the tag compiler and cache, and proofs about each.
2. Done: `Router` and its abstract `Routing`, with the refinement proved.
3. Done: `ServerLifecycle`, with its safety proved.
4. Done: `PathValues` and `Charset`, with their properties proved.
5. Done: `BoundedBinding`, the contract between `BodyBind` and `RequestBinding`,
   proved on both sides.
6. Done: the compiler proved to produce what a type declares; `TagCache` and the
   refinement; the invariants behind `CallsEnd`, `GoroutinesEnd` and `RunnerReturns`.
7. Done: the variants behind `WaitersEnd`, `CleanersReturn`, `RunnerReturns`,
   `GoroutinesEnd` and the end of a request, proved as action properties; the cover of the
   contract proved without ENABLED; the unsupported-body arm of `writeResponse` shown dead.
