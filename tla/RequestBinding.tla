---------------------------- MODULE RequestBinding ----------------------------
(***************************************************************************)
(* A chain of parsers over one request: MiddlewareParser and RequestParser *)
(* (request.go) with requestHandler and requestTags.parse                  *)
(* (request_bind.go).  Each layer applies defaults, binds its sources in   *)
(* order, binds at most one body, validates, and then runs typed user      *)
(* code, which may call the next layer any number of times.                *)
(*                                                                         *)
(* All layers share the one request body.  The bounded form and JSON       *)
(* bindings are those of BodyBind, here one step each with the outcomes    *)
(* that BodyBind allows.                                                   *)
(***************************************************************************)
EXTENDS BindingContract, Sequences

CONSTANTS
    NumLayers,  \* parsers on the chain, the handler's last
    Layers,     \* what a parser's request type may ask for
    Requests,   \* the requests that come in
    MaxCalls    \* bound: calls of typed user code in one request

ASSUME NumLayersAssumption == NumLayers \in Nat \ {0}
ASSUME MaxCallsAssumption == MaxCalls \in Nat

VARIABLES
    req,        \* the request
    layers,     \* the parsers of the route
    depth,      \* invocations on the stack; 0 when the chain has returned
    step,       \* where the innermost one is; the others are in user code
    values,     \* the value each invocation on the stack has parsed
    body,       \* the request body: whole, part, drained, or closed (or broken)
    status,     \* the pending response's status, or 0
    bound,      \* what each successful bounded binding found, in order
    abandoned,  \* a binder was left behind by a timeout or a cancellation
    calls       \* calls made by user code

reqVars == <<req, layers>>
vars == <<reqVars, depth, step, values, body, status, bound, abandoned, calls>>

-----------------------------------------------------------------------------

Keyed       == {"header", "cookie", "query", "url"}
BodySources == {"form", "json", "multipart", "body"}

\* The order in which requestHandler and parse go through an invocation.
After == [defaults |-> "header", header |-> "cookie", cookie |-> "query",
          query |-> "url", url |-> "body", body |-> "validate",
          validate |-> "user"]

\* Where each step of an invocation stands in that order.
Position == [defaults |-> 0, header |-> 1, cookie |-> 2, query |-> 3, url |-> 4,
             body |-> 5, validate |-> 6, user |-> 7, panicking |-> 7]

Flags   == layers[depth].flags
Accepts == layers[depth].accepts

At(s) == depth > 0 /\ step = s

\* A value that nothing has been done with: the steps of After that it has been
\* through, a skipped one left out, and what its body fields hold.
Fresh == [applied |-> <<>>, body |-> "nothing"]

\* The innermost value when the present step has succeeded with it and left b in
\* its body fields.
Done(b) == [applied |-> Append(values[depth].applied, step), body |-> b]

\* The failure of an invocation: an empty response, and the caller goes on.
FailWith(code) ==
    /\ status' = code
    /\ depth' = depth - 1 /\ step' = "user"
    /\ values' = SubSeq(values, 1, depth - 1)

Succeed(value) ==
    /\ values' = [values EXCEPT ![depth] = value]
    /\ step' = After[step]
    /\ UNCHANGED <<depth, status>>

\* A parser's closure is called: a fresh value, a fresh pass.
Enter(i) ==
    /\ depth' = i /\ step' = "defaults"
    /\ values' = Append(values, Fresh)

-----------------------------------------------------------------------------
(* requestHandler and the sources with keys.                               *)

ApplyDefaults ==
    /\ At("defaults")
    /\ \/ Succeed(Done(values[depth].body))
       \/ FailWith(500)
    /\ UNCHANGED <<reqVars, body, bound, abandoned, calls>>

\* A source that is not asked for, or has nothing in this request, is skipped.
SkipSource(s) ==
    /\ At(s)
    /\ s \notin Flags \/ s \notin req.present
    /\ Succeed(values[depth])
    /\ UNCHANGED <<reqVars, body, bound, abandoned, calls>>

BindSource(s) ==
    /\ At(s)
    /\ s \in Flags /\ s \in req.present
    /\ \/ Succeed(Done(values[depth].body))
       \/ FailWith(400)
    /\ UNCHANGED <<reqVars, body, bound, abandoned, calls>>

Validate ==
    /\ At("validate")
    /\ \/ Succeed(Done(values[depth].body))
       \/ FailWith(400)
    /\ UNCHANGED <<reqVars, body, bound, abandoned, calls>>

-----------------------------------------------------------------------------
(* The selection of one body binder.                                       *)

\* Layer i asks for a body, and the request may have one.
TakesBody(i) ==
    /\ layers[i].flags \cap BodySources # {}
    /\ req.bodyMethod /\ req.length # "zero"

WantsBody == At("body") /\ TakesBody(depth)

SkipBody ==
    /\ At("body") /\ ~WantsBody
    /\ Succeed(values[depth])
    /\ UNCHANGED <<reqVars, body, bound, abandoned, calls>>

\* The binder that takes this media type; the first of these that applies.
Binder ==
    IF req.type \in Flags \cap {"form", "json", "multipart"} THEN req.type
    ELSE IF "body" \in Flags /\ (Accepts = {} \/ req.type \in Accepts)
    THEN "body" ELSE "unsupported"

HasType == req.type \notin {"missing", "invalid"}

\* Mutant of RefuseType: a body without a Content-Type is skipped.
RefuseKnownTypes ==
    /\ WantsBody
    /\ \/ req.type = "missing" /\ Succeed(values[depth])
       \/ req.type = "invalid" /\ FailWith(400)
       \/ HasType /\ Binder = "unsupported" /\ FailWith(415)
    /\ UNCHANGED <<reqVars, body, bound, abandoned, calls>>

RefuseType ==
    /\ WantsBody
    /\ \/ req.type = "missing" /\ FailWith(415)
       \/ req.type = "invalid" /\ FailWith(400)
       \/ HasType /\ Binder = "unsupported" /\ FailWith(415)
    /\ UNCHANGED <<reqVars, body, bound, abandoned, calls>>

\* Streams are handed out unread: multipart with a boundary, and raw bodies.
BindStream ==
    /\ WantsBody /\ HasType /\ Binder \in {"multipart", "body"}
    /\ IF Binder = "multipart" /\ ~req.boundary
       THEN FailWith(400)
       ELSE Succeed(Done(Binder))
    /\ UNCHANGED <<reqVars, body, bound, abandoned, calls>>

-----------------------------------------------------------------------------
(* The bounded bindings: bindFullTextBody as BodyBind has it.              *)

Bounded == WantsBody /\ HasType /\ Binder \in {"form", "json"}

\* The lengths and charsets with which the binder's goroutine reads at all.
Reading == Bounded /\ req.length = "known" /\ req.charset

RefuseLength ==
    /\ Bounded /\ req.length # "known"
    /\ FailWith(IF req.length = "unknown" THEN 411 ELSE 413)
    /\ UNCHANGED <<reqVars, body, bound, abandoned, calls>>

\* The charset is refused before the body is read.
RefuseCharset ==
    /\ Bounded /\ req.length = "known" /\ ~req.charset
    /\ FailWith(415)
    /\ UNCHANGED <<reqVars, body, bound, abandoned, calls>>

\* What a reader of the rest of the body finds; net/http fails a Read that
\* begins after a Close or after an error.
Found == [whole |-> "whole", part |-> "rest", drained |-> "empty",
          closed |-> "error"][body]

\* Mutant of BindFully: the body is buffered, and the next parser reads it again.
BindFullyReplayed ==
    /\ Reading
    /\ Found \in {"whole", "rest"} \/ (Binder = "form" /\ Found = "empty")
    /\ Succeed(Done(Found))
    /\ bound' = Append(bound, Found)
    /\ UNCHANGED <<reqVars, body, abandoned, calls>>

\* A form parses whatever is left, nothing included; a JSON value has to be
\* complete, which an empty rest is not.
BindFully ==
    /\ Reading
    /\ Found \in {"whole", "rest"} \/ (Binder = "form" /\ Found = "empty")
    /\ Succeed(Done(Found))
    /\ body' = "drained"
    /\ bound' = Append(bound, Found)
    /\ UNCHANGED <<reqVars, abandoned, calls>>

\* A form is read to its end before it is parsed, a JSON value is not.
BindMalformed ==
    /\ Reading
    /\ Found \in {"whole", "rest"} \/ (Binder = "json" /\ Found = "empty")
    /\ FailWith(400)
    /\ body' \in (IF Binder = "form" THEN {"drained"} ELSE LeftOf(body))
    /\ UNCHANGED <<reqVars, bound, abandoned, calls>>

\* The client is gone, or the body has been closed.
BindReadFails ==
    /\ Reading
    /\ Found # "empty"
    /\ FailWith(IF Binder = "form" THEN 500 ELSE 400)
    /\ body' = "closed"
    /\ UNCHANGED <<reqVars, bound, abandoned, calls>>

\* Mutant of BindAbandoned: the body is not closed.
BindAbandonedOpen ==
    /\ Bounded /\ req.length = "known"
    /\ FailWith(408)
    /\ abandoned' = TRUE
    /\ UNCHANGED <<reqVars, body, bound, calls>>

\* The timer or the context: the binder is left behind with a closed body.
BindAbandoned ==
    /\ Bounded /\ req.length = "known"
    /\ FailWith(408)
    /\ body' = "closed"
    /\ abandoned' = TRUE
    /\ UNCHANGED <<reqVars, bound, calls>>

\* A panic of the binder is raised again in the parser.
BinderPanics ==
    /\ Reading /\ Found # "error"
    /\ body' \in LeftOf(body)
    /\ step' = "panicking"
    /\ UNCHANGED <<reqVars, depth, values, status, bound, abandoned, calls>>

-----------------------------------------------------------------------------
(* Typed user code, and what it may do with its value.                     *)

UserCall ==
    /\ At("user")
    /\ calls < MaxCalls /\ calls' = calls + 1
    /\ UNCHANGED <<reqVars, bound, abandoned>>

\* Mutant of CallNext: the dispatcher's bound is off by one.
CallNextTooFar ==
    /\ UserCall /\ depth <= NumLayers
    /\ Enter(depth + 1)
    /\ UNCHANGED <<body, status>>

CallNext ==
    /\ UserCall /\ depth < NumLayers
    /\ Enter(depth + 1)
    /\ UNCHANGED <<body, status>>

Respond ==
    /\ UserCall /\ status' = 200
    /\ UNCHANGED <<depth, step, values, body>>

\* Only a layer that was given the stream reads it, and only a raw one is closed.
UseStream ==
    /\ UserCall
    /\ \/ values[depth].body \in {"multipart", "body"} /\ body' \in LeftOf(body)
       \/ values[depth].body = "body" /\ body' = "closed"
    /\ UNCHANGED <<depth, step, values, status>>

Panic ==
    /\ UserCall /\ step' = "panicking"
    /\ UNCHANGED <<depth, values, body, status>>

Return ==
    /\ At("user")
    /\ depth' = depth - 1
    /\ values' = SubSeq(values, 1, depth - 1)
    /\ UNCHANGED <<reqVars, step, body, status, bound, abandoned, calls>>

\* A panic leaves the innermost invocation; the user code around it may recover.
Unwind ==
    /\ At("panicking")
    /\ depth' = depth - 1
    /\ values' = SubSeq(values, 1, depth - 1)
    /\ step' \in (IF depth > 1 THEN {"panicking", "user"} ELSE {"panicking"})
    /\ UNCHANGED <<reqVars, body, status, bound, abandoned, calls>>

Finished == depth = 0 /\ UNCHANGED vars

-----------------------------------------------------------------------------

Init ==
    /\ req \in Requests
    /\ layers \in [1 .. NumLayers -> Layers]
    /\ depth = 1 /\ step = "defaults" /\ values = <<Fresh>>
    /\ body = "whole" /\ status = 0
    /\ bound = <<>> /\ abandoned = FALSE /\ calls = 0

Sources == \E s \in Keyed : SkipSource(s) \/ BindSource(s)

Body == \/ SkipBody \/ RefuseType \/ BindStream \/ RefuseLength \/ RefuseCharset
        \/ BindFully \/ BindMalformed \/ BindReadFails \/ BindAbandoned \/ BinderPanics

User == CallNext \/ Respond \/ UseStream \/ Panic \/ Return \/ Unwind

Next == ApplyDefaults \/ Sources \/ Body \/ Validate \/ User \/ Finished

Spec == Init /\ [][Next]_vars

-----------------------------------------------------------------------------
(* Properties.                                                             *)

Steps == DOMAIN After \cup {"user", "panicking"}

Values == [applied : Seq(DOMAIN After),
           body : {"nothing", "whole", "rest", "empty", "multipart", "body"}]

\* Every variable keeps to the values its Go counterpart can have.
TypeOK ==
    /\ depth \in 0 .. NumLayers
    /\ step \in Steps
    /\ values \in Seq(Values) /\ Len(values) = depth
    /\ body \in {"whole", "part", "drained", "closed"}
    /\ status \in {0, 200, 400, 408, 411, 413, 415, 500}
    /\ bound \in Seq({"whole", "rest", "empty"})
    /\ abandoned \in BOOLEAN
    /\ calls \in 0 .. MaxCalls

\* An invocation whose typed code is running or has called the next layer.
Running(i) == i < depth \/ step = "user"

\* What has to be done with a value before typed code may run on it: its
\* defaults, the sources that its type asks for and the request has, the body
\* among them, and its validation.
Wanted(i) ==
    {"defaults", "validate"} \cup (Keyed \cap layers[i].flags \cap req.present)
      \cup {s \in {"body"} : TakesBody(i)}

InOrder(steps) ==
    \A j, k \in DOMAIN steps :
        j < k => Position[steps[j]] < Position[steps[k]]

SetOf(steps) == {steps[j] : j \in DOMAIN steps}

\* That b, in the body fields of a value of layer i, is a body of this request
\* bound by the binder for its media type: content, or the stream; only a form
\* may be bound from a body of which nothing is left.
BodyOf(i, b) ==
    /\ b # "nothing"
    /\ b \in {"whole", "rest", "empty"} =>
         /\ req.type \in layers[i].flags \cap {"form", "json"}
         /\ req.length = "known" /\ req.charset
    /\ b = "empty" => req.type = "form"
    /\ b = "multipart" =>
         req.type = "multipart" /\ "multipart" \in layers[i].flags /\ req.boundary
    /\ b = "body" =>
         /\ "body" \in layers[i].flags
         /\ layers[i].accepts = {} \/ req.type \in layers[i].accepts

\* Typed code runs only on a value that in this invocation got its defaults, then
\* every source that its type asks for and the request has, in the order that
\* decides which of two sources wins, and was validated last; its body fields
\* hold the body that its type asks for, or nothing if that cannot be (parse,
\* requestHandler).
TypedCodeSeesSources ==
    \A i \in 1 .. depth :
        Running(i) =>
            /\ SetOf(values[i].applied) = Wanted(i)
            /\ InOrder(values[i].applied)
            /\ IF TakesBody(i) THEN BodyOf(i, values[i].body)
               ELSE values[i].body = "nothing"

\* The bytes of a body reach one bounded binding at most, however often user
\* code runs the parsers below it (MiddlewareParser's comment: a body is not
\* buffered or rewound).
BytesReachOneBinding ==
    \A j, k \in DOMAIN bound :
        bound[j] # "empty" /\ bound[k] # "empty" => j = k

\* Once a binder has been left behind, no other binding reads beside it: none
\* succeeds any more in this request (the Close of the timeout and of the
\* cancellation in bindFullTextBodyWithTimeout).
StrayBinderAlone == [][ abandoned => bound' = bound ]_vars

\* A test says of two parsers that consume the body that "the second consumer
\* hits EOF and fails" (request_middleware_test.go).
SecondConsumerFails == Len(bound) <= 1

\* What the step just taken made of a bounded binding: BodyBind's outcome.
Outcome ==
    IF step' = "panicking" THEN Panicked
    ELSE IF depth' = depth THEN OK ELSE status'

\* A bounded binding, one step here, does no more than BodyBind does with its
\* goroutines (the composition of requestHandler with bindFullTextBody).
BindingsKeepContract ==
    [][ Bounded => Allowed(Binder, body, Outcome, body') ]_vars

\* Nor does it do less: whatever BodyBind may do that has read the body is
\* among the outcomes that the chain is checked with.
BindingsCoverContract ==
    Reading =>
        \A s \in {OK, 400, 408, 500, Panicked}, left \in Rests :
            Allowed(Binder, body, s, left) =>
                ENABLED (Body /\ Outcome = s /\ body' = left)

ParserStep ==
    \/ calls' = calls + 1
    \/ calls' = calls /\ depth' < depth
    \/ calls' = calls /\ depth' = depth /\ Position[step'] > Position[step]

\* Left to itself a chain comes to its end: without a call of typed user code an
\* invocation passes its steps in their order, each once, or is left for the
\* one that called it, also when a step fails or panics half way
\* (requestHandler, parse).
ParsersAdvance == [][ParserStep]_vars

-----------------------------------------------------------------------------
(* The inductive invariant behind the properties of the shared body.       *)

BodyInv ==
    /\ abandoned => body = "closed"
    /\ \A j \in DOMAIN bound : bound[j] # "empty" => body \in {"drained", "closed"}
    /\ BytesReachOneBinding

\* What each invocation on the stack has done with its value up to where it is.
Passed(i) ==
    IF i < depth THEN Wanted(i)
    ELSE {s \in Wanted(i) : Position[s] < Position[step]}

BodyBound(i) ==
    IF "body" \in SetOf(values[i].applied) THEN BodyOf(i, values[i].body)
    ELSE values[i].body = "nothing"

\* An invocation that panics never comes to its typed code again.
SourcesInv ==
    \A i \in 1 .. depth :
        i < depth \/ step # "panicking" =>
            /\ SetOf(values[i].applied) = Passed(i)
            /\ InOrder(values[i].applied)
            /\ BodyBound(i)

IInv == TypeOK /\ BodyInv /\ SourcesInv

=============================================================================
