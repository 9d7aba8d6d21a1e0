------------------------ MODULE RequestBindingProofs ------------------------
(***************************************************************************)
(* Proofs about RequestBinding, for every number of layers, every request  *)
(* and every way of calling them: whatever the parsers of a chain do with  *)
(* the body they share, its bytes reach one bounded binding at most.       *)
(***************************************************************************)
EXTENDS RequestBinding, TLAPS

Bodies == {"whole", "part", "drained", "closed"}
Results == {"whole", "rest", "empty"}

LEMMA InitInvariant == Init => IInv
<1> SUFFICES ASSUME Init
             PROVE  IInv
  OBVIOUS
<1>1. values \in Seq(Values) /\ Len(values) = depth
  BY DEF Init, Fresh, Values
<1>2. depth \in 0 .. NumLayers /\ calls \in 0 .. MaxCalls
  BY NumLayersAssumption, MaxCallsAssumption DEF Init
<1>3. bound \in Seq({"whole", "rest", "empty"}) /\ DOMAIN bound = {}
  BY DEF Init
<1>4. step \in Steps
  BY DEF Init, Steps, After
<1>5. TypeOK
  BY <1>1, <1>2, <1>3, <1>4 DEF Init, TypeOK
<1>6. BodyInv
  BY <1>3 DEF Init, BodyInv, BytesReachOneBinding
<1>7. SourcesInv
  BY DEF Init, SourcesInv, BodyBound, Fresh, SetOf, InOrder, Passed, Wanted, Keyed, Position
<1>8. QED
  BY <1>5, <1>6, <1>7 DEF IInv

-----------------------------------------------------------------------------
(* The three ways in which an invocation goes on.                          *)

\* What TypeOK says of the stack of invocations.
StackOK == /\ depth \in 0 .. NumLayers
           /\ step \in Steps
           /\ values \in Seq(Values) /\ Len(values) = depth

LEMMA StackNow == IInv => StackOK
BY DEF IInv, TypeOK, StackOK

LEMMA PopTypes ==
    ASSUME StackOK, depth > 0,
           depth' = depth - 1, values' = SubSeq(values, 1, depth - 1),
           step' \in Steps
    PROVE  StackOK'
<1>1. depth - 1 \in Nat /\ depth - 1 <= Len(values)
  BY NumLayersAssumption DEF StackOK
<1>2. values' \in Seq(Values) /\ Len(values') = depth - 1
  BY <1>1 DEF StackOK
<1>3. QED
  BY <1>1, <1>2, NumLayersAssumption DEF StackOK

LEMMA FailTypes ==
    ASSUME StackOK, depth > 0, NEW code, FailWith(code)
    PROVE  StackOK'
<1>1. step' \in Steps
  BY DEF FailWith, Steps
<1>2. QED
  BY <1>1, PopTypes DEF FailWith

LEMMA SucceedTypes ==
    ASSUME StackOK, depth > 0, step \in DOMAIN After,
           NEW value \in Values, Succeed(value)
    PROVE  StackOK'
<1>1. After[step] \in Steps
  BY DEF After, Steps
<1>2. values' \in Seq(Values) /\ Len(values') = Len(values)
  BY DEF Succeed, StackOK
<1>3. QED
  BY <1>1, <1>2 DEF Succeed, StackOK

\* The value of the innermost invocation, as it was or with one more step done.
LEMMA InnermostValue ==
    ASSUME StackOK, depth > 0
    PROVE  /\ values[depth] \in Values
           /\ values[depth].body \in Results \cup {"nothing", "multipart", "body"}
           /\ step \in DOMAIN After =>
                \A b \in Results \cup {"nothing", "multipart", "body"} : Done(b) \in Values
<1>1. values[depth] \in Values
  BY NumLayersAssumption DEF StackOK
<1>2. ASSUME step \in DOMAIN After,
             NEW b \in Results \cup {"nothing", "multipart", "body"}
      PROVE  Done(b) \in Values
  <2>1. Append(values[depth].applied, step) \in Seq(DOMAIN After)
    BY <1>1, <1>2 DEF Values
  <2>2. QED
    BY <2>1 DEF Values, Done, Results
<1>3. QED
  BY <1>1, <1>2 DEF Values, Results

-----------------------------------------------------------------------------

LEMMA StackStep ==
    ASSUME IInv, [Next]_vars
    PROVE  StackOK'
<1>0. StackOK
  BY DEF IInv, TypeOK, StackOK
<1>1. CASE ApplyDefaults
  <2>1. depth > 0 /\ step \in DOMAIN After
    BY <1>1 DEF ApplyDefaults, At, After
  <2>2. QED
    BY <1>0, <1>1, <2>1, FailTypes, SucceedTypes, InnermostValue DEF ApplyDefaults
<1>2. CASE Sources
  <2>1. PICK s \in Keyed : SkipSource(s) \/ BindSource(s)
    BY <1>2 DEF Sources
  <2>2. depth > 0 /\ step = s
    BY <2>1 DEF SkipSource, BindSource, At
  <2>3. step \in DOMAIN After
    BY <2>1, <2>2 DEF After, Keyed
  <2>4. CASE SkipSource(s)
    BY <1>0, <2>2, <2>3, <2>4, SucceedTypes, InnermostValue DEF SkipSource
  <2>5. CASE BindSource(s)
    BY <1>0, <2>2, <2>3, <2>5, FailTypes, SucceedTypes, InnermostValue DEF BindSource
  <2>6. QED
    BY <2>1, <2>4, <2>5
<1>3. CASE Validate
  <2>1. depth > 0 /\ step \in DOMAIN After
    BY <1>3 DEF Validate, At, After
  <2>2. QED
    BY <1>0, <1>3, <2>1, FailTypes, SucceedTypes, InnermostValue DEF Validate
<1>4. CASE Body
  <2>0. depth > 0 /\ step \in DOMAIN After
    <3>1. At("body")
      BY <1>4 DEF Body, SkipBody, RefuseType, BindStream, RefuseLength, RefuseCharset,
                  BindFully, BindMalformed, BindReadFails, BindAbandoned,
                  BinderPanics, Reading, Bounded, WantsBody
    <3>2. QED
      BY <3>1 DEF At, After
  <2>1. CASE SkipBody
    BY <1>0, <2>0, <2>1, SucceedTypes, InnermostValue DEF SkipBody
  <2>2. CASE \E code : FailWith(code)
    BY <1>0, <2>0, <2>2, FailTypes
  <2>3. CASE BindStream /\ ~\E code : FailWith(code)
    <3>1. Succeed(Done(Binder))
      BY <2>3 DEF BindStream
    <3>2. Done(Binder) \in Values
      BY <1>0, <2>0, <2>3, InnermostValue DEF BindStream
    <3>3. QED
      BY <1>0, <2>0, <3>1, <3>2, SucceedTypes
  <2>4. CASE BindFully
    <3>1. Found \in Results
      BY <2>4 DEF BindFully, Results
    <3>2. Done(Found) \in Values
      BY <1>0, <2>0, <3>1, InnermostValue
    <3>3. QED
      BY <1>0, <2>0, <2>4, <3>2, SucceedTypes DEF BindFully
  <2>5. CASE BinderPanics
    BY <1>0, <2>5 DEF BinderPanics, StackOK, Steps
  <2>6. QED
    BY <1>4, <2>1, <2>2, <2>3, <2>4, <2>5
       DEF Body, RefuseType, RefuseLength, RefuseCharset, BindMalformed,
           BindReadFails, BindAbandoned
<1>5. CASE User
  <2>1. CASE CallNext
    <3>1. Fresh \in Values
      BY DEF Fresh, Values
    <3>2. values' \in Seq(Values) /\ Len(values') = depth + 1
      BY <1>0, <2>1, <3>1 DEF CallNext, Enter, StackOK
    <3>3. depth' \in 0 .. NumLayers /\ depth' = depth + 1 /\ step' \in Steps
      BY <1>0, <2>1, NumLayersAssumption
         DEF CallNext, UserCall, At, Enter, StackOK, Steps, After
    <3>4. QED
      BY <3>2, <3>3 DEF StackOK
  <2>2. CASE Respond \/ UseStream \/ Panic
    BY <1>0, <2>2 DEF Respond, UseStream, Panic, StackOK, Steps
  <2>3. CASE Return \/ Unwind
    <3>1. depth > 0 /\ step' \in Steps
      BY <1>0, <2>3 DEF Return, Unwind, At, Steps, StackOK
    <3>2. QED
      BY <1>0, <2>3, <3>1, PopTypes DEF Return, Unwind
  <2>4. QED
    BY <1>5, <2>1, <2>2, <2>3 DEF User
<1>6. CASE UNCHANGED vars
  BY <1>0, <1>6 DEF vars, StackOK
<1>7. QED
  BY <1>1, <1>2, <1>3, <1>4, <1>5, <1>6 DEF Next, Finished

\* The response, and the bound on the calls of user code.
LEMMA StatusStep ==
    ASSUME IInv, [Next]_vars
    PROVE  /\ status' \in {0, 200, 400, 408, 411, 413, 415, 500}
           /\ calls' \in 0 .. MaxCalls
<1> USE DEF IInv, TypeOK, FailWith, Succeed
<1>1. CASE ApplyDefaults \/ Sources \/ Validate
  BY <1>1 DEF ApplyDefaults, Sources, SkipSource, BindSource, Validate
<1>2. CASE Body
  BY <1>2 DEF Body, SkipBody, RefuseType, BindStream, RefuseLength, RefuseCharset,
              BindFully, BindMalformed, BindReadFails, BindAbandoned, BinderPanics
<1>3. CASE User
  BY <1>3, MaxCallsAssumption
     DEF User, UserCall, CallNext, Respond, UseStream, Panic, Return, Unwind
<1>4. CASE UNCHANGED vars
  BY <1>4 DEF vars
<1>5. QED
  BY <1>1, <1>2, <1>3, <1>4 DEF Next, Finished

-----------------------------------------------------------------------------
(* The shared body.                                                        *)

\* What a step that binds nothing does to the body: it is read further,
\* closed, or left behind closed.
BodyKept ==
    /\ bound' = bound
    /\ body' \in Bodies
    /\ body \in {"drained", "closed"} => body' \in {"drained", "closed"}
    /\ body = "closed" => body' = "closed"
    /\ abandoned' \in BOOLEAN
    /\ abandoned' => abandoned \/ body' = "closed"

LEMMA BodySteps ==
    ASSUME IInv, [Next]_vars
    PROVE  BodyKept \/ BindFully
<1> USE DEF BodyKept, Bodies, IInv, TypeOK
<1>1. CASE ApplyDefaults \/ Sources \/ Validate
  <2>1. UNCHANGED <<body, bound, abandoned>>
    BY <1>1 DEF ApplyDefaults, Sources, SkipSource, BindSource, Validate
  <2>2. QED
    BY <2>1
<1>2. CASE Body
  <2>1. CASE BindMalformed \/ BinderPanics
    BY <2>1 DEF BindMalformed, BinderPanics, LeftOf, Found
  <2>2. CASE BindReadFails \/ BindAbandoned
    BY <2>2 DEF BindReadFails, BindAbandoned
  <2>3. CASE SkipBody \/ RefuseType \/ BindStream \/ RefuseLength \/ RefuseCharset
    BY <2>3 DEF SkipBody, RefuseType, BindStream, RefuseLength, RefuseCharset
  <2>4. QED
    BY <1>2, <2>1, <2>2, <2>3 DEF Body
<1>3. CASE User
  BY <1>3 DEF User, UserCall, CallNext, Respond, UseStream, LeftOf, Panic, Return,
              Unwind
<1>4. CASE UNCHANGED vars
  BY <1>4 DEF vars
<1>5. QED
  BY <1>1, <1>2, <1>3, <1>4 DEF Next, Finished

LEMMA BindFullyStep ==
    ASSUME IInv, BindFully
    PROVE  /\ bound' \in Seq(Results) /\ BodyInv' /\ ~abandoned
           /\ body' \in Bodies /\ abandoned' = abandoned
<1> USE DEF IInv, TypeOK
<1>1. body # "closed" /\ Found \in Results /\ (Found # "empty" => body \in {"whole", "part"})
  BY DEF BindFully, Found, Results
<1>2. bound' = Append(bound, Found) /\ body' = "drained" /\ abandoned' = abandoned
  BY DEF BindFully
<1>3. bound' \in Seq(Results) /\ Len(bound') = Len(bound) + 1
  BY <1>1, <1>2 DEF Results
<1>4. \A j \in DOMAIN bound' : bound'[j] =
        IF j = Len(bound) + 1 THEN Found ELSE bound[j]
  BY <1>2
<1>5. Found # "empty" => \A j \in DOMAIN bound : bound[j] = "empty"
  BY <1>1 DEF BodyInv
<1>6. ~abandoned
  BY <1>1 DEF BodyInv
<1>7. BytesReachOneBinding'
  <2> SUFFICES ASSUME NEW j \in DOMAIN bound', NEW k \in DOMAIN bound',
                      bound'[j] # "empty", bound'[k] # "empty"
               PROVE  j = k
    BY DEF BytesReachOneBinding
  <2>1. j \in 1 .. Len(bound) + 1 /\ k \in 1 .. Len(bound) + 1
    BY <1>3
  <2>2. CASE j = Len(bound) + 1 \/ k = Len(bound) + 1
    BY <1>4, <1>5, <2>1, <2>2
  <2>3. CASE j # Len(bound) + 1 /\ k # Len(bound) + 1
    <3>1. j \in DOMAIN bound /\ k \in DOMAIN bound
      BY <2>1, <2>3
    <3>2. bound[j] # "empty" /\ bound[k] # "empty"
      BY <1>4, <2>3
    <3>3. QED
      BY <3>1, <3>2 DEF BodyInv, BytesReachOneBinding
  <2>4. QED
    BY <2>2, <2>3
<1>8. QED
  BY <1>2, <1>3, <1>6, <1>7 DEF BodyInv, Bodies

-----------------------------------------------------------------------------
(* What has been done with the values so far.                              *)

\* SourcesInv of one invocation.
ValueAt(i) ==
    /\ SetOf(values[i].applied) = Passed(i)
    /\ InOrder(values[i].applied)
    /\ BodyBound(i)

LEMMA WantedSteps ==
    \A i : Wanted(i) \subseteq DOMAIN After
BY DEF Wanted, Keyed, After

LEMMA WantedStays ==
    ASSUME UNCHANGED reqVars
    PROVE  \A i : Wanted(i)' = Wanted(i)
BY DEF Wanted, TakesBody, reqVars

\* A value that stays as it is keeps the right body.
LEMMA BodyStays ==
    ASSUME UNCHANGED reqVars, NEW i, values'[i] = values[i], BodyBound(i)
    PROVE  BodyBound(i)'
BY DEF BodyBound, BodyOf, SetOf, reqVars

\* Each step of the list comes right before the one after it.
LEMMA NextPosition ==
    ASSUME step \in DOMAIN After, NEW t \in DOMAIN After
    PROVE  Position[t] < Position[After[step]] <=> Position[t] < Position[step] \/ t = step
<1>1. step \in {"defaults", "header", "cookie", "query", "url", "body", "validate"}
      /\ t \in {"defaults", "header", "cookie", "query", "url", "body", "validate"}
  BY DEF After
<1>2. QED
  BY <1>1 DEF After, Position

\* Where typed code runs every wanted step has been passed.
LEMMA UserPassed ==
    ASSUME step = "user", NEW i
    PROVE  Passed(i) = Wanted(i)
<1>1. \A s \in DOMAIN After : Position[s] < Position[step]
  BY DEF After, Position
<1>2. QED
  BY <1>1, WantedSteps DEF Passed

\* Every invocation is left: the one below it is again in its typed code, or
\* the panic goes through it.
LEMMA PopSources ==
    ASSUME IInv, UNCHANGED reqVars, depth > 0,
           depth' = depth - 1, values' = SubSeq(values, 1, depth - 1),
           step' \in {"user", "panicking"}
    PROVE  SourcesInv'
<1> SUFFICES ASSUME NEW i \in 1 .. depth - 1, i < depth' \/ step' # "panicking"
             PROVE  ValueAt(i)'
  BY DEF SourcesInv, ValueAt
<1>1. depth \in Nat /\ i < depth /\ i \in 1 .. depth /\ Len(values) = depth
      /\ values \in Seq(Values)
  BY NumLayersAssumption DEF IInv, TypeOK
<1>2. values'[i] = values[i]
  BY <1>1
<1>3. SetOf(values[i].applied) = Wanted(i) /\ InOrder(values[i].applied) /\ BodyBound(i)
  BY <1>1 DEF IInv, SourcesInv, Passed
<1>4. Passed(i)' = Wanted(i)
  <2>1. CASE i < depth'
    BY <2>1, WantedStays DEF Passed
  <2>2. CASE step' = "user"
    <3>1. \A s \in DOMAIN After : Position[s] < Position[step']
      BY <2>2 DEF After, Position
    <3>2. QED
      BY <3>1, WantedSteps, WantedStays DEF Passed
  <2>3. QED
    BY <2>1, <2>2
<1>5. QED
  BY <1>2, <1>3, <1>4, BodyStays DEF ValueAt, SetOf, InOrder

\* The innermost invocation stays where it is, or panics.
LEMMA KeepSources ==
    ASSUME IInv, UNCHANGED reqVars, depth' = depth, values' = values,
           step' \in {step, "panicking"}
    PROVE  SourcesInv'
<1> SUFFICES ASSUME NEW i \in 1 .. depth, i < depth \/ step' # "panicking"
             PROVE  ValueAt(i)'
  BY DEF SourcesInv, ValueAt
<1>1. ValueAt(i)
  BY DEF IInv, SourcesInv, ValueAt
<1>2. Passed(i)' = Passed(i)
  BY WantedStays DEF Passed
<1>3. QED
  BY <1>1, <1>2, BodyStays DEF ValueAt, SetOf, InOrder

\* A step is passed that the request does not want.
LEMMA SkipSources ==
    ASSUME IInv, UNCHANGED reqVars, depth > 0, step \in DOMAIN After,
           Succeed(values[depth]), step \notin Wanted(depth)
    PROVE  SourcesInv'
<1>1. depth \in Nat /\ values \in Seq(Values) /\ Len(values) = depth
  BY NumLayersAssumption DEF IInv, TypeOK
<1>2. depth' = depth /\ step' = After[step]
      /\ \A i \in 1 .. depth : values'[i] = values[i]
  BY <1>1 DEF Succeed
<1> SUFFICES ASSUME NEW i \in 1 .. depth
             PROVE  ValueAt(i)'
  BY <1>2 DEF SourcesInv, ValueAt
<1>3. step # "panicking"
  BY DEF After
<1>4. ValueAt(i)
  BY <1>3 DEF IInv, SourcesInv, ValueAt
<1>5. Passed(i)' = Passed(i)
  <2>1. CASE i < depth
    BY <1>2, <2>1, WantedStays DEF Passed
  <2>2. CASE i = depth
    <3>1. \A t \in Wanted(depth) : Position[t] < Position[step'] <=> Position[t] < Position[step]
      BY <1>2, NextPosition, WantedSteps
    <3>2. QED
      BY <1>1, <1>2, <2>2, <3>1, WantedStays DEF Passed
  <2>3. QED
    BY <1>1, <2>1, <2>2
<1>6. QED
  BY <1>2, <1>4, <1>5, BodyStays DEF ValueAt, SetOf, InOrder

\* A wanted step is done behind those that stand before it.
LEMMA DoneSources ==
    ASSUME IInv, UNCHANGED reqVars, depth > 0, step \in DOMAIN After,
           step \in Wanted(depth), NEW b, Succeed(Done(b)),
           IF step = "body" THEN BodyOf(depth, b) ELSE b = values[depth].body
    PROVE  SourcesInv'
<1> DEFINE old == values[depth].applied
<1>1. depth \in Nat /\ values \in Seq(Values) /\ Len(values) = depth
  BY NumLayersAssumption DEF IInv, TypeOK
<1>2. /\ values[depth] \in Values /\ old \in Seq(DOMAIN After)
      /\ depth \in DOMAIN values
  BY <1>1, StackNow, InnermostValue DEF Values
<1>3. /\ depth' = depth /\ step' = After[step]
      /\ \A i \in 1 .. depth : i < depth => values'[i] = values[i]
      /\ values'[depth].applied = Append(old, step) /\ values'[depth].body = b
  <2>1. values' = [values EXCEPT ![depth] = Done(b)]
    BY DEF Succeed
  <2>2. values'[depth] = Done(b)
    BY <1>2, <2>1
  <2>3. \A i \in 1 .. depth : i < depth => values'[i] = values[i]
    BY <1>1, <2>1
  <2>4. QED
    BY <2>2, <2>3 DEF Succeed, Done
<1>4. /\ SetOf(old) = {t \in Wanted(depth) : Position[t] < Position[step]}
      /\ InOrder(old) /\ BodyBound(depth)
  <2>1. depth \in 1 .. depth /\ ~(depth < depth) /\ step # "panicking"
    BY <1>1 DEF After
  <2>2. SetOf(old) = Passed(depth) /\ InOrder(old) /\ BodyBound(depth)
    BY <2>1 DEF IInv, SourcesInv
  <2>3. QED
    BY <2>1, <2>2 DEF Passed
<1>5. SetOf(Append(old, step)) = SetOf(old) \cup {step}
  <2>1. /\ DOMAIN Append(old, step) = 1 .. Len(old) + 1 /\ DOMAIN old = 1 .. Len(old)
        /\ Len(old) \in Nat
    BY <1>2
  <2>2. /\ \A j \in 1 .. Len(old) : Append(old, step)[j] = old[j]
        /\ Append(old, step)[Len(old) + 1] = step
    BY <1>2
  <2>3. \A j \in 1 .. Len(old) + 1 : j \in 1 .. Len(old) \/ j = Len(old) + 1
    BY <2>1
  <2>4. QED
    BY <2>1, <2>2, <2>3 DEF SetOf
<1>6. {t \in Wanted(depth) : Position[t] < Position[step']} = SetOf(old) \cup {step}
  <2>1. \A t \in Wanted(depth) :
          Position[t] < Position[step'] <=> Position[t] < Position[step] \/ t = step
    BY <1>3, NextPosition, WantedSteps
  <2>2. QED
    BY <1>4, <2>1
<1>7. InOrder(Append(old, step))
  <2> SUFFICES ASSUME NEW j \in 1 .. Len(old) + 1, NEW k \in 1 .. Len(old) + 1, j < k
               PROVE  Position[Append(old, step)[j]] < Position[Append(old, step)[k]]
    BY <1>2 DEF InOrder
  <2>1. j \in 1 .. Len(old) /\ Append(old, step)[j] = old[j]
    BY <1>2
  <2>2. CASE k = Len(old) + 1
    <3>1. Append(old, step)[k] = step
      BY <1>2, <2>2
    <3>2. old[j] \in SetOf(old)
      BY <1>2, <2>1 DEF SetOf
    <3>3. QED
      BY <1>4, <2>1, <3>1, <3>2
  <2>3. CASE k # Len(old) + 1
    <3>1. k \in 1 .. Len(old) /\ Append(old, step)[k] = old[k]
      BY <1>2, <2>3
    <3>2. QED
      BY <1>2, <1>4, <2>1, <3>1 DEF InOrder
  <2>4. QED
    BY <2>2, <2>3
<1> SUFFICES ASSUME NEW i \in 1 .. depth
             PROVE  ValueAt(i)'
  BY <1>3 DEF SourcesInv, ValueAt
<1>8. CASE i = depth
  <2>1. Passed(i)' = {t \in Wanted(depth) : Position[t] < Position[step']}
    BY <1>1, <1>3, <1>8, WantedStays DEF Passed
  <2>2. SetOf(values[i].applied)' = SetOf(old) \cup {step}
    BY <1>3, <1>5, <1>8 DEF SetOf
  <2>3. InOrder(values[i].applied)'
    BY <1>3, <1>7, <1>8 DEF InOrder
  <2>4. BodyBound(i)'
    <3>1. BodyOf(depth, b)' <=> BodyOf(depth, b)
      BY <1>3 DEF BodyOf, reqVars
    <3>2. BodyBound(i)' <=> IF "body" \in SetOf(old) \cup {step} THEN BodyOf(depth, b)
                            ELSE b = "nothing"
      BY <1>3, <1>8, <2>2 DEF BodyBound, BodyOf, reqVars
    <3>3. QED
      BY <1>4, <3>2 DEF BodyBound
  <2>5. QED
    BY <1>6, <2>1, <2>2, <2>3, <2>4 DEF ValueAt
<1>9. CASE i # depth
  <2>1. i < depth /\ values'[i] = values[i]
    BY <1>1, <1>3, <1>9
  <2>2. SetOf(values[i].applied) = Wanted(i) /\ InOrder(values[i].applied) /\ BodyBound(i)
    BY <2>1 DEF IInv, SourcesInv, Passed
  <2>3. Passed(i)' = Wanted(i)
    BY <1>3, <2>1, WantedStays DEF Passed
  <2>4. QED
    BY <2>1, <2>2, <2>3, BodyStays DEF ValueAt, SetOf, InOrder
<1>10. QED
  BY <1>8, <1>9

LEMMA FailSources ==
    ASSUME IInv, UNCHANGED reqVars, depth > 0, NEW code, FailWith(code)
    PROVE  SourcesInv'
BY PopSources DEF FailWith

\* The next layer starts with nothing, and its caller has everything.
LEMMA EnterSources ==
    ASSUME IInv, UNCHANGED reqVars, At("user"), Enter(depth + 1)
    PROVE  SourcesInv'
<1>1. /\ depth \in Nat /\ depth > 0 /\ values \in Seq(Values) /\ Len(values) = depth
      /\ step = "user"
  BY NumLayersAssumption DEF IInv, TypeOK, At
<1>2. /\ depth' = depth + 1 /\ step' = "defaults"
      /\ \A i \in 1 .. depth : values'[i] = values[i]
      /\ values'[depth + 1] = Fresh
  BY <1>1 DEF Enter
<1> SUFFICES ASSUME NEW i \in 1 .. depth + 1
             PROVE  ValueAt(i)'
  BY <1>2 DEF SourcesInv, ValueAt
<1>3. CASE i = depth + 1
  <2>1. \A s \in DOMAIN After : ~(Position[s] < Position[step'])
    BY <1>2 DEF After, Position
  <2>2. Passed(i)' = {}
    BY <1>1, <1>2, <1>3, <2>1, WantedStays, WantedSteps DEF Passed
  <2>3. values'[i].applied = <<>> /\ values'[i].body = "nothing"
    BY <1>2, <1>3 DEF Fresh
  <2>4. QED
    BY <2>2, <2>3 DEF ValueAt, SetOf, InOrder, BodyBound
<1>4. CASE i # depth + 1
  <2>1. i \in 1 .. depth /\ i < depth' /\ values'[i] = values[i]
    BY <1>1, <1>2, <1>4
  <2>2. Passed(i) = Wanted(i) /\ Passed(i)' = Wanted(i)
    BY <1>1, <2>1, UserPassed, WantedStays DEF Passed
  <2>3. ValueAt(i)
    BY <1>1, <2>1 DEF IInv, SourcesInv, ValueAt
  <2>4. QED
    BY <2>1, <2>2, <2>3, BodyStays DEF ValueAt, SetOf, InOrder
<1>5. QED
  BY <1>3, <1>4

\* The binder that is chosen leaves a body of the request in the value.
LEMMA BinderBinds ==
    ASSUME BindFully \/ (BindStream /\ Succeed(Done(Binder)) /\ ~\E code : FailWith(code))
    PROVE  \E b : Succeed(Done(b)) /\ BodyOf(depth, b)
<1>1. CASE BindFully
  <2>1. /\ Succeed(Done(Found)) /\ req.type \in Flags \cap {"form", "json"} /\ req.type = Binder
        /\ req.length = "known" /\ req.charset
    BY <1>1 DEF BindFully, Reading, Bounded, Binder
  <2>2. Found \in {"whole", "rest"} \/ (req.type = "form" /\ Found = "empty")
    BY <1>1, <2>1 DEF BindFully
  <2>3. QED
    BY <2>1, <2>2 DEF BodyOf, Flags
<1>2. CASE BindStream /\ Succeed(Done(Binder)) /\ ~\E code : FailWith(code)
  <2>1. CASE Binder = "multipart"
    <3>1. req.type = "multipart" /\ "multipart" \in Flags
      BY <2>1 DEF Binder
    <3>2. req.boundary
      BY <1>2, <2>1 DEF BindStream
    <3>3. QED
      BY <1>2, <2>1, <3>1, <3>2 DEF BodyOf, Flags
  <2>2. CASE Binder = "body"
    <3>1. "body" \in Flags /\ (Accepts = {} \/ req.type \in Accepts)
      BY <2>2 DEF Binder
    <3>2. QED
      BY <1>2, <2>2, <3>1 DEF BodyOf, Flags, Accepts
  <2>3. QED
    BY <1>2, <2>1, <2>2 DEF BindStream
<1>3. QED
  BY <1>1, <1>2

LEMMA SourcesStep ==
    ASSUME IInv, [Next]_vars
    PROVE  SourcesInv'
<1>1. CASE ApplyDefaults \/ Validate
  <2>1. /\ depth > 0 /\ step \in {"defaults", "validate"} /\ UNCHANGED reqVars
        /\ Succeed(Done(values[depth].body)) \/ \E code : FailWith(code)
    BY <1>1 DEF ApplyDefaults, Validate, At
  <2>2. step \in DOMAIN After /\ step \in Wanted(depth) /\ step # "body"
    BY <2>1 DEF After, Wanted
  <2>3. QED
    BY <2>1, <2>2, DoneSources, FailSources
<1>2. CASE Sources
  <2>1. PICK s \in Keyed : SkipSource(s) \/ BindSource(s)
    BY <1>2 DEF Sources
  <2>2. /\ depth > 0 /\ step = s /\ UNCHANGED reqVars /\ step \in DOMAIN After
        /\ step # "body"
    BY <2>1 DEF SkipSource, BindSource, At, After, Keyed
  <2>3. CASE SkipSource(s)
    <3>1. step \notin Wanted(depth) /\ Succeed(values[depth])
      BY <2>2, <2>3 DEF SkipSource, Flags, Wanted, Keyed
    <3>2. QED
      BY <2>2, <3>1, SkipSources
  <2>4. CASE BindSource(s)
    <3>1. s \in Wanted(depth)
      BY <2>4 DEF BindSource, Flags, Wanted
    <3>2. Succeed(Done(values[depth].body)) \/ FailWith(400)
      BY <2>4 DEF BindSource
    <3>3. QED
      BY <2>2, <3>1, <3>2, DoneSources, FailSources
  <2>5. QED
    BY <2>1, <2>3, <2>4
<1>3. CASE Body
  <2>1. depth > 0 /\ step = "body" /\ UNCHANGED reqVars
    BY <1>3 DEF Body, SkipBody, RefuseType, BindStream, RefuseLength, RefuseCharset,
                BindFully, BindMalformed, BindReadFails, BindAbandoned,
                BinderPanics, Reading, Bounded, WantsBody, At
  <2>2. step \in DOMAIN After /\ (step \in Wanted(depth) <=> TakesBody(depth))
    BY <2>1 DEF After, Wanted, Keyed
  <2>3. CASE \E code : FailWith(code)
    BY <2>1, <2>3, FailSources
  <2>4. CASE SkipBody
    <3>1. ~TakesBody(depth) /\ Succeed(values[depth])
      BY <2>1, <2>4 DEF SkipBody, WantsBody
    <3>2. QED
      BY <2>1, <2>2, <3>1, SkipSources
  <2>5. CASE BindFully \/ (BindStream /\ ~\E code : FailWith(code))
    <3>1. TakesBody(depth)
      BY <2>5 DEF BindFully, BindStream, Reading, Bounded, WantsBody
    <3>2. BindFully \/ (BindStream /\ Succeed(Done(Binder)) /\ ~\E code : FailWith(code))
      BY <2>5 DEF BindStream
    <3>3. PICK b : Succeed(Done(b)) /\ BodyOf(depth, b)
      BY <3>2, BinderBinds
    <3>4. QED
      BY <2>1, <2>2, <3>1, <3>3, DoneSources
  <2>6. CASE BinderPanics
    BY <2>1, <2>6, KeepSources DEF BinderPanics
  <2>7. CASE RefuseType
    BY <2>3, <2>7 DEF RefuseType
  <2>8. CASE RefuseLength \/ RefuseCharset
    BY <2>3, <2>8 DEF RefuseLength, RefuseCharset
  <2>9. CASE BindMalformed \/ BindReadFails \/ BindAbandoned
    BY <2>3, <2>9 DEF BindMalformed, BindReadFails, BindAbandoned
  <2>10. QED
    BY <1>3, <2>3, <2>4, <2>5, <2>6, <2>7, <2>8, <2>9 DEF Body
<1>4. CASE User
  <2>1. CASE CallNext
    BY <2>1, EnterSources DEF CallNext, UserCall, At
  <2>2. CASE Respond \/ UseStream \/ Panic
    BY <2>2, KeepSources DEF Respond, UseStream, Panic, UserCall
  <2>3. CASE Return \/ Unwind
    <3>1. /\ depth > 0 /\ step' \in {"user", "panicking"} /\ UNCHANGED reqVars
          /\ depth' = depth - 1 /\ values' = SubSeq(values, 1, depth - 1)
      BY <2>3 DEF Return, Unwind, At
    <3>2. QED
      BY <3>1, PopSources
  <2>4. QED
    BY <1>4, <2>1, <2>2, <2>3 DEF User
<1>5. CASE UNCHANGED vars
  BY <1>5, KeepSources DEF vars
<1>6. QED
  BY <1>1, <1>2, <1>3, <1>4, <1>5 DEF Next, Finished

LEMMA StepInvariant == IInv /\ [Next]_vars => IInv'
<1> SUFFICES ASSUME IInv, [Next]_vars
             PROVE  IInv'
  OBVIOUS
<1>1. /\ body' \in {"whole", "part", "drained", "closed"}
      /\ bound' \in Seq({"whole", "rest", "empty"})
      /\ abandoned' \in BOOLEAN
  BY BodySteps, BindFullyStep DEF BodyKept, Bodies, Results, IInv, TypeOK
<1>2. TypeOK'
  BY <1>1, StackStep, StatusStep DEF TypeOK, StackOK
<1>3. BodyInv'
  <2>1. CASE BodyKept
    BY <2>1 DEF BodyKept, IInv, BodyInv, BytesReachOneBinding
  <2>2. CASE BindFully
    BY <2>2, BindFullyStep
  <2>3. QED
    BY <2>1, <2>2, BodySteps
<1>4. QED
  BY <1>2, <1>3, SourcesStep DEF IInv

-----------------------------------------------------------------------------
(* The theorems.                                                           *)

\* The types, and what the bindings so far say about the rest of the body.
THEOREM InvariantCorrect == Spec => []IInv
BY InitInvariant, StepInvariant, PTL DEF Spec

\* Every variable keeps to the values its Go counterpart can have.
THEOREM TypeCorrect == Spec => []TypeOK
<1>1. IInv => TypeOK
  BY DEF IInv
<1>2. QED
  BY <1>1, InvariantCorrect, PTL

\* Typed code of no layer runs on a value that lacks its defaults, a source or the
\* body of this request, that holds another body than its binder's, into which a weaker
\* source was bound after a stronger one, or that was not validated last, whichever step
\* failed or panicked on whichever layer (request.go:79-99, request_bind.go:27-80).
THEOREM SourcesCorrect == Spec => []TypedCodeSeesSources
<1>1. IInv => TypedCodeSeesSources
  <2> SUFFICES ASSUME IInv, NEW i \in 1 .. depth, Running(i)
               PROVE  /\ SetOf(values[i].applied) = Wanted(i)
                      /\ InOrder(values[i].applied)
                      /\ IF TakesBody(i) THEN BodyOf(i, values[i].body)
                         ELSE values[i].body = "nothing"
    BY DEF TypedCodeSeesSources
  <2>1. ValueAt(i)
    BY DEF IInv, SourcesInv, ValueAt, Running
  <2>2. Passed(i) = Wanted(i)
    BY UserPassed DEF Running, Passed
  <2>3. "body" \in Wanted(i) <=> TakesBody(i)
    BY DEF Wanted, Keyed
  <2>4. QED
    BY <2>1, <2>2, <2>3 DEF ValueAt, BodyBound
<1>2. QED
  BY <1>1, InvariantCorrect, PTL

\* The bytes of a body reach one bounded binding at most.
THEOREM BytesCorrect == Spec => []BytesReachOneBinding
<1>1. IInv => BytesReachOneBinding
  BY DEF IInv, BodyInv
<1>2. QED
  BY <1>1, InvariantCorrect, PTL

\* Nothing is bound beside a binder that was left behind.
THEOREM StrayCorrect == Spec => StrayBinderAlone
<1>1. IInv /\ [Next]_vars => (abandoned => bound' = bound)
  BY BodySteps, BindFullyStep DEF BodyKept
<1>2. QED
  BY <1>1, InvariantCorrect, PTL DEF Spec, StrayBinderAlone

\* Each bounded binding of the chain does no more than BodyBind does.
THEOREM ContractCorrect == Spec => BindingsKeepContract
<1>1. IInv /\ [Next]_vars => (Bounded => Allowed(Binder, body, Outcome, body')) \/ UNCHANGED vars
  <2> SUFFICES ASSUME IInv, Next, Bounded
               PROVE  Allowed(Binder, body, Outcome, body')
    OBVIOUS
  <2>1. At("body") /\ depth \in Nat /\ depth > 0 /\ step = "body"
    BY NumLayersAssumption DEF Bounded, WantsBody, At, IInv, TypeOK
  <2>2. Body
    BY <2>1 DEF Next, ApplyDefaults, Sources, SkipSource, BindSource, Validate, User,
                UserCall, CallNext, Respond, UseStream, Panic, Return, Unwind,
                Finished, At, Keyed
  <2>3. RefuseLength \/ RefuseCharset \/ BindFully \/ BindMalformed
        \/ BindReadFails \/ BindAbandoned \/ BinderPanics
    BY <2>2 DEF Body, SkipBody, RefuseType, BindStream, Bounded, HasType
  <2>4. \A code : FailWith(code) /\ code # 0 => Outcome = code
    BY <2>1 DEF FailWith, Outcome
  <2>5. QED
    BY <2>1, <2>3, <2>4
       DEF RefuseLength, RefuseCharset, BindFully, BindMalformed, BindReadFails,
           BindAbandoned, BinderPanics, Reading, Bounded, Found, Allowed, Outcome,
           Succeed, After, LeftOf, OK, Panicked, Pending, Outcomes, Rests, IInv, TypeOK
<1>2. QED
  BY <1>1, InvariantCorrect, PTL DEF Spec, BindingsKeepContract

\* The state in which a bounded binding with outcome s leaves the chain: an assignment to
\* every variable, so that there always is one.
Successor(s, left) ==
    /\ UNCHANGED <<reqVars, calls>>
    /\ body' = left
    /\ IF s = 408 THEN abandoned' = TRUE ELSE UNCHANGED abandoned
    /\ \/ /\ s = OK
          /\ Succeed(Done(Found))
          /\ bound' = Append(bound, Found)
       \/ /\ s = Panicked
          /\ step' = "panicking" /\ UNCHANGED <<depth, values, status, bound>>
       \/ /\ s \notin {OK, Panicked}
          /\ FailWith(s) /\ UNCHANGED bound

\* Whatever BodyBind may do that has read the body, the chain has a step that does it: that
\* of the state Successor describes.  It is BindingsCoverContract with the next state spelt
\* out in place of ENABLED (request_body.go:89-183).
THEOREM CoverCorrect ==
    ASSUME IInv, Reading, NEW s \in {OK, 400, 408, 500, Panicked}, NEW left \in Rests,
           Allowed(Binder, body, s, left), Successor(s, left)
    PROVE  Body /\ Outcome = s /\ body' = left
<1>1. /\ Binder \in {"form", "json"} /\ depth \in Nat /\ depth > 0 /\ step = "body"
      /\ body \in Rests /\ Bounded /\ req.length = "known"
  BY NumLayersAssumption DEF Reading, Bounded, WantsBody, At, IInv, TypeOK, Rests
<1>2. /\ body = "whole" => Found = "whole"
      /\ body = "part" => Found = "rest"
      /\ body = "drained" => Found = "empty"
      /\ body = "closed" => Found = "error"
  BY DEF Found
<1>3. body' = left
  BY DEF Successor
<1>4. CASE s = OK
  <2>1. Found \in {"whole", "rest"} \/ (Binder = "form" /\ Found = "empty")
    BY <1>1, <1>2, <1>4 DEF Allowed, OK, Panicked, Rests
  <2>2. left = "drained"
    BY <1>4 DEF Allowed, OK, Panicked
  <2>3. Succeed(Done(Found))
    <3>1. s # Panicked /\ s \in {OK, Panicked}
      BY <1>4 DEF OK, Panicked
    <3> QED BY <3>1, Zenon DEF Successor
  <2>4. BindFully
    <3>1. /\ UNCHANGED <<reqVars, calls, abandoned>> /\ bound' = Append(bound, Found)
      BY <1>4 DEF Successor, OK, Panicked
    <3> QED BY <1>3, <2>1, <2>2, <2>3, <3>1 DEF BindFully
  <2>5. Outcome = OK
    BY <1>1, <2>3 DEF Succeed, Outcome, After
  <2> QED BY <1>3, <1>4, <2>4, <2>5 DEF Body
<1>5. CASE s = Panicked
  <2>1. Found # "error" /\ left \in LeftOf(body)
    BY <1>1, <1>2, <1>5 DEF Allowed, OK, Panicked, Rests
  <2>2. BinderPanics
    BY <1>5, <2>1 DEF Successor, BinderPanics, OK, Panicked
  <2>3. Outcome = Panicked
    BY <1>5 DEF Successor, Outcome, OK, Panicked
  <2> QED BY <1>3, <1>5, <2>2, <2>3 DEF Body
<1>6. CASE s \in {400, 408, 500}
  <2>1. FailWith(s)
    BY <1>6 DEF Successor, OK, Panicked
  <2>2. Outcome = s
    BY <1>1, <1>6, <2>1 DEF FailWith, Outcome
  <2>3. UNCHANGED <<reqVars, bound, calls>> /\ (s # 408 => UNCHANGED abandoned)
    BY <1>6 DEF Successor, OK, Panicked
  <2>4. CASE s = 408
    <3>1. left = "closed" /\ abandoned' = TRUE
      BY <2>4 DEF Successor, Allowed, OK, Panicked
    <3> QED BY <1>1, <1>3, <2>1, <2>2, <2>3, <2>4, <3>1 DEF BindAbandoned, Body
  <2>5. CASE s = 500
    <3>1. Binder = "form" /\ left = "closed" /\ Found # "empty"
      BY <1>1, <1>2, <2>5 DEF Allowed, OK, Panicked, Rests
    <3> QED BY <1>3, <2>1, <2>2, <2>3, <2>5, <3>1 DEF BindReadFails, Body
  <2>6. CASE s = 400 /\ left = "closed" /\ Found # "empty" /\ Binder = "json"
    BY <1>3, <2>1, <2>2, <2>3, <2>6 DEF BindReadFails, Body
  <2>7. CASE s = 400 /\ ~(left = "closed" /\ Found # "empty" /\ Binder = "json")
    <3>1. Found \in {"whole", "rest"} \/ (Binder = "json" /\ Found = "empty")
      BY <1>1, <1>2, <2>7 DEF Allowed, OK, Panicked, Rests, LeftOf
    <3>2. left \in (IF Binder = "form" THEN {"drained"} ELSE LeftOf(body))
      BY <1>1, <1>2, <2>7 DEF Allowed, OK, Panicked, Rests
    <3>3. BindMalformed
      BY <1>3, <2>1, <2>3, <2>7, <3>1, <3>2 DEF BindMalformed
    <3> QED BY <1>3, <2>2, <2>7, <3>3 DEF Body
  <2> QED BY <1>6, <2>4, <2>5, <2>6, <2>7
<1> QED BY <1>4, <1>5, <1>6

\* Without a call of typed code the parsers only go on or return, for any chain and any
\* request (request.go:79-99, request_bind.go:27-80).
THEOREM AdvanceCorrect == Spec => ParsersAdvance
<1>1. IInv /\ [Next]_vars => ParserStep \/ UNCHANGED vars
  <2> SUFFICES ASSUME IInv, Next
               PROVE  ParserStep \/ UNCHANGED vars
    OBVIOUS
  <2>1. depth \in Nat /\ step \in Steps
    BY DEF IInv, TypeOK
  <2>2. ASSUME NEW code, FailWith(code), UNCHANGED calls PROVE ParserStep
    BY <2>1, <2>2 DEF FailWith, ParserStep
  <2>3. ASSUME NEW value, Succeed(value), UNCHANGED calls, step \in DOMAIN After
        PROVE  ParserStep
    <3>1. Position[After[step]] > Position[step]
      BY <2>3 DEF After, Position
    <3> QED BY <2>3, <3>1 DEF Succeed, ParserStep
  <2>4. CASE ApplyDefaults \/ Validate
    BY <2>2, <2>3, <2>4 DEF ApplyDefaults, Validate, At, After
  <2>5. ASSUME NEW s \in Keyed, SkipSource(s) \/ BindSource(s) PROVE ParserStep
    BY <2>2, <2>3, <2>5 DEF SkipSource, BindSource, At, After, Keyed
  <2>6. CASE BinderPanics
    <3>1. step = "body" /\ step' = "panicking" /\ UNCHANGED <<depth, calls>>
      BY <2>6 DEF BinderPanics, Reading, Bounded, WantsBody, At
    <3> QED BY <3>1 DEF ParserStep, Position
  <2>7. CASE Body /\ ~BinderPanics
    <3>1. step = "body" /\ UNCHANGED calls
      BY <2>7 DEF Body, SkipBody, RefuseType, BindStream, RefuseLength, RefuseCharset,
         BindFully, BindMalformed, BindReadFails, BindAbandoned, Reading, Bounded, WantsBody,
         At
    <3>2. step \in DOMAIN After
      BY <3>1 DEF After
    <3>3. CASE SkipBody \/ BindFully
      BY <2>3, <3>1, <3>2, <3>3 DEF SkipBody, BindFully
    <3>4. CASE RefuseType
      BY <2>2, <3>1, <3>4 DEF RefuseType
    <3>5. CASE BindStream
      BY <2>2, <2>3, <3>1, <3>2, <3>5 DEF BindStream
    <3>6. CASE RefuseLength \/ RefuseCharset
      BY <2>2, <3>1, <3>6 DEF RefuseLength, RefuseCharset
    <3>7. CASE BindMalformed \/ BindReadFails \/ BindAbandoned
      BY <2>2, <3>1, <3>7 DEF BindMalformed, BindReadFails, BindAbandoned
    <3> QED BY <2>7, <3>3, <3>4, <3>5, <3>6, <3>7 DEF Body
  <2>8. CASE CallNext \/ Respond \/ UseStream \/ Panic
    BY <2>8 DEF CallNext, Respond, UseStream, Panic, UserCall, ParserStep
  <2>9. CASE Return \/ Unwind
    BY <2>1, <2>9 DEF Return, Unwind, At, ParserStep
  <2> QED
    BY <2>4, <2>5, <2>6, <2>7, <2>8, <2>9 DEF Next, Sources, User, Finished
<1>2. QED
  BY <1>1, InvariantCorrect, PTL DEF Spec, ParsersAdvance

=============================================================================
