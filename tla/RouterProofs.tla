----------------------------- MODULE RouterProofs -----------------------------
(***************************************************************************)
(* Proofs about Router, for any middlewares, patterns, requests and        *)
(* bounds: append as Group uses it writes to no array but its own, so that *)
(* the chain of a router never changes.                                    *)
(***************************************************************************)
EXTENDS Router, SequenceTheorems, TLAPS

-----------------------------------------------------------------------------
(* Slices.                                                                 *)

\* A slice that lies within its array.
Within(h, s) ==
    s = Nil \/ /\ s = [array |-> s.array, len |-> s.len]
               /\ s.array \in 1 .. Len(h)
               /\ s.len \in Nat
               /\ s.len <= Len(h[s.array])

LEMMA FunctionSeq ==
    ASSUME NEW S, NEW n \in Nat, NEW f \in [1 .. n -> S]
    PROVE  f \in Seq(S) /\ Len(f) = n
<1>1. f \in Seq(S)
  BY SeqDef
<1> QED BY <1>1, LenProperties

LEMMA ElementsOf ==
    ASSUME NEW S, NEW h \in Seq(Seq(S)), NEW s, Within(h, s)
    PROVE  /\ Elements(h, s) \in Seq(S)
           /\ Len(Elements(h, s)) = s.len
           /\ s.len \in Nat
           /\ \A i \in 1 .. s.len : Elements(h, s)[i] = h[s.array][i]
<1>1. s.len \in Nat /\ \A i \in 1 .. s.len : h[s.array][i] \in S
  <2>1. CASE s = Nil
    BY <2>1 DEF Nil
  <2>2. CASE s # Nil
    BY <2>2 DEF Within
  <2> QED BY <2>1, <2>2
<1>2. Elements(h, s) \in [1 .. s.len -> S]
  BY <1>1 DEF Elements
<1> QED BY <1>1, <1>2, FunctionSeq DEF Elements

LEMMA ElementsAre ==
    ASSUME NEW S, NEW h \in Seq(Seq(S)), NEW s, Within(h, s),
           NEW xs \in Seq(S), s.len = Len(xs),
           \A i \in 1 .. Len(xs) : h[s.array][i] = xs[i]
    PROVE  Elements(h, s) = xs
<1> DEFINE e == Elements(h, s)
<1>1. e \in Seq(S) /\ Len(e) = Len(xs) /\ \A i \in 1 .. Len(e) : e[i] = xs[i]
  BY ElementsOf
<1> HIDE DEF e
<1>2. e = xs
  BY <1>1, SeqEqual
<1> QED BY <1>2 DEF e

LEMMA OverwrittenFacts ==
    ASSUME NEW S, NEW a \in Seq(S), NEW len \in Nat, NEW xs \in Seq(S),
           len + Len(xs) <= Len(a)
    PROVE  /\ Overwritten(a, len, xs) \in Seq(S)
           /\ Len(Overwritten(a, len, xs)) = Len(a)
           /\ \A i \in 1 .. len : Overwritten(a, len, xs)[i] = a[i]
           /\ \A i \in 1 .. Len(xs) : Overwritten(a, len, xs)[len + i] = xs[i]
<1>1. \A i \in 1 .. Len(a) :
         (IF i > len /\ i <= len + Len(xs) THEN xs[i - len] ELSE a[i]) \in S
  OBVIOUS
<1>2. Len(a) \in Nat /\ Len(xs) \in Nat
  OBVIOUS
<1>3. Overwritten(a, len, xs) \in [1 .. Len(a) -> S]
  BY <1>1 DEF Overwritten
<1>4. \A i \in 1 .. len : Overwritten(a, len, xs)[i] = a[i]
  BY <1>2 DEF Overwritten
<1>5. \A i \in 1 .. Len(xs) : Overwritten(a, len, xs)[len + i] = xs[i]
  BY <1>2 DEF Overwritten
<1> QED BY <1>2, <1>3, <1>4, <1>5, FunctionSeq

\* What append does: it gives a slice of the elements and the new ones, and
\* writes to no array but that of the slice it is given.
LEMMA AppendToFacts ==
    ASSUME NEW S, NEW h \in Seq(Seq(S)), NEW s, Within(h, s),
           NEW xs \in Seq(S), NEW spare \in Seq(S)
    PROVE  LET a == AppendTo(h, s, xs, spare) IN
           /\ a.heap \in Seq(Seq(S)) /\ Len(a.heap) >= Len(h)
           /\ \A i \in 1 .. Len(h) : i # s.array => a.heap[i] = h[i]
           /\ Within(a.heap, a.slice)
           /\ a.slice = Nil \/ a.slice.array \in {s.array, Len(h) + 1}
           /\ Elements(a.heap, a.slice) = Elements(h, s) \o xs
<1> DEFINE a == AppendTo(h, s, xs, spare)
           old == Elements(h, s)
<1>1. /\ old \in Seq(S) /\ Len(old) = s.len /\ s.len \in Nat
      /\ \A i \in 1 .. s.len : old[i] = h[s.array][i]
  BY ElementsOf
<1>2. Len(xs) \in Nat /\ Len(h) \in Nat /\ Len(spare) \in Nat
  OBVIOUS
<1>3. /\ old \o xs \in Seq(S)
      /\ Len(old \o xs) = s.len + Len(xs)
      /\ \A i \in 1 .. s.len + Len(xs) :
            (old \o xs)[i] = IF i <= s.len THEN old[i] ELSE xs[i - s.len]
  <2> HIDE DEF old
  <2>1. /\ old \o xs \in Seq(S)
        /\ Len(old \o xs) = Len(old) + Len(xs)
        /\ \A i \in 1 .. Len(old) + Len(xs) :
              (old \o xs)[i] = IF i <= Len(old) THEN old[i] ELSE xs[i - Len(old)]
    BY <1>1, ConcatProperties, Zenon
  <2> QED BY <2>1, <1>1, Zenon
<1>4. SUFFICES /\ a.heap \in Seq(Seq(S)) /\ Len(a.heap) >= Len(h)
               /\ \A i \in 1 .. Len(h) : i # s.array => a.heap[i] = h[i]
               /\ Within(a.heap, a.slice)
               /\ a.slice = Nil \/ a.slice.array \in {s.array, Len(h) + 1}
               /\ a.slice.len = s.len + Len(xs)
               /\ \A i \in 1 .. s.len + Len(xs) :
                     a.heap[a.slice.array][i] = (old \o xs)[i]
  <2> DEFINE both == old \o xs
  <2>1. both \in Seq(S) /\ Len(both) = s.len + Len(xs)
    BY <1>3
  <2> HIDE DEF a, both
  <2>2. \A hh \in Seq(Seq(S)) : \A ss :
           /\ Within(hh, ss) /\ ss.len = s.len + Len(xs)
           /\ \A i \in 1 .. s.len + Len(xs) : hh[ss.array][i] = both[i]
           => Elements(hh, ss) = both
    BY <2>1, ElementsAre
  <2>3. ASSUME a.heap \in Seq(Seq(S)), Within(a.heap, a.slice),
               a.slice.len = s.len + Len(xs),
               \A i \in 1 .. s.len + Len(xs) : a.heap[a.slice.array][i] = both[i]
        PROVE  Elements(a.heap, a.slice) = both
    BY <2>2, <2>3
  <2> QED BY <2>3 DEF a, both
<1>5. CASE s.len + Len(xs) <= Capacity(h, s) /\ xs = <<>>
  <2>1. a.heap = h /\ a.slice = s
    <3>1. Len(xs) = 0
      BY <1>5
    <3>2. s = [array |-> s.array, len |-> s.len]
      BY DEF Within, Nil
    <3> QED BY <1>5, <1>1, <3>1, <3>2 DEF AppendTo
  <2> QED BY <2>1, <1>1, <1>2, <1>3, <1>5
<1>6. CASE s.len + Len(xs) <= Capacity(h, s) /\ xs # <<>>
  <2> DEFINE array == h[s.array]
  <2>1. Len(xs) > 0
    BY <1>6, EmptySeq
  <2>2. /\ s = [array |-> s.array, len |-> s.len]
        /\ s.array \in 1 .. Len(h) /\ array \in Seq(S)
        /\ s.len + Len(xs) <= Len(array)
    BY <1>6, <1>1, <1>2, <2>1 DEF Within, Nil, Capacity
  <2>3. /\ a.heap = [h EXCEPT ![s.array] = Overwritten(array, s.len, xs)]
        /\ a.slice = [array |-> s.array, len |-> s.len + Len(xs)]
    BY <1>6, <2>2 DEF AppendTo
  <2>4. /\ Overwritten(array, s.len, xs) \in Seq(S)
        /\ Len(Overwritten(array, s.len, xs)) = Len(array)
        /\ \A i \in 1 .. s.len : Overwritten(array, s.len, xs)[i] = array[i]
        /\ \A i \in 1 .. Len(xs) : Overwritten(array, s.len, xs)[s.len + i] = xs[i]
    BY <2>2, <1>1, OverwrittenFacts
  <2>5. \A i \in 1 .. s.len + Len(xs) :
           Overwritten(array, s.len, xs)[i] = (old \o xs)[i]
    <3> TAKE i \in 1 .. s.len + Len(xs)
    <3>1. CASE i <= s.len
      BY <3>1, <2>4, <1>1, <1>3, <1>2
    <3>2. CASE i > s.len
      <4>1. i - s.len \in 1 .. Len(xs) /\ s.len + (i - s.len) = i
        BY <3>2, <1>1, <1>2
      <4>2. Overwritten(array, s.len, xs)[s.len + (i - s.len)] = xs[i - s.len]
        BY <4>1, <2>4
      <4> QED BY <4>1, <4>2, <3>2, <1>1, <1>2, <1>3
    <3> QED BY <3>1, <3>2, <1>1, <1>2
  <2>6. /\ a.heap \in Seq(Seq(S)) /\ Len(a.heap) = Len(h)
        /\ a.heap[s.array] = Overwritten(array, s.len, xs)
        /\ \A i \in 1 .. Len(h) : i # s.array => a.heap[i] = h[i]
    BY <2>2, <2>3, <2>4
  <2> HIDE DEF a, old, array
  <2> QED BY <2>2, <2>3, <2>4, <2>5, <2>6, <1>1, <1>2 DEF Within
<1>7. CASE ~(s.len + Len(xs) <= Capacity(h, s))
  <2> DEFINE array == (old \o xs) \o spare
  <2>1. /\ a.heap = Append(h, array)
        /\ a.slice = [array |-> Len(h) + 1, len |-> s.len + Len(xs)]
    BY <1>7 DEF AppendTo
  <2>2. /\ array \in Seq(S) /\ Len(array) = s.len + Len(xs) + Len(spare)
        /\ \A i \in 1 .. s.len + Len(xs) : array[i] = (old \o xs)[i]
    <3> DEFINE both == old \o xs
    <3>1. both \in Seq(S) /\ Len(both) = s.len + Len(xs)
      BY <1>3
    <3> HIDE DEF both
    <3>2. /\ both \o spare \in Seq(S) /\ Len(both \o spare) = Len(both) + Len(spare)
          /\ \A i \in 1 .. Len(both) + Len(spare) :
                (both \o spare)[i] = IF i <= Len(both) THEN both[i]
                                     ELSE spare[i - Len(both)]
      BY <3>1, ConcatProperties, Zenon
    <3>3. \A i \in 1 .. Len(both) : (both \o spare)[i] = both[i]
      BY <3>1, <3>2, <1>1, <1>2
    <3> QED BY <3>1, <3>2, <3>3 DEF both
  <2> HIDE DEF array
  <2>3. /\ a.heap \in Seq(Seq(S)) /\ Len(a.heap) = Len(h) + 1
        /\ a.heap[Len(h) + 1] = array
        /\ \A i \in 1 .. Len(h) : a.heap[i] = h[i]
    BY <2>1, <2>2, <1>2
  <2>4. Within(a.heap, a.slice)
    <3>1. /\ a.slice.array = Len(h) + 1 /\ a.slice.len = s.len + Len(xs)
          /\ a.slice = [array |-> a.slice.array, len |-> a.slice.len]
      BY <2>1
    <3> HIDE DEF a, old
    <3> QED BY <3>1, <2>2, <2>3, <1>1, <1>2 DEF Within
  <2> HIDE DEF a, old
  <2>5. a.slice.array = Len(h) + 1 /\ a.slice.len = s.len + Len(xs)
    BY <2>1
  <2>6. Len(a.heap) >= Len(h) /\ \A i \in 1 .. Len(h) : i # s.array => a.heap[i] = h[i]
    BY <2>3, <1>2
  <2>7. \A i \in 1 .. s.len + Len(xs) : a.heap[a.slice.array][i] = (old \o xs)[i]
    BY <2>2, <2>3, <2>5
  <2> QED BY <2>3, <2>4, <2>5, <2>6, <2>7
<1> QED BY <1>5, <1>6, <1>7

-----------------------------------------------------------------------------
(* Steps that leave the routers' arrays alone.                             *)

Values == Middlewares \cup {"nil"}

\* Arrays come at the end, and only the application's own is written to.
HeapGrows ==
    /\ heap' \in Seq(Seq(Values))
    /\ Len(heap') >= Len(heap)
    /\ \A a \in 2 .. Len(heap) : heap'[a] = heap[a]

LEMMA SlicesKeep ==
    ASSUME TypeOK, HeapGrows, NEW slice \in Slices, Filled(slice)
    PROVE  /\ slice \in Slices' /\ Filled(slice)'
           /\ Elements(heap, slice)' = Elements(heap, slice)
<1>1. Len(heap) \in Nat /\ Len(heap') \in Nat
  BY DEF TypeOK, HeapGrows
<1>2. CASE slice = Nil
  BY <1>2 DEF Slices, Filled, Elements, Nil
<1>3. CASE slice # Nil
  <2>1. slice.array \in 2 .. Len(heap) /\ heap'[slice.array] = heap[slice.array]
    BY <1>3 DEF Slices, HeapGrows
  <2>2. slice \in Slices'
    BY <1>1, <1>3 DEF Slices, HeapGrows
  <2>3. Filled(slice)'
    BY <1>3, <2>1 DEF Filled
  <2>4. Elements(heap, slice)' = Elements(heap, slice)
    BY <2>1 DEF Elements
  <2> QED BY <2>2, <2>3, <2>4
<1> QED BY <1>2, <1>3

LEMMA RouterOf ==
    ASSUME TypeOK, NEW r \in DOMAIN routers
    PROVE  /\ routers[r] \in [slice : Slices, logger : BOOLEAN]
           /\ r \in 1 .. Len(routers)
<1> DEFINE R == [slice : Slices, logger : BOOLEAN]
<1>1. routers \in Seq(R)
  BY DEF TypeOK
<1> HIDE DEF R
<1>2. routers \in [1 .. Len(routers) -> R] /\ DOMAIN routers = 1 .. Len(routers)
  BY <1>1, LenProperties, Zenon
<1> QED BY <1>2 DEF R

\* What a router's slice holds.
LEMMA ChainOf ==
    ASSUME TypeOK, NEW slice \in Slices, Filled(slice)
    PROVE  /\ Within(heap, slice)
           /\ Elements(heap, slice) \in Seq(Middlewares)
           /\ Len(Elements(heap, slice)) = slice.len
           /\ slice.len \in Nat
           /\ \A i \in 1 .. slice.len : Elements(heap, slice)[i] = heap[slice.array][i]
<1>1. Within(heap, slice)
  BY BoundsAssumption DEF Slices, Filled, Within, Nil
<1>2. heap \in Seq(Seq(Values))
  BY DEF TypeOK, Values
<1>3. /\ Len(Elements(heap, slice)) = slice.len /\ slice.len \in Nat
      /\ \A i \in 1 .. slice.len : Elements(heap, slice)[i] = heap[slice.array][i]
  BY <1>1, <1>2, ElementsOf
<1>4. \A i \in 1 .. slice.len : heap[slice.array][i] \in Middlewares
  BY DEF Filled, Nil
<1>5. Elements(heap, slice) \in [1 .. slice.len -> Middlewares]
  BY <1>4 DEF Elements
<1> QED BY <1>1, <1>3, <1>5, FunctionSeq

LEMMA CallerElements ==
    ASSUME TypeOK, CallerInv, NEW n \in 0 .. MaxArgs
    PROVE  /\ Elements(heap, Caller(n)) \in [1 .. n -> Middlewares]
           /\ Elements(heap, Caller(n)) \in Seq(Middlewares)
           /\ Len(Elements(heap, Caller(n))) = n
<1>1. Elements(heap, Caller(n)) \in [1 .. n -> Middlewares]
  BY BoundsAssumption DEF CallerInv, Elements, Caller
<1> QED BY <1>1, BoundsAssumption, FunctionSeq

LEMMA RoomSeq == Room \subseteq Seq(Values)
<1> SUFFICES ASSUME NEW n \in 0 .. MaxRoom
             PROVE  [i \in 1 .. n |-> "nil"] \in Seq(Values)
  BY DEF Room
<1>1. [i \in 1 .. n |-> "nil"] \in [1 .. n -> Values]
  BY DEF Values
<1> QED BY <1>1, BoundsAssumption, FunctionSeq

-----------------------------------------------------------------------------
(* Group.                                                                  *)

\* What AppendToFacts says of the heap and the slice that append gives.
Appended(h, s, xs, gh, gs) ==
    /\ gh \in Seq(Seq(Values)) /\ Len(gh) >= Len(h)
    /\ \A i \in 1 .. Len(h) : i # s.array => gh[i] = h[i]
    /\ Within(gh, gs)
    /\ gs = Nil \/ gs.array \in {s.array, Len(h) + 1}
    /\ Elements(gh, gs) = Elements(h, s) \o xs

LEMMA AppendToGives ==
    ASSUME NEW h \in Seq(Seq(Values)), NEW s, Within(h, s),
           NEW xs \in Seq(Values), NEW spare \in Seq(Values)
    PROVE  \E gh, gs : /\ AppendTo(h, s, xs, spare).heap = gh
                       /\ AppendTo(h, s, xs, spare).slice = gs
                       /\ Appended(h, s, xs, gh, gs)
<1> DEFINE a == AppendTo(h, s, xs, spare)
<1>1. Appended(h, s, xs, a.heap, a.slice)
  BY AppendToFacts DEF Appended
<1> QED BY <1>1

\* The appends of Group.
Grouped(h, xs, args, room1, room2) ==
    LET c == AppendTo(h, Nil, xs, room1) IN
    AppendTo(c.heap, c.slice, args, room2)

GroupGives(h, s, args, gh, gs) ==
    /\ gh \in Seq(Seq(Values)) /\ Len(gh) >= Len(h)
    /\ \A i \in 1 .. Len(h) : gh[i] = h[i]
    /\ Within(gh, gs)
    /\ gs = Nil \/ gs.array >= 2
    /\ Elements(gh, gs) = Elements(h, s) \o args

\* The two appends of Group write to no array that was there.
LEMMA GroupAppends ==
    ASSUME NEW h \in Seq(Seq(Values)), Len(h) >= 1, NEW s, Within(h, s),
           NEW args \in Seq(Values),
           NEW room1 \in Seq(Values), NEW room2 \in Seq(Values)
    PROVE  LET g == Grouped(h, Elements(h, s), args, room1, room2) IN
           GroupGives(h, s, args, g.heap, g.slice)
<1> DEFINE xs == Elements(h, s)
           c  == AppendTo(h, Nil, xs, room1)
<1>1. xs \in Seq(Values)
  BY ElementsOf
<1>2. Within(h, Nil) /\ Elements(h, Nil) = <<>> /\ Nil.array = 0
  BY DEF Within, Nil, Elements
<1> HIDE DEF xs
<1>3. PICK ch, cs : c.heap = ch /\ c.slice = cs /\ Appended(h, Nil, xs, ch, cs)
  BY <1>1, <1>2, AppendToGives
<1>4. /\ ch \in Seq(Seq(Values)) /\ Len(ch) >= Len(h) /\ Within(ch, cs)
      /\ \A i \in 1 .. Len(h) : ch[i] = h[i]
      /\ Elements(ch, cs) = xs
      /\ cs = Nil \/ cs.array \in {0, Len(h) + 1}
  BY <1>1, <1>2, <1>3, ConcatEmptySeq DEF Appended
<1>5. PICK gh, gs : /\ AppendTo(ch, cs, args, room2).heap = gh
                    /\ AppendTo(ch, cs, args, room2).slice = gs
                    /\ Appended(ch, cs, args, gh, gs)
  BY <1>4, AppendToGives
<1> HIDE DEF c
<1>6. /\ gh \in Seq(Seq(Values)) /\ Len(gh) >= Len(ch)
      /\ \A i \in 1 .. Len(ch) : i # cs.array => gh[i] = ch[i]
      /\ Within(gh, gs)
      /\ gs = Nil \/ gs.array \in {cs.array, Len(ch) + 1}
      /\ Elements(gh, gs) = Elements(ch, cs) \o args
  BY <1>5, Zenon DEF Appended
<1>7. Len(h) \in Nat /\ Len(ch) \in Nat /\ Len(gh) \in Nat
  BY <1>4, <1>6
<1>8. cs.array = 0 \/ cs.array = Len(h) + 1
  BY <1>4 DEF Nil
<1>9. Len(gh) >= Len(h) /\ \A i \in 1 .. Len(h) : gh[i] = h[i]
  <2>1. Len(gh) >= Len(ch) /\ Len(ch) >= Len(h)
    BY <1>4, <1>6
  <2>2. ASSUME NEW i \in 1 .. Len(h)
        PROVE  gh[i] = h[i]
    <3>1. i \in 1 .. Len(ch) /\ i # cs.array
      BY <2>1, <1>7, <1>8
    <3>2. gh[i] = ch[i]
      BY <3>1, <1>6, Zenon
    <3>3. ch[i] = h[i]
      BY <1>4, Zenon
    <3> QED BY <3>2, <3>3
  <2> QED BY <2>1, <2>2, <1>7
<1>10. gs = Nil \/ gs.array >= 2
  <2>1. gs = Nil \/ gs.array \in 1 .. Len(gh)
    BY <1>6 DEF Within
  <2>2. gs = Nil \/ gs.array = cs.array \/ gs.array = Len(ch) + 1
    BY <1>6
  <2>3. Len(ch) >= Len(h)
    BY <1>4
  <2> QED BY <2>1, <2>2, <2>3, <1>7, <1>8
<1>11. /\ Grouped(h, xs, args, room1, room2).heap = gh
       /\ Grouped(h, xs, args, room1, room2).slice = gs
  BY <1>3, <1>5, Zenon DEF Grouped, c
<1>12. Elements(gh, gs) = xs \o args
  BY <1>4, <1>6, Zenon
<1> QED BY <1>6, <1>9, <1>10, <1>11, <1>12, Zenon DEF xs, GroupGives

\* Group gives a router with the receiver's chain and the new middlewares,
\* in an array that no other slice has.
LEMMA GroupFacts ==
    ASSUME TypeOK, CallerInv, SliceInv, NEW r \in DOMAIN routers,
           NEW n \in 0 .. MaxArgs, NEW room1 \in Room, NEW room2 \in Room,
           Group(r, n, room1, room2)
    PROVE  /\ HeapGrows /\ heap'[1] = heap[1]
           /\ \E gs \in Slices' :
                 /\ Filled(gs)'
                 /\ Elements(heap, gs)' = Chain(routers[r]) \o Elements(heap, Caller(n))
                 /\ routers' = Append(routers, [routers[r] EXCEPT !.slice = gs])
<1> DEFINE s    == routers[r].slice
           args == Elements(heap, Caller(n))
<1>1. /\ s \in Slices /\ Filled(s) /\ heap \in Seq(Seq(Values))
      /\ Len(heap) \in Nat /\ Len(heap) >= 1
  <2>1. heap \in Seq(Seq(Values)) /\ heap # <<>>
    BY DEF TypeOK, CallerInv, Values
  <2>2. Len(heap) \in Nat /\ Len(heap) >= 1
    BY <2>1, EmptySeq
  <2>3. routers[r] \in [slice : Slices, logger : BOOLEAN]
    BY RouterOf
  <2>4. s \in Slices
    BY <2>3
  <2>5. Filled(s)
    BY DEF SliceInv
  <2> QED BY <2>1, <2>2, <2>4, <2>5
<1>2. /\ Elements(heap, s) \in Seq(Middlewares)
      /\ Len(Elements(heap, s)) = s.len /\ s.len \in Nat
      /\ Within(heap, s)
  BY <1>1, ChainOf
<1>3. args \in Seq(Middlewares) /\ Len(args) = n
  BY CallerElements
<1>4. args \in Seq(Values) /\ room1 \in Seq(Values) /\ room2 \in Seq(Values)
  BY <1>3, RoomSeq, SeqMonotonic DEF Values
<1>5. /\ s.len + n <= MaxChain
      /\ LET g == Grouped(heap, Elements(heap, s), args, room1, room2) IN
             /\ heap' = g.heap
             /\ routers' = Append(routers, [routers[r] EXCEPT !.slice = g.slice])
  BY DEF Group, MakeRouter, Chain, Grouped
<1> HIDE DEF s, args
<1>6. PICK gs : /\ routers' = Append(routers, [routers[r] EXCEPT !.slice = gs])
                /\ heap' \in Seq(Seq(Values)) /\ Len(heap') >= Len(heap)
                /\ \A i \in 1 .. Len(heap) : heap'[i] = heap[i]
                /\ Within(heap', gs)
                /\ gs = Nil \/ gs.array >= 2
                /\ Elements(heap', gs) = Elements(heap, s) \o args
  <2> DEFINE g == Grouped(heap, Elements(heap, s), args, room1, room2)
  <2>1. GroupGives(heap, s, args, g.heap, g.slice)
    BY <1>1, <1>2, <1>4, GroupAppends
  <2>2. /\ routers' = Append(routers, [routers[r] EXCEPT !.slice = g.slice])
        /\ GroupGives(heap, s, args, heap', g.slice)
    BY <2>1, <1>5
  <2> HIDE DEF g
  <2> QED BY <2>2, Zenon DEF GroupGives
<1>7. HeapGrows /\ heap'[1] = heap[1]
  BY <1>1, <1>6 DEF HeapGrows
<1> DEFINE both == Elements(heap, s) \o args
<1>8. both \in Seq(Middlewares) /\ Len(both) = s.len + n
  <2>1. both \in Seq(Middlewares) /\ Len(both) = Len(Elements(heap, s)) + Len(args)
    BY <1>2, <1>3, ConcatProperties, Zenon
  <2> QED BY <2>1, <1>2, <1>3
<1>9. /\ Len(Elements(heap', gs)) = gs.len
      /\ \A i \in 1 .. gs.len : Elements(heap', gs)[i] = heap'[gs.array][i]
  <2>1. \A hh \in Seq(Seq(Values)) : \A ss : Within(hh, ss) =>
           /\ Len(Elements(hh, ss)) = ss.len
           /\ \A i \in 1 .. ss.len : Elements(hh, ss)[i] = hh[ss.array][i]
    BY ElementsOf
  <2> QED BY <2>1, <1>6
<1>10. /\ gs.len = s.len + n
       /\ \A i \in 1 .. gs.len : heap'[gs.array][i] \in Middlewares
  <2>1. Elements(heap', gs) = both
    BY <1>6
  <2> HIDE DEF both
  <2> QED BY <1>8, <1>9, <2>1
<1>11. gs \in Slices' /\ Filled(gs)'
  <2>1. CASE gs = Nil
    BY <2>1 DEF Slices, Filled
  <2>2. CASE gs # Nil
    <3>1. /\ gs = [array |-> gs.array, len |-> gs.len]
          /\ gs.array \in 1 .. Len(heap') /\ gs.array >= 2
          /\ gs.len \in Nat /\ gs.len <= Len(heap'[gs.array])
      BY <2>2, <1>6 DEF Within
    <3>2. gs \in [array : 2 .. Len(heap'), len : 0 .. MaxChain]
      <4>1. Len(heap') \in Nat
        BY <1>6
      <4> QED BY <3>1, <4>1, <1>5, <1>10, BoundsAssumption
    <3>3. Filled(gs)'
      BY <3>1, <1>10 DEF Filled
    <3> QED BY <3>2, <3>3 DEF Slices
  <2> QED BY <2>1, <2>2
<1>12. Elements(heap, gs)' = Chain(routers[r]) \o args
  BY <1>6 DEF Chain, Elements, s
<1> QED BY <1>6, <1>7, <1>11, <1>12 DEF args

-----------------------------------------------------------------------------
(* The steps, one variable at a time.                                      *)

Router == [slice : Slices, logger : BOOLEAN]

LEMMA HeapSteps ==
    ASSUME IInv, Next
    PROVE  HeapGrows /\ CallerInv'
<1>1. heap \in Seq(Seq(Values)) /\ Len(heap) \in Nat /\ Len(heap) >= 1
  <2>1. heap \in Seq(Seq(Values)) /\ heap # <<>>
    BY DEF IInv, TypeOK, CallerInv, Values
  <2> QED BY <2>1, EmptySeq
<1>2. ASSUME UNCHANGED heap PROVE HeapGrows /\ CallerInv'
  BY <1>1, <1>2 DEF HeapGrows, IInv, CallerInv
<1>3. ASSUME NEW i \in 1 .. MaxArgs, NEW m \in Middlewares, Overwrite(i, m)
      PROVE  HeapGrows /\ CallerInv'
  <2> DEFINE array == [heap[1] EXCEPT ![i] = m]
  <2>1. heap' = [heap EXCEPT ![1] = array]
    BY <1>3 DEF Overwrite
  <2>2. array \in [1 .. MaxArgs -> Middlewares]
    BY DEF IInv, CallerInv
  <2>3. array \in Seq(Values)
    <3>1. array \in [1 .. MaxArgs -> Values]
      BY <2>2 DEF Values
    <3> HIDE DEF array
    <3> QED BY <3>1, BoundsAssumption, FunctionSeq
  <2> HIDE DEF array
  <2>4. /\ heap' \in Seq(Seq(Values)) /\ Len(heap') = Len(heap)
        /\ heap'[1] = array
        /\ \A a \in 2 .. Len(heap) : heap'[a] = heap[a]
    BY <1>1, <2>1, <2>3, ExceptSeq
  <2>5. heap' # <<>>
    BY <1>1, <2>4, EmptySeq
  <2> QED BY <1>1, <2>2, <2>4, <2>5 DEF HeapGrows, CallerInv
<1>4. ASSUME NEW r \in DOMAIN routers, NEW n \in 0 .. MaxArgs,
             NEW room1 \in Room, NEW room2 \in Room, Group(r, n, room1, room2)
      PROVE  HeapGrows /\ CallerInv'
  <2>1. HeapGrows /\ heap'[1] = heap[1]
    BY <1>4, GroupFacts DEF IInv
  <2>2. heap' # <<>>
    BY <1>1, <2>1, EmptySeq DEF HeapGrows
  <2> QED BY <2>1, <2>2 DEF IInv, CallerInv
<1> QED
  BY <1>2, <1>3, <1>4
     DEF Next, WithLogger, Handle, HandleConflict, Serve, Enter, Return

LEMMA RoutersKeep ==
    ASSUME IInv, Next
    PROVE  \A x \in Router : Filled(x.slice) =>
              /\ x \in Router' /\ Filled(x.slice)'
              /\ Chain(x)' = Chain(x)
<1> SUFFICES ASSUME NEW x \in Router, Filled(x.slice)
             PROVE  x \in Router' /\ Filled(x.slice)' /\ Chain(x)' = Chain(x)
  OBVIOUS
<1>1. x.slice \in Slices /\ x = [slice |-> x.slice, logger |-> x.logger]
      /\ x.logger \in BOOLEAN
  BY DEF Router
<1>2. \A slice \in Slices : Filled(slice) =>
         /\ slice \in Slices' /\ Filled(slice)'
         /\ Elements(heap, slice)' = Elements(heap, slice)
  BY HeapSteps, SlicesKeep DEF IInv
<1>3. x.slice \in Slices' /\ Filled(x.slice)' /\ Chain(x)' = Chain(x)
  BY <1>1, <1>2 DEF Chain
<1> QED BY <1>1, <1>3 DEF Router

LEMMA AllMade ==
    ASSUME NEW S, routers' \in Seq(S),
           \A r \in 1 .. Len(routers') :
              \A x : x = routers'[r] => x \in Router' /\ Filled(x.slice)'
    PROVE  /\ routers' \in Seq(Router')
           /\ \A r \in DOMAIN routers' : Filled(routers[r].slice)'
<1>1. /\ Len(routers') \in Nat /\ DOMAIN routers' = 1 .. Len(routers')
      /\ routers' \in [1 .. Len(routers') -> S]
  BY LenProperties
<1> DEFINE R == Router'
<1>2. routers' \in [1 .. Len(routers') -> R]
  BY <1>1
<1>3. routers' \in Seq(R)
  <2> HIDE DEF R
  <2> QED BY <1>1, <1>2, SeqDef
<1>4. ASSUME NEW r \in DOMAIN routers'
      PROVE  Filled(routers[r].slice)'
  <2>1. PICK x : x = routers'[r]
    OBVIOUS
  <2>2. Filled(x.slice)'
    BY <1>1, <2>1
  <2> QED BY <2>1, <2>2 DEF Filled
<1> QED BY <1>3, <1>4

\* A router that is there stays as it is, and a new one is well made.
LEMMA RouterSteps ==
    ASSUME IInv, Next
    PROVE  /\ routers' \in Seq(Router') /\ Len(routers') >= Len(routers)
           /\ \A r \in DOMAIN routers' : Filled(routers[r].slice)'
           /\ \A r \in DOMAIN routers : r \in DOMAIN routers' /\ routers'[r] = routers[r]
<1>1. HeapGrows /\ TypeOK /\ SliceInv /\ CallerInv
  BY HeapSteps DEF IInv
<1> DEFINE n == Len(routers)
<1>2. /\ routers \in Seq(Router) /\ n \in Nat /\ DOMAIN routers = 1 .. n
      /\ \A r \in 1 .. n : routers[r] \in Router /\ Filled(routers[r].slice)
  <2>1. routers \in Seq(Router)
    BY <1>1 DEF TypeOK, Router
  <2> HIDE DEF Router
  <2>2. n \in Nat /\ DOMAIN routers = 1 .. n /\ \A r \in 1 .. n : routers[r] \in Router
    BY <2>1
  <2> QED BY <2>1, <2>2, <1>1 DEF SliceInv
<1>3. \A x \in Router : Filled(x.slice) => x \in Router' /\ Filled(x.slice)'
  BY RoutersKeep
<1>4. \A r \in 1 .. n : \A x : x = routers[r] => x \in Router' /\ Filled(x.slice)'
  BY <1>2, <1>3
<1>5. ASSUME UNCHANGED routers
      PROVE  /\ routers' \in Seq(Router') /\ Len(routers') >= Len(routers)
             /\ \A r \in DOMAIN routers' : Filled(routers[r].slice)'
             /\ \A r \in DOMAIN routers : r \in DOMAIN routers' /\ routers'[r] = routers[r]
  BY <1>2, <1>4, <1>5, AllMade
<1>6. ASSUME NEW x, x \in Router', Filled(x.slice)', routers' = Append(routers, x)
      PROVE  /\ routers' \in Seq(Router') /\ Len(routers') >= Len(routers)
             /\ \A r \in DOMAIN routers' : Filled(routers[r].slice)'
             /\ \A r \in DOMAIN routers : r \in DOMAIN routers' /\ routers'[r] = routers[r]
  <2> HIDE DEF Router
  <2>1. /\ routers' \in Seq(Router \cup {x}) /\ Len(routers') = n + 1
        /\ DOMAIN routers' = 1 .. n + 1
        /\ \A r \in 1 .. n : routers'[r] = routers[r]
        /\ routers'[n + 1] = x
    <3>1. routers \in Seq(Router \cup {x})
      BY <1>2, SeqMonotonic
    <3> QED BY <3>1, <1>2, <1>6
  <2>2. \A r \in 1 .. Len(routers') : \A y : y = routers'[r] => y \in Router' /\ Filled(y.slice)'
    BY <1>2, <1>4, <1>6, <2>1
  <2> QED BY <1>2, <2>1, <2>2, AllMade
<1>7. ASSUME NEW r \in DOMAIN routers, WithLogger(r)
      PROVE  \E x : x \in Router' /\ Filled(x.slice)' /\ routers' = Append(routers, x)
  <2>1. PICK x : x = routers[r]
    OBVIOUS
  <2>2. x \in Router' /\ Filled(x.slice)'
    BY <1>2, <1>4, <2>1
  <2>3. routers' = Append(routers, [x EXCEPT !.logger = TRUE])
    BY <1>7, <2>1 DEF WithLogger, MakeRouter
  <2>4. [x EXCEPT !.logger = TRUE] \in Router' /\ [x EXCEPT !.logger = TRUE].slice = x.slice
    BY <2>2 DEF Router
  <2> DEFINE y == [x EXCEPT !.logger = TRUE]
  <2>5. y \in Router' /\ routers' = Append(routers, y)
    BY <2>3, <2>4
  <2>6. Filled(y.slice)'
    BY <2>2, <2>4
  <2> HIDE DEF y
  <2> QED BY <2>5, <2>6
<1>8. ASSUME NEW r \in DOMAIN routers, NEW k \in 0 .. MaxArgs,
             NEW room1 \in Room, NEW room2 \in Room, Group(r, k, room1, room2)
      PROVE  \E x : x \in Router' /\ Filled(x.slice)' /\ routers' = Append(routers, x)
  <2>1. PICK gs \in Slices' :
           /\ Filled(gs)'
           /\ routers' = Append(routers, [routers[r] EXCEPT !.slice = gs])
    BY <1>1, <1>8, GroupFacts
  <2>2. PICK x : x = [routers[r] EXCEPT !.slice = gs]
    OBVIOUS
  <2>3. routers[r] \in Router
    BY <1>2
  <2>4. x \in Router' /\ x.slice = gs
    BY <2>1, <2>2, <2>3 DEF Router
  <2> QED BY <2>1, <2>2, <2>4
<1> QED BY <1>5, <1>6, <1>7, <1>8
        DEF Next, Overwrite, Handle, HandleConflict, Serve, Enter, Return

\* The same of routes; a new one has the router it was registered with.
LEMMA RouteSteps ==
    ASSUME IInv, Next
    PROVE  /\ DOMAIN routes' \subseteq Patterns
           /\ \A p \in DOMAIN routes : p \in DOMAIN routes' /\ routes'[p] = routes[p]
           /\ \A p \in DOMAIN routes' \ DOMAIN routes : \E r \in DOMAIN routers :
                 Handle(r, p) /\ routes'[p] = routers[r]
<1>1. DOMAIN routes \subseteq Patterns
  BY DEF IInv, TypeOK
<1>2. ASSUME NEW r \in DOMAIN routers, NEW p \in Patterns, Handle(r, p)
      PROVE  /\ DOMAIN routes' \subseteq Patterns
             /\ \A x \in DOMAIN routes : x \in DOMAIN routes' /\ routes'[x] = routes[x]
             /\ \A x \in DOMAIN routes' \ DOMAIN routes : x = p /\ routes'[p] = routers[r]
  BY <1>1, <1>2 DEF Handle
<1>3. ASSUME UNCHANGED routes
      PROVE  /\ DOMAIN routes' \subseteq Patterns
             /\ \A x \in DOMAIN routes : x \in DOMAIN routes' /\ routes'[x] = routes[x]
             /\ DOMAIN routes' \ DOMAIN routes = {}
  BY <1>1, <1>3
<1>4. CASE \E r \in DOMAIN routers, p \in Patterns : Handle(r, p)
  BY <1>2, <1>4
<1>5. CASE ~\E r \in DOMAIN routers, p \in Patterns : Handle(r, p)
  <2>1. UNCHANGED routes
    BY <1>5 DEF Next, Overwrite, WithLogger, Group, MakeRouter, HandleConflict,
                Serve, Enter, Return
  <2> QED BY <1>3, <2>1
<1> QED BY <1>4, <1>5

\* Routes are made of well-made routers, and keep their chains.
LEMMA RoutesMade ==
    ASSUME IInv, Next
    PROVE  /\ \A p \in DOMAIN routes' : routes'[p] \in Router' /\ Filled(routes[p].slice)'
           /\ \A p \in DOMAIN routes : Chain(routes[p])' = Chain(routes[p])
<1>1. \A p \in DOMAIN routes : routes[p] \in Router /\ Filled(routes[p].slice)
  BY DEF IInv, TypeOK, SliceInv, Router
<1>2. \A r \in DOMAIN routers : routers[r] \in Router /\ Filled(routers[r].slice)
  BY RouterOf DEF IInv, SliceInv, Router
<1>3. \A x \in Router : Filled(x.slice) =>
         x \in Router' /\ Filled(x.slice)' /\ Chain(x)' = Chain(x)
  BY RoutersKeep
<1>4. \A p \in DOMAIN routes' : \E x \in Router : routes'[p] = x /\ Filled(x.slice)
  BY <1>1, <1>2, RouteSteps
<1>5. ASSUME NEW p \in DOMAIN routes'
      PROVE  routes'[p] \in Router' /\ Filled(routes[p].slice)'
  <2>1. PICK x \in Router : routes'[p] = x /\ Filled(x.slice)
    BY <1>4, <1>5
  <2> HIDE DEF Router
  <2>2. x \in Router' /\ Filled(x.slice)'
    BY <1>3, <2>1
  <2> QED BY <2>1, <2>2 DEF Filled
<1>6. ASSUME NEW p \in DOMAIN routes
      PROVE  Chain(routes[p])' = Chain(routes[p])
  <2>1. PICK x \in Router : routes[p] = x /\ Filled(x.slice)
    BY <1>1, <1>6
  <2>2. Chain(x)' = Chain(x)
    BY <1>3, <2>1
  <2>3. routes'[p] = x
    BY <1>6, <2>1, RouteSteps
  <2> QED BY <2>1, <2>2, <2>3 DEF Chain, Elements
<1> QED BY <1>5, <1>6

LEMMA LogSteps ==
    ASSUME IInv, Next
    PROVE  LogInv'
<1> SUFFICES ASSUME NEW p \in DOMAIN routes', routes'[p].logger
             PROVE  [pattern |-> p, middlewares |-> Names(Chain(routes[p])')] \in log'
  BY DEF LogInv, Names
<1>1. CASE p \in DOMAIN routes
  <2>1. routes'[p] = routes[p] /\ Chain(routes[p])' = Chain(routes[p])
    BY <1>1, RouteSteps, RoutesMade
  <2>2. log \subseteq log'
    BY DEF Next, Overwrite, WithLogger, Group, MakeRouter, Handle, HandleConflict,
           LogRegistration, Serve, Enter, Return
  <2>3. [pattern |-> p, middlewares |-> Names(Chain(routes[p]))] \in log
    BY <1>1, <2>1 DEF IInv, LogInv
  <2> QED BY <2>1, <2>2, <2>3
<1>2. CASE p \notin DOMAIN routes
  <2>1. PICK r \in DOMAIN routers : Handle(r, p) /\ routes'[p] = routers[r]
    BY <1>2, RouteSteps
  <2>2. heap' = heap /\ Chain(routes[p])' = Chain(routers[r])
    BY <2>1 DEF Handle, Chain, Elements
  <2>3. [pattern |-> p, middlewares |-> Names(Chain(routers[r]))] \in log'
    BY <2>1 DEF Handle, LogRegistration
  <2> QED BY <2>2, <2>3
<1> QED BY <1>1, <1>2

-----------------------------------------------------------------------------
(* Requests.                                                               *)

FrameAt(chain, i) == IF i <= Len(chain) THEN chain[i] ELSE "handler"

\* A stack of the first frames of a chain and its handler.
Runs(stack, chain) ==
    /\ Len(stack) <= Len(chain) + 1
    /\ \A i \in 1 .. Len(stack) : stack[i] = FrameAt(chain, i)

LEMMA RunsAppend ==
    ASSUME NEW chain \in Seq(Middlewares), NEW stack \in Seq(Frames)
    PROVE  Runs(stack, chain) <=>
             /\ Len(stack) <= Len(Append(chain, "handler"))
             /\ \A i \in 1 .. Len(stack) : stack[i] = Append(chain, "handler")[i]
<1> DEFINE run == Append(chain, "handler")
<1>1. chain \in Seq(Frames) /\ "handler" \in Frames
  BY SeqMonotonic DEF Frames
<1>2. /\ Len(run) = Len(chain) + 1 /\ Len(chain) \in Nat /\ Len(stack) \in Nat
      /\ \A i \in 1 .. Len(chain) + 1 : run[i] = FrameAt(chain, i)
  BY <1>1 DEF FrameAt
<1> HIDE DEF run
<1>3. Runs(stack, chain) <=>
        /\ Len(stack) <= Len(run)
        /\ \A i \in 1 .. Len(stack) : stack[i] = run[i]
  <2>1. ASSUME Len(stack) <= Len(run)
        PROVE  \A i \in 1 .. Len(stack) : run[i] = FrameAt(chain, i)
    BY <1>2, <2>1
  <2> QED BY <1>2, <2>1 DEF Runs
<1> QED BY <1>3 DEF run

LEMMA RunsFirst ==
    ASSUME NEW chain \in Seq(Middlewares)
    PROVE  Runs(<<FrameAt(chain, 1)>>, chain) /\ <<FrameAt(chain, 1)>> \in Seq(Frames)
<1>1. FrameAt(chain, 1) \in Frames
  BY DEF FrameAt, Frames
<1> HIDE DEF FrameAt
<1> QED BY <1>1 DEF Runs

\* A frame that is not the handler is a middleware, with a next one.
LEMMA RunsPush ==
    ASSUME NEW chain \in Seq(Middlewares), NEW stack \in Seq(Frames), stack # <<>>,
           Runs(stack, chain), stack[Len(stack)] # "handler"
    PROVE  LET next == Append(stack, FrameAt(chain, Len(stack) + 1)) IN
           /\ Len(stack) <= Len(chain)
           /\ Runs(next, chain) /\ next \in Seq(Frames)
<1>1. Len(stack) \in Nat \ {0} /\ Len(chain) \in Nat
  BY EmptySeq
<1>2. Len(stack) <= Len(chain)
  <2>1. stack[Len(stack)] = FrameAt(chain, Len(stack))
    BY <1>1 DEF Runs
  <2> QED BY <1>1, <2>1 DEF FrameAt
<1>3. FrameAt(chain, Len(stack) + 1) \in Frames
  BY <1>1 DEF FrameAt, Frames
<1> DEFINE f == FrameAt(chain, Len(stack) + 1)
<1>4. f \in Frames /\ f = FrameAt(chain, Len(stack) + 1)
  BY <1>3
<1> HIDE DEF f
<1>5. /\ Append(stack, f) \in Seq(Frames) /\ Len(Append(stack, f)) = Len(stack) + 1
      /\ \A i \in 1 .. Len(stack) : Append(stack, f)[i] = stack[i]
      /\ Append(stack, f)[Len(stack) + 1] = f
  BY <1>4
<1>6. Runs(Append(stack, f), chain)
  BY <1>1, <1>2, <1>4, <1>5 DEF Runs
<1> QED BY <1>2, <1>5, <1>6 DEF f

LEMMA RunsPop ==
    ASSUME NEW chain \in Seq(Middlewares), NEW stack \in Seq(Frames),
           Runs(stack, chain), Len(stack) >= 1
    PROVE  LET rest == SubSeq(stack, 1, Len(stack) - 1) IN
           rest \in Seq(Frames) /\ Runs(rest, chain) /\ Len(rest) = Len(stack) - 1
<1>1. Len(stack) \in Nat /\ Len(chain) \in Nat
  OBVIOUS
<1> DEFINE rest == SubSeq(stack, 1, Len(stack) - 1)
<1>2. /\ rest \in Seq(Frames) /\ Len(rest) = Len(stack) - 1
      /\ \A i \in 1 .. Len(stack) - 1 : rest[i] = stack[i]
  <2>1. PICK n : n = Len(stack) - 1 /\ n \in Int /\ 1 <= n + 1
    BY <1>1
  <2>2. \A i \in 1 .. n : stack[i] \in Frames
    BY <1>1, <2>1
  <2>3. /\ SubSeq(stack, 1, n) \in Seq(Frames)
        /\ Len(SubSeq(stack, 1, n)) = IF 1 <= n THEN n - 1 + 1 ELSE 0
        /\ \A i \in 1 .. n - 1 + 1 : SubSeq(stack, 1, n)[i] = stack[1 + i - 1]
    BY <2>1, <2>2, SubSeqProperties
  <2> DEFINE sub == SubSeq(stack, 1, n)
  <2>4. sub = rest
    BY <2>1
  <2> HIDE DEF sub, rest
  <2>5. /\ sub \in Seq(Frames)
        /\ Len(sub) = IF 1 <= n THEN n - 1 + 1 ELSE 0
        /\ \A i \in 1 .. n - 1 + 1 : sub[i] = stack[1 + i - 1]
    BY <2>3 DEF sub
  <2>6. n - 1 + 1 = n /\ Len(sub) = n
    BY <2>1, <2>5
  <2>7. ASSUME NEW i \in 1 .. n PROVE sub[i] = stack[i]
    <3>1. i \in 1 .. n - 1 + 1 /\ 1 + i - 1 = i
      BY <2>1
    <3> QED BY <2>5, <3>1
  <2> QED BY <2>1, <2>4, <2>5, <2>6, <2>7
<1> HIDE DEF rest
<1>3. Runs(rest, chain)
  BY <1>1, <1>2 DEF Runs
<1> QED BY <1>2, <1>3 DEF rest

\* What a request reads from the array is what its router's chain says.
LEMMA DispatchIs ==
    ASSUME TypeOK, NEW slice \in Slices, Filled(slice), NEW i \in Nat
    PROVE  /\ Dispatch(slice, i) = FrameAt(Elements(heap, slice), i + 1)
           /\ Elements(heap, slice) \in Seq(Middlewares)
<1>1. /\ Elements(heap, slice) \in Seq(Middlewares)
      /\ Len(Elements(heap, slice)) = slice.len /\ slice.len \in Nat
      /\ \A j \in 1 .. slice.len : Elements(heap, slice)[j] = heap[slice.array][j]
  BY ChainOf
<1> DEFINE e == Elements(heap, slice)
<1> HIDE DEF e
<1>2. /\ Len(e) = slice.len /\ slice.len \in Nat
      /\ \A j \in 1 .. slice.len : e[j] = heap[slice.array][j]
  BY <1>1 DEF e
<1>3. Dispatch(slice, i) = FrameAt(e, i + 1)
  BY <1>2 DEF Dispatch, FrameAt
<1> QED BY <1>1, <1>3 DEF e

\* A request has frames of the chain of a registered route.
Running(rq) ==
    /\ rq \in [pattern : Patterns \cup {"none"}, stack : Seq(Frames)]
    /\ rq = Idle \/ rq.pattern \in DOMAIN routes
    /\ rq.stack # <<>> => Runs(rq.stack, Chain(routes[rq.pattern]))

LEMMA RouteOf ==
    ASSUME TypeOK, SliceInv, NEW p \in DOMAIN routes
    PROVE  /\ routes[p].slice \in Slices /\ Filled(routes[p].slice)
           /\ Chain(routes[p]) \in Seq(Middlewares)
<1>1. routes[p].slice \in Slices /\ Filled(routes[p].slice)
  BY DEF TypeOK, SliceInv
<1> QED BY <1>1, ChainOf DEF Chain

LEMMA RunningAre ==
    ASSUME TypeOK, SliceInv
    PROVE  RunsRegisteredChain <=> \A q \in Requests : Running(requests[q])
<1> SUFFICES ASSUME NEW q \in Requests
             PROVE  Running(requests[q]) <=>
                      LET stack == requests[q].stack
                          run == Append(Chain(routes[requests[q].pattern]), "handler")
                      IN  stack # <<>> =>
                            /\ Len(stack) <= Len(run)
                            /\ \A i \in 1 .. Len(stack) : stack[i] = run[i]
  BY DEF RunsRegisteredChain
<1>1. /\ requests[q] \in [pattern : Patterns \cup {"none"}, stack : Seq(Frames)]
      /\ requests[q] = Idle \/ requests[q].pattern \in DOMAIN routes
      /\ requests[q].stack \in Seq(Frames)
  BY DEF TypeOK
<1>2. CASE requests[q].stack = <<>>
  BY <1>1, <1>2 DEF Running
<1>3. CASE requests[q].stack # <<>>
  <2>1. requests[q].pattern \in DOMAIN routes
    BY <1>1, <1>3 DEF Idle
  <2>2. Chain(routes[requests[q].pattern]) \in Seq(Middlewares)
    BY <2>1, RouteOf
  <2> DEFINE chain == Chain(routes[requests[q].pattern])
             stack == requests[q].stack
  <2>3. Runs(stack, chain) <=>
             /\ Len(stack) <= Len(Append(chain, "handler"))
             /\ \A i \in 1 .. Len(stack) : stack[i] = Append(chain, "handler")[i]
    BY <1>1, <2>2, RunsAppend
  <2> QED BY <1>1, <1>3, <2>3 DEF Running
<1> QED BY <1>2, <1>3

\* What a request is after a step that changes it.
LEMMA RequestMoves ==
    ASSUME IInv, NEW q \in Requests, NEW p \in Patterns,
           Serve(q, p) \/ Enter(q) \/ Return(q)
    PROVE  \E rq : Running(rq) /\ requests' = [requests EXCEPT ![q] = rq]
<1>1. TypeOK /\ SliceInv /\ Running(requests[q])
  BY RunningAre DEF IInv
<1>2. PICK rq : rq = requests[q] /\ Running(rq)
  BY <1>1
<1>3. CASE Serve(q, p)
  <2>1. p \in DOMAIN routes
    BY <1>3 DEF Serve
  <2> DEFINE chain == Chain(routes[p])
             frame == FrameAt(chain, 1)
             new   == [pattern |-> p, stack |-> <<frame>>]
  <2>2. chain \in Seq(Middlewares) /\ Dispatch(routes[p].slice, 0) = frame
    BY <1>1, <2>1, RouteOf, DispatchIs DEF Chain
  <2>3. requests' = [requests EXCEPT ![q] = new]
    BY <1>3, <2>2 DEF Serve
  <2>4. Runs(<<frame>>, chain) /\ <<frame>> \in Seq(Frames)
    BY <2>2, RunsFirst
  <2> HIDE DEF frame
  <2>5. Running(new)
    BY <2>1, <2>4 DEF Running
  <2> QED BY <2>3, <2>5
<1>4. CASE Enter(q)
  <2> DEFINE chain == Chain(routes[rq.pattern])
             stack == rq.stack
             next  == Append(stack, FrameAt(chain, Len(stack) + 1))
  <2>1. stack # <<>> /\ stack[Len(stack)] # "handler"
    BY <1>2, <1>4 DEF Enter
  <2>2. /\ rq.pattern \in DOMAIN routes /\ stack \in Seq(Frames)
        /\ Runs(stack, chain) /\ rq \in [pattern : Patterns \cup {"none"}, stack : Seq(Frames)]
    BY <1>2, <2>1 DEF Running, Idle
  <2>3. chain \in Seq(Middlewares)
        /\ Dispatch(routes[rq.pattern].slice, Len(stack)) = FrameAt(chain, Len(stack) + 1)
    BY <1>1, <2>2, RouteOf, DispatchIs DEF Chain
  <2>4. Runs(next, chain) /\ next \in Seq(Frames)
    <3> HIDE DEF chain, stack
    <3> QED BY <2>1, <2>2, <2>3, RunsPush
  <2>5. requests' = [requests EXCEPT ![q].stack = next]
    BY <1>2, <1>4, <2>3 DEF Enter
  <2> DEFINE new == [rq EXCEPT !.stack = next]
  <2>6. requests' = [requests EXCEPT ![q] = new]
    BY <1>2, <2>5
  <2>7. new.stack = next /\ new.pattern = rq.pattern
        /\ new \in [pattern : Patterns \cup {"none"}, stack : Seq(Frames)]
    BY <2>2, <2>4
  <2> HIDE DEF next, new
  <2>8. Running(new)
    BY <2>2, <2>4, <2>7 DEF Running
  <2> QED BY <2>6, <2>8
<1>5. CASE Return(q)
  <2> DEFINE chain == Chain(routes[rq.pattern])
             stack == rq.stack
             rest  == SubSeq(stack, 1, Len(stack) - 1)
             new   == IF Len(stack) = 1 THEN Idle ELSE [rq EXCEPT !.stack = rest]
  <2>1. stack # <<>> /\ requests' = [requests EXCEPT ![q] = new]
    BY <1>2, <1>5 DEF Return
  <2>2. /\ rq.pattern \in DOMAIN routes /\ stack \in Seq(Frames) /\ Len(stack) >= 1
        /\ Runs(stack, chain) /\ rq \in [pattern : Patterns \cup {"none"}, stack : Seq(Frames)]
    BY <1>2, <2>1, EmptySeq DEF Running, Idle
  <2>3. chain \in Seq(Middlewares)
    BY <1>1, <2>2, RouteOf
  <2>4. Runs(rest, chain) /\ rest \in Seq(Frames)
    <3> HIDE DEF chain, stack
    <3> QED BY <2>2, <2>3, RunsPop
  <2> HIDE DEF rest
  <2>5. Running(Idle)
    BY EmptySeq DEF Running, Idle
  <2> DEFINE popped == [rq EXCEPT !.stack = rest]
  <2>6. popped.stack = rest /\ popped.pattern = rq.pattern
        /\ popped \in [pattern : Patterns \cup {"none"}, stack : Seq(Frames)]
    BY <2>2, <2>4
  <2> HIDE DEF popped
  <2>7. Running(popped)
    BY <2>2, <2>4, <2>6 DEF Running
  <2> QED BY <2>1, <2>5, <2>7 DEF popped
<1> QED BY <1>3, <1>4, <1>5

\* Routes and chains are kept, so that requests stay right.
LEMMA RunningKeeps ==
    ASSUME IInv, Next, NEW rq, Running(rq)
    PROVE  Running(rq)'
<1>1. CASE rq = Idle
  BY <1>1, EmptySeq DEF Running, Idle, Frames
<1>2. CASE rq # Idle
  <2>1. rq.pattern \in DOMAIN routes /\ rq.pattern \in DOMAIN routes'
    BY <1>2, RouteSteps DEF Running
  <2>2. Chain(routes[rq.pattern])' = Chain(routes[rq.pattern])
    BY <2>1, RoutesMade
  <2> QED BY <2>1, <2>2 DEF Running, Frames, Idle, Runs, FrameAt
<1> QED BY <1>1, <1>2

LEMMA RequestSteps ==
    ASSUME IInv, Next
    PROVE  /\ requests' \in [Requests -> [pattern : Patterns \cup {"none"}, stack : Seq(Frames)]]
           /\ \A q \in Requests : Running(requests[q])'
<1>1. /\ requests \in [Requests -> [pattern : Patterns \cup {"none"}, stack : Seq(Frames)]]
      /\ \A q \in Requests : Running(requests[q])
  BY RunningAre DEF IInv, TypeOK
<1>2. \A q \in Requests : \A rq : rq = requests[q] => Running(rq)'
  BY <1>1, RunningKeeps
<1>3. CASE UNCHANGED requests
  BY <1>1, <1>2, <1>3 DEF Running
<1>4. ASSUME NEW q \in Requests, NEW p \in Patterns,
             Serve(q, p) \/ Enter(q) \/ Return(q)
      PROVE  /\ requests' \in [Requests -> [pattern : Patterns \cup {"none"}, stack : Seq(Frames)]]
             /\ \A x \in Requests : Running(requests[x])'
  <2>1. PICK rq : Running(rq) /\ requests' = [requests EXCEPT ![q] = rq]
    BY <1>4, RequestMoves
  <2>2. Running(rq)' /\ rq \in [pattern : Patterns \cup {"none"}, stack : Seq(Frames)]
    BY <2>1, RunningKeeps DEF Running
  <2>3. ASSUME NEW x \in Requests PROVE Running(requests[x])'
    <3>1. PICK y : y = requests'[x] /\ Running(y)'
      BY <1>1, <1>2, <2>1, <2>2
    <3> QED BY <3>1 DEF Running
  <2> QED BY <1>1, <2>1, <2>2, <2>3
<1>5. ASSUME NEW q \in Requests, Enter(q) \/ Return(q)
      PROVE  \E p \in Patterns : TRUE
  <2>1. requests[q].stack # <<>>
    BY <1>5 DEF Enter, Return
  <2>2. requests[q].pattern \in DOMAIN routes
    BY <1>1, <2>1 DEF Running, Idle
  <2> QED BY <2>2 DEF IInv, TypeOK
<1> QED
  BY <1>3, <1>4, <1>5
     DEF Next, Overwrite, WithLogger, Group, MakeRouter, Handle, HandleConflict

-----------------------------------------------------------------------------
(* The theorems.                                                           *)

LEMMA InitIInv == Init => IInv
<1> SUFFICES ASSUME Init PROVE IInv
  OBVIOUS
<1>1. PICK array \in [1 .. MaxArgs -> Middlewares] : heap = <<array>>
  BY DEF Init
<1>2. array \in Seq(Values)
  <2>1. array \in [1 .. MaxArgs -> Values]
    BY DEF Values
  <2> QED BY <2>1, BoundsAssumption, FunctionSeq
<1>3. heap \in Seq(Seq(Values)) /\ heap # <<>> /\ heap[1] = array
  BY <1>1, <1>2
<1>4. /\ routers = <<[slice |-> Nil, logger |-> FALSE]>>
      /\ DOMAIN routes = {} /\ requests = [q \in Requests |-> Idle]
  BY DEF Init
<1>5. TypeOK
  <2>1. [slice |-> Nil, logger |-> FALSE] \in Router
    BY DEF Router, Slices
  <2> HIDE DEF Router
  <2>2. routers \in Seq(Router)
    BY <1>4, <2>1
  <2>3. Idle \in [pattern : Patterns \cup {"none"}, stack : Seq(Frames)]
    BY EmptySeq DEF Idle
  <2> QED BY <1>3, <1>4, <2>2, <2>3 DEF TypeOK, Values, Router
<1>6. CallerInv
  BY <1>1, <1>3 DEF CallerInv
<1>7. SliceInv
  <2>1. DOMAIN routers = {1} /\ routers[1].slice = Nil
    BY <1>4
  <2> QED BY <1>4, <2>1 DEF SliceInv, Filled
<1>8. RunsRegisteredChain /\ LogInv
  BY <1>4 DEF RunsRegisteredChain, LogInv, Idle
<1> QED BY <1>5, <1>6, <1>7, <1>8 DEF IInv

LEMMA StepIInv == IInv /\ [Next]_vars => IInv'
<1>1. ASSUME IInv, UNCHANGED vars PROVE IInv'
  <2>1. /\ heap' = heap /\ routers' = routers /\ routes' = routes
        /\ log' = log /\ requests' = requests /\ IInv
    BY <1>1 DEF vars
  <2>2. TypeOK'
    BY <2>1 DEF IInv, TypeOK, Slices, Frames, Idle
  <2>3. CallerInv' /\ SliceInv'
    BY <2>1 DEF IInv, CallerInv, SliceInv, Filled
  <2>4. RunsRegisteredChain'
    BY <2>1 DEF IInv, RunsRegisteredChain, Chain, Elements
  <2>5. LogInv'
    <3> SUFFICES ASSUME NEW p \in DOMAIN routes', routes'[p].logger
                 PROVE  [pattern |-> p, middlewares |-> Names(Chain(routes[p])')] \in log'
      BY DEF LogInv, Names
    <3>1. Chain(routes[p])' = Chain(routes[p])
      BY <2>1 DEF Chain, Elements
    <3>2. [pattern |-> p, middlewares |-> Names(Chain(routes[p]))] \in log
      BY <2>1 DEF IInv, LogInv
    <3> QED BY <2>1, <3>1, <3>2
  <2> QED BY <2>2, <2>3, <2>4, <2>5 DEF IInv
<1>2. ASSUME IInv, Next PROVE IInv'
  <2>1. HeapGrows /\ CallerInv'
    BY <1>2, HeapSteps
  <2>2. /\ routers' \in Seq(Router')
        /\ \A r \in DOMAIN routers' : Filled(routers[r].slice)'
    BY <1>2, RouterSteps
  <2>3. /\ DOMAIN routes' \subseteq Patterns
        /\ \A p \in DOMAIN routes' : routes'[p] \in Router' /\ Filled(routes[p].slice)'
    BY <1>2, RouteSteps, RoutesMade
  <2>4. /\ requests' \in [Requests -> [pattern : Patterns \cup {"none"}, stack : Seq(Frames)]]
        /\ \A q \in Requests : Running(requests[q])'
    BY <1>2, RequestSteps
  <2>5. TypeOK'
    <3>1. \A q \in Requests : requests'[q] = Idle \/ requests'[q].pattern \in DOMAIN routes'
      BY <2>4 DEF Running, Idle
    <3> QED BY <2>1, <2>2, <2>3, <2>4, <3>1
            DEF TypeOK, HeapGrows, Values, Router, Frames, Idle
  <2>6. SliceInv'
    BY <2>2, <2>3 DEF SliceInv
  <2>7. RunsRegisteredChain'
    <3>1. TypeOK /\ SliceInv =>
             (RunsRegisteredChain <=> \A q \in Requests : Running(requests[q]))
      BY RunningAre
    <3>2. (TypeOK /\ SliceInv =>
             (RunsRegisteredChain <=> \A q \in Requests : Running(requests[q])))'
      BY RunningAre, PTL
    <3> QED BY <2>4, <2>5, <2>6, <3>2
  <2>8. LogInv'
    BY <1>2, LogSteps
  <2> QED BY <2>1, <2>5, <2>6, <2>7, <2>8 DEF IInv
<1> QED BY <1>1, <1>2

\* The inductive invariant holds in every reachable state.
THEOREM InvariantCorrect == Spec => []IInv
<1>1. Init => IInv
  BY InitIInv
<1>2. IInv /\ [Next]_vars => IInv'
  BY StepIInv
<1> QED BY <1>1, <1>2, PTL DEF Spec

\* Every variable keeps to its type, for any middlewares, patterns and bounds.
THEOREM TypeCorrect == Spec => []TypeOK
<1>1. IInv => TypeOK
  BY DEF IInv
<1> QED BY <1>1, InvariantCorrect, PTL

\* A request runs the chain of its route in order and then its handler,
\* whatever happens to other routers and to the application's slice meanwhile.
THEOREM RunsCorrect == Spec => []RunsRegisteredChain
<1>1. IInv => RunsRegisteredChain
  BY DEF IInv
<1> QED BY <1>1, InvariantCorrect, PTL

\* The line logged for a route tells what it runs.
THEOREM LogCorrect == Spec => []LogTellsChain
<1>1. IInv => LogTellsChain
  <2> SUFFICES ASSUME IInv, NEW p \in DOMAIN routes, routes[p].logger
               PROVE  \E line \in log :
                          /\ line.pattern = p
                          /\ Len(line.middlewares) = Len(Chain(routes[p]))
                          /\ \A i \in 1 .. Len(Chain(routes[p])) :
                                line.middlewares[i] \in
                                    (IF Chain(routes[p])[i] \in Resolvable
                                     THEN {Chain(routes[p])[i]} ELSE {"<unknown>"})
    BY DEF LogTellsChain
  <2> DEFINE chain == Chain(routes[p])
  <2>1. [pattern |-> p, middlewares |-> Names(chain)] \in log
    BY DEF IInv, LogInv
  <2>2. Len(chain) \in Nat
    BY DEF IInv, TypeOK, Slices, Nil, Chain, Elements
  <2>3. /\ Len(Names(chain)) = Len(chain)
        /\ \A i \in 1 .. Len(chain) :
              Names(chain)[i] \in
                  (IF chain[i] \in Resolvable THEN {chain[i]} ELSE {"<unknown>"})
    <3> HIDE DEF chain
    <3> QED BY <2>2 DEF Names
  <2> QED BY <2>1, <2>3
<1> QED BY <1>1, InvariantCorrect, PTL

\* No router's chain is ever changed.
THEOREM ChainsCorrect == Spec => ChainsNeverChange
<1> DEFINE Kept == \A r \in DOMAIN routers :
                     r \in DOMAIN routers' /\ Chain(routers[r])' = Chain(routers[r])
<1>1. ASSUME IInv, Next PROVE Kept
  <2> SUFFICES ASSUME NEW r \in DOMAIN routers
               PROVE  r \in DOMAIN routers' /\ Chain(routers[r])' = Chain(routers[r])
    OBVIOUS
  <2>1. routers[r] \in Router /\ Filled(routers[r].slice)
    BY <1>1, RouterOf DEF IInv, SliceInv, Router
  <2>2. PICK x \in Router : x = routers[r] /\ Filled(x.slice)
    BY <2>1
  <2>3. Chain(x)' = Chain(x)
    BY <1>1, <2>2, RoutersKeep
  <2>4. r \in DOMAIN routers' /\ routers'[r] = x
    BY <1>1, <2>2, RouterSteps
  <2> QED BY <2>2, <2>3, <2>4 DEF Chain, Elements
<1>2. IInv /\ [Next]_vars =>
         [\A r \in DOMAIN routers : /\ r \in DOMAIN routers'
                                    /\ Chain(routers[r])' = Chain(routers[r])]_vars
  BY <1>1
<1> QED BY <1>2, InvariantCorrect, PTL DEF Spec, ChainsNeverChange

-----------------------------------------------------------------------------
(* The refinement.                                                         *)

LEMMA PromiseInit == Init => Promise!Init
<1> SUFFICES ASSUME Init PROVE Promise!Init
  OBVIOUS
<1>1. routers = <<[slice |-> Nil, logger |-> FALSE]>> /\ routes = <<>>
      /\ requests = [q \in Requests |-> Idle]
  BY DEF Init
<1> DEFINE chains == [r \in DOMAIN routers |-> Chain(routers[r])]
<1>2. chains = << <<>> >>
  <2>1. DOMAIN routers = {1} /\ Chain(routers[1]) = <<>>
    BY <1>1 DEF Chain, Elements, Nil
  <2>2. chains = [r \in 1 .. 1 |-> <<>>]
    BY <2>1
  <2> QED BY <2>2
<1>3. [p \in DOMAIN routes |-> Chain(routes[p])] = <<>>
  BY <1>1
<1> QED BY <1>1, <1>2, <1>3 DEF Promise!Init, Promise!Idle, Idle

\* A router more is a chain more.
LEMMA ChainsAppend ==
    ASSUME IInv, Next, NEW x, routers' = Append(routers, x)
    PROVE  [r \in DOMAIN routers |-> Chain(routers[r])]'
             = Append([r \in DOMAIN routers |-> Chain(routers[r])], Elements(heap', x.slice))
<1>1. PICK n \in Nat : n = Len(routers) /\ routers \in Seq(Router) /\ DOMAIN routers = 1 .. n
  <2>1. routers \in Seq(Router)
    BY DEF IInv, TypeOK, Router
  <2> HIDE DEF Router
  <2> QED BY <2>1
<1>2. /\ DOMAIN routers' = 1 .. n + 1 /\ routers'[n + 1] = x
      /\ \A r \in 1 .. n : routers'[r] = routers[r]
  <2> HIDE DEF Router
  <2>1. routers \in Seq(Router \cup {x})
    BY <1>1, SeqMonotonic
  <2> QED BY <1>1, <2>1
<1>3. \A r \in 1 .. n : Chain(routers[r])' = Chain(routers[r])
  <2> TAKE r \in 1 .. n
  <2>1. PICK y \in Router : y = routers[r] /\ Filled(y.slice)
    BY <1>1, RouterOf DEF IInv, SliceInv, Router
  <2>2. Chain(y)' = Chain(y)
    BY <2>1, RoutersKeep
  <2> QED BY <1>2, <2>1, <2>2 DEF Chain, Elements
<1>4. Chain(routers[n + 1])' = Elements(heap', x.slice)
  BY <1>2 DEF Chain, Elements
<1>5. PICK old, e : /\ old = [r \in 1 .. n |-> Chain(routers[r])]
                    /\ e = Elements(heap', x.slice)
  OBVIOUS
<1>6. [r \in DOMAIN routers |-> Chain(routers[r])]'
        = [r \in 1 .. n + 1 |-> IF r <= n THEN old[r] ELSE e]
  <2>1. \A r \in 1 .. n : Elements(heap', routers'[r].slice) = old[r]
    <3>1. \A r \in 1 .. n : Elements(heap', routers'[r].slice) = Chain(routers[r])
      BY <1>3 DEF Chain, Elements
    <3> QED BY <1>5, <3>1
  <2>2. Elements(heap', routers'[n + 1].slice) = e
    BY <1>2, <1>5
  <2>3. ASSUME NEW r \in 1 .. n + 1
        PROVE  Elements(heap', routers'[r].slice) = IF r <= n THEN old[r] ELSE e
    <3>1. r \in 1 .. n \/ (r = n + 1 /\ ~(r <= n))
      OBVIOUS
    <3>2. r \in 1 .. n => r <= n
      OBVIOUS
    <3> QED BY <2>1, <2>2, <3>1, <3>2
  <2>4. [r \in DOMAIN routers' |-> Elements(heap', routers'[r].slice)]
          = [r \in 1 .. n + 1 |-> IF r <= n THEN old[r] ELSE e]
    BY <1>2, <2>3
  <2> QED BY <2>4 DEF Chain, Elements
<1> DEFINE S == {Chain(routers[r]) : r \in 1 .. n} \cup {e}
<1>7. old \in Seq(S) /\ Len(old) = n /\ e \in S
  <2>1. old \in [1 .. n -> S]
    BY <1>5
  <2> HIDE DEF S
  <2>2. old \in Seq(S) /\ Len(old) = n
    BY <2>1, FunctionSeq
  <2> QED BY <2>2 DEF S
<1>8. Append(old, e) = [r \in 1 .. n + 1 |-> IF r <= n THEN old[r] ELSE e]
  <2> DEFINE f == [r \in 1 .. n + 1 |-> IF r <= n THEN old[r] ELSE e]
  <2> HIDE DEF S
  <2>1. /\ Append(old, e) \in Seq(S) /\ Len(Append(old, e)) = n + 1
        /\ \A r \in 1 .. n : Append(old, e)[r] = old[r]
        /\ Append(old, e)[n + 1] = e
    BY <1>7
  <2>2. f \in [1 .. n + 1 -> S] /\ \A r \in 1 .. n + 1 : f[r] = IF r <= n THEN old[r] ELSE e
    BY <1>7
  <2> HIDE DEF f
  <2>3. f \in Seq(S) /\ Len(f) = n + 1
    BY <2>2, FunctionSeq
  <2> DEFINE a == Append(old, e)
  <2>4. a \in Seq(S) /\ Len(a) = Len(f) /\ \A r \in 1 .. Len(a) : a[r] = f[r]
    BY <2>1, <2>2, <2>3
  <2> HIDE DEF a
  <2>5. a = f
    BY <2>3, <2>4, SeqEqual
  <2> QED BY <2>5 DEF a, f
<1>9. old = [r \in DOMAIN routers |-> Chain(routers[r])]
  BY <1>1, <1>5
<1> QED BY <1>5, <1>6, <1>8, <1>9

LEMMA ChainsSame ==
    ASSUME IInv, Next, UNCHANGED routers
    PROVE  [r \in DOMAIN routers |-> Chain(routers[r])]'
             = [r \in DOMAIN routers |-> Chain(routers[r])]
<1>1. \A r \in DOMAIN routers : Chain(routers[r])' = Chain(routers[r])
  <2> TAKE r \in DOMAIN routers
  <2>1. PICK y \in Router : y = routers[r] /\ Filled(y.slice)
    BY RouterOf DEF IInv, SliceInv, Router
  <2>2. Chain(y)' = Chain(y)
    BY <2>1, RoutersKeep
  <2> QED BY <2>1, <2>2 DEF Chain, Elements
<1> QED BY <1>1

LEMMA TableSame ==
    ASSUME IInv, Next, UNCHANGED routes
    PROVE  [p \in DOMAIN routes |-> Chain(routes[p])]'
             = [p \in DOMAIN routes |-> Chain(routes[p])]
BY RoutesMade

\* A frame of the promise is what the array holds.
LEMMA FrameIs ==
    ASSUME IInv, NEW p \in DOMAIN routes, NEW i \in Nat
    PROVE  Dispatch(routes[p].slice, i)
             = Promise!FrameOf([x \in DOMAIN routes |-> Chain(routes[x])][p], i + 1)
<1>1. Dispatch(routes[p].slice, i) = FrameAt(Chain(routes[p]), i + 1)
  BY RouteOf, DispatchIs DEF IInv, Chain
<1> QED BY <1>1 DEF Promise!FrameOf, FrameAt

LEMMA PromiseStep == IInv /\ [Next]_vars => [Promise!Next]_Promise!rvars
<1> DEFINE chains == [r \in DOMAIN routers |-> Chain(routers[r])]
           table  == [p \in DOMAIN routes |-> Chain(routes[p])]
<1> SUFFICES ASSUME IInv, [Next]_vars
             PROVE  Promise!Next \/ UNCHANGED <<chains, table, requests>>
  BY DEF Promise!rvars
<1>1. CASE UNCHANGED vars
  BY <1>1 DEF vars, Chain, Elements
<1>2. ASSUME Next, UNCHANGED <<routers, routes, requests>>
      PROVE  UNCHANGED <<chains, table, requests>>
  BY <1>2, ChainsSame, TableSame
<1>3. ASSUME NEW r \in DOMAIN routers, NEW n \in 0 .. MaxArgs,
             NEW room1 \in Room, NEW room2 \in Room, Group(r, n, room1, room2)
      PROVE  Promise!Next
  <2>0. Next /\ UNCHANGED <<routes, log, requests>>
    BY <1>3 DEF Next, Group, MakeRouter
  <2>1. PICK gs \in Slices' :
           /\ Elements(heap, gs)' = Chain(routers[r]) \o Elements(heap, Caller(n))
           /\ routers' = Append(routers, [routers[r] EXCEPT !.slice = gs])
    BY <1>3, GroupFacts DEF IInv
  <2>2. PICK x : x = [routers[r] EXCEPT !.slice = gs] /\ x.slice = gs
    <3>1. routers[r] \in [slice : Slices, logger : BOOLEAN]
      BY RouterOf DEF IInv
    <3>2. [routers[r] EXCEPT !.slice = gs].slice = gs
      BY <3>1
    <3> QED BY <3>2
  <2>3. chains' = Append(chains, Elements(heap', x.slice))
    BY <2>0, <2>1, <2>2, ChainsAppend
  <2>4. Elements(heap', x.slice) = chains[r] \o Elements(heap, Caller(n))
    BY <2>1, <2>2 DEF Elements
  <2>5. Elements(heap, Caller(n)) \in Promise!Args
    <3>1. Elements(heap, Caller(n)) \in [1 .. n -> Middlewares]
      BY CallerElements DEF IInv
    <3> QED BY <3>1 DEF Promise!Args
  <2>6. r \in DOMAIN chains /\ table' = table
    BY <2>0, TableSame
  <2>7. Promise!Group(r, Elements(heap, Caller(n)))
    BY <2>0, <2>3, <2>4, <2>6 DEF Promise!Group
  <2> QED BY <2>5, <2>6, <2>7 DEF Promise!Next
<1>4. ASSUME NEW r \in DOMAIN routers, WithLogger(r)
      PROVE  Promise!Next
  <2>0. Next /\ UNCHANGED <<heap, routes, log, requests>>
    BY <1>4 DEF Next, WithLogger, MakeRouter
  <2>1. PICK x : /\ x = [routers[r] EXCEPT !.logger = TRUE] /\ x.slice = routers[r].slice
                 /\ routers' = Append(routers, x)
    BY <1>4, RouterOf DEF IInv, WithLogger, MakeRouter
  <2>2. chains' = Append(chains, Elements(heap', x.slice))
    BY <2>0, <2>1, ChainsAppend
  <2>3. Elements(heap', x.slice) = chains[r]
    BY <2>0, <2>1 DEF Chain, Elements
  <2>4. r \in DOMAIN chains /\ table' = table
    BY <2>0, TableSame
  <2>5. Promise!Derive(r)
    BY <2>0, <2>2, <2>3, <2>4 DEF Promise!Derive
  <2> QED BY <2>4, <2>5 DEF Promise!Next
<1>5. ASSUME NEW r \in DOMAIN routers, NEW p \in Patterns, Handle(r, p)
      PROVE  Promise!Next
  <2>0. Next /\ UNCHANGED <<heap, routers, requests>>
    BY <1>5 DEF Next, Handle
  <2>1. r \in DOMAIN chains /\ chains' = chains
    BY <2>0, ChainsSame
  <2>2. p \notin DOMAIN table
    BY <1>5 DEF Handle
  <2>3. table' = [x \in DOMAIN table \cup {p} |-> IF x = p THEN chains[r] ELSE table[x]]
    <3>1. /\ DOMAIN routes' = DOMAIN routes \cup {p} /\ p \notin DOMAIN routes
          /\ routes'[p] = routers[r]
          /\ \A x \in DOMAIN routes : routes'[x] = routes[x]
      BY <1>5 DEF Handle
    <3>2. \A x \in DOMAIN routes' : Elements(heap, routes'[x].slice)
             = IF x = p THEN chains[r] ELSE table[x]
      BY <3>1 DEF Chain
    <3>3. table' = [x \in DOMAIN routes' |-> Elements(heap, routes'[x].slice)]
      BY <2>0 DEF Chain, Elements
    <3> QED BY <3>1, <3>2, <3>3
  <2>4. Promise!Handle(r, p)
    BY <2>0, <2>1, <2>2, <2>3 DEF Promise!Handle
  <2> QED BY <2>1, <2>4 DEF Promise!Next
<1>6. ASSUME NEW q \in Requests, NEW p \in Patterns, Serve(q, p)
      PROVE  Promise!Next
  <2>0. Next /\ UNCHANGED <<routers, routes>> /\ p \in DOMAIN routes
    BY <1>6 DEF Next, Serve
  <2>1. chains' = chains /\ table' = table
    BY <2>0, ChainsSame, TableSame
  <2>2. Dispatch(routes[p].slice, 0) = Promise!FrameOf(table[p], 1)
    BY <2>0, FrameIs
  <2>3. Promise!Serve(q, p)
    BY <1>6, <2>0, <2>1, <2>2 DEF Serve, Promise!Serve, Promise!Idle, Idle
  <2> QED BY <2>3 DEF Promise!Next
<1>7. ASSUME NEW q \in Requests, Enter(q)
      PROVE  Promise!Next
  <2>0. Next /\ UNCHANGED <<routers, routes>>
    BY <1>7 DEF Next, Enter
  <2>1. chains' = chains /\ table' = table
    BY <2>0, ChainsSame, TableSame
  <2>2. /\ requests[q].stack # <<>> /\ requests[q].stack \in Seq(Frames)
        /\ requests[q].pattern \in DOMAIN routes
    BY <1>7 DEF IInv, TypeOK, Enter, Idle
  <2>3. Dispatch(routes[requests[q].pattern].slice, Len(requests[q].stack))
          = Promise!FrameOf(table[requests[q].pattern], Len(requests[q].stack) + 1)
    <3>1. Len(requests[q].stack) \in Nat
      BY <2>2
    <3> QED BY <2>2, <3>1, FrameIs
  <2>4. Promise!Enter(q)
    BY <1>7, <2>1, <2>3 DEF Enter, Promise!Enter, Promise!Push
  <2> QED BY <2>4 DEF Promise!Next
<1>8. ASSUME NEW q \in Requests, Return(q)
      PROVE  Promise!Next
  <2>0. Next /\ UNCHANGED <<routers, routes>>
    BY <1>8 DEF Next, Return
  <2>1. chains' = chains /\ table' = table
    BY <2>0, ChainsSame, TableSame
  <2>2. Promise!Return(q)
    BY <1>8, <2>1 DEF Return, Promise!Return, Promise!Idle, Idle
  <2> QED BY <2>2 DEF Promise!Next
<1>9. ASSUME NEW i \in 1 .. MaxArgs, NEW m \in Middlewares, Overwrite(i, m)
      PROVE  UNCHANGED <<chains, table, requests>>
  BY <1>2, <1>9 DEF Next, Overwrite
<1>10. ASSUME NEW r \in DOMAIN routers, NEW p \in Patterns, HandleConflict(r, p)
       PROVE  UNCHANGED <<chains, table, requests>>
  BY <1>2, <1>10 DEF Next, HandleConflict
<1> QED BY <1>1, <1>3, <1>4, <1>5, <1>6, <1>7, <1>8, <1>9, <1>10 DEF Next

\* Routers on shared arrays are routers that each own their chain.
THEOREM RoutingCorrect == Spec => ImplementsRouting
<1>1. Init => Promise!Init
  BY PromiseInit
<1>2. IInv /\ [Next]_vars => [Promise!Next]_Promise!rvars
  BY PromiseStep
<1> QED BY <1>1, <1>2, InvariantCorrect, PTL DEF Spec, ImplementsRouting, Promise!Spec

====
