-------------------------- MODULE RequestTagsProofs --------------------------
(***************************************************************************)
(* Proofs about RequestTags, for every set of goroutines and of request    *)
(* types: the mutex keeps compilations apart, parsers of one type get the  *)
(* same tags, and these are the ones that the type declares, whatever the  *)
(* order and the depth of its fields.                                      *)
(*                                                                         *)
(* The walk over a type is recursive; its stack says how far it has got.   *)
(* The fields passed are those that no frame is ahead of, and what has     *)
(* been compiled is at each step what the visible ones among them declare. *)
(* The index paths are slices, some of which share an array, so this rests *)
(* on an invariant of the heap: nothing is appended to an array in which a *)
(* path of the tags lies.                                                  *)
(***************************************************************************)
EXTENDS RequestTags, SequenceTheorems, TLAPS

-----------------------------------------------------------------------------
(* Sequences.                                                              *)

LEMMA FunctionSeq ==
    ASSUME NEW S, NEW n \in Nat, NEW f \in [1 .. n -> S]
    PROVE  f \in Seq(S) /\ Len(f) = n
<1>1. f \in Seq(S)
  BY SeqDef
<1> QED BY <1>1, LenProperties

\* The prefixes of a path, and of one that is one index longer.
LEMMA PrefixFacts ==
    ASSUME NEW S, NEW p \in Seq(S), NEW n \in 0 .. Len(p)
    PROVE  /\ SubSeq(p, 1, n) \in Seq(S)
           /\ Len(SubSeq(p, 1, n)) = n
           /\ \A i \in 1 .. n : SubSeq(p, 1, n)[i] = p[i]
<1>1. \A i \in 1 .. n : p[i] \in S
  OBVIOUS
<1> QED BY <1>1

LEMMA PrefixOfAppend ==
    ASSUME NEW S, NEW at \in Seq(S), NEW x \in S
    PROVE  /\ Append(at, x) \in Seq(S)
           /\ Len(Append(at, x)) = Len(at) + 1
           /\ Append(at, x)[Len(at) + 1] = x
           /\ \A i \in 1 .. Len(at) : Append(at, x)[i] = at[i]
           /\ \A n \in 0 .. Len(at) : SubSeq(Append(at, x), 1, n) = SubSeq(at, 1, n)
           /\ SubSeq(at, 1, Len(at)) = at
           /\ SubSeq(Append(at, x), 1, Len(at) + 1) = Append(at, x)
<1> DEFINE e == Append(at, x)
<1>1. /\ e \in Seq(S) /\ Len(e) = Len(at) + 1 /\ e[Len(at) + 1] = x
      /\ \A i \in 1 .. Len(at) : e[i] = at[i]
  OBVIOUS
<1>2. Len(at) \in Nat
  OBVIOUS
<1> HIDE DEF e
<1>3. ASSUME NEW n \in 0 .. Len(at)
      PROVE  SubSeq(e, 1, n) = SubSeq(at, 1, n)
  <2>1. n \in 0 .. Len(e)
    BY <1>1, <1>2
  <2>2. /\ SubSeq(e, 1, n) \in Seq(S) /\ Len(SubSeq(e, 1, n)) = n
        /\ \A i \in 1 .. n : SubSeq(e, 1, n)[i] = e[i]
    BY <1>1, <2>1, PrefixFacts
  <2>3. /\ SubSeq(at, 1, n) \in Seq(S) /\ Len(SubSeq(at, 1, n)) = n
        /\ \A i \in 1 .. n : SubSeq(at, 1, n)[i] = at[i]
    BY PrefixFacts
  <2>4. \A i \in 1 .. n : SubSeq(e, 1, n)[i] = SubSeq(at, 1, n)[i]
    BY <1>1, <1>2, <2>2, <2>3
  <2> QED BY <2>2, <2>3, <2>4, SeqEqual
<1>4. \A s \in Seq(S) : SubSeq(s, 1, Len(s)) = s
  <2> TAKE s \in Seq(S)
  <2>1. /\ SubSeq(s, 1, Len(s)) \in Seq(S) /\ Len(SubSeq(s, 1, Len(s))) = Len(s)
        /\ \A i \in 1 .. Len(s) : SubSeq(s, 1, Len(s))[i] = s[i]
    BY PrefixFacts
  <2> QED BY <2>1, SeqEqual
<1> QED BY <1>1, <1>3, <1>4 DEF e

LEMMA PrefixGrows ==
    ASSUME NEW S, NEW at \in Seq(S), NEW x \in S, NEW p \in Seq(S), Len(p) > Len(at)
    PROVE  SubSeq(p, 1, Len(at) + 1) = Append(at, x)
             <=> SubSeq(p, 1, Len(at)) = at /\ p[Len(at) + 1] = x
<1> DEFINE n == Len(at)
           short == SubSeq(p, 1, n)
           long  == SubSeq(p, 1, n + 1)
           e     == Append(at, x)
<1>1. n \in Nat /\ n \in 0 .. Len(p) /\ n + 1 \in 0 .. Len(p)
  OBVIOUS
<1>2. /\ short \in Seq(S) /\ Len(short) = n /\ \A i \in 1 .. n : short[i] = p[i]
      /\ long \in Seq(S) /\ Len(long) = n + 1 /\ \A i \in 1 .. n + 1 : long[i] = p[i]
  BY <1>1, PrefixFacts
<1>3. /\ e \in Seq(S) /\ Len(e) = n + 1 /\ e[n + 1] = x
      /\ \A i \in 1 .. n : e[i] = at[i]
  BY PrefixOfAppend
<1> HIDE DEF short, long, e, n
<1>4. long = e => short = at /\ p[n + 1] = x
  <2> SUFFICES ASSUME long = e
               PROVE  short = at /\ p[n + 1] = x
    OBVIOUS
  <2>1. \A i \in 1 .. n : short[i] = at[i]
    BY <1>1, <1>2, <1>3
  <2>2. short = at
    BY <1>2, <2>1, SeqEqual DEF n
  <2> QED BY <2>2, <1>1, <1>2, <1>3
<1>5. short = at /\ p[n + 1] = x => long = e
  <2> SUFFICES ASSUME short = at, p[n + 1] = x
               PROVE  long = e
    OBVIOUS
  <2>1. \A i \in 1 .. n + 1 : long[i] = e[i]
    <3> TAKE i \in 1 .. n + 1
    <3>1. i \in 1 .. n \/ i = n + 1
      BY <1>1
    <3> QED BY <3>1, <1>1, <1>2, <1>3
  <2> QED BY <1>2, <1>3, <2>1, SeqEqual
<1> QED BY <1>4, <1>5 DEF n, short, long, e

-----------------------------------------------------------------------------
(* Slices.                                                                 *)

Slices == [array : Nat, len : Nat]

\* A slice that lies within its array.
Within(heap, slice) ==
    /\ slice \in Slices
    /\ \/ slice = Nil
       \/ slice.array \in 1 .. Len(heap) /\ slice.len <= Len(heap[slice.array])

LEMMA ElementsOf ==
    ASSUME NEW heap \in Seq(Seq(Nat)), NEW slice, Within(heap, slice)
    PROVE  /\ Elements(heap, slice) \in Seq(Nat)
           /\ Len(Elements(heap, slice)) = slice.len
           /\ slice.len \in Nat /\ slice.array \in Nat
           /\ \A i \in 1 .. slice.len : Elements(heap, slice)[i] = heap[slice.array][i]
<1>1. slice.len \in Nat /\ slice.array \in Nat
  BY DEF Within, Slices
<1>2. \A i \in 1 .. slice.len : heap[slice.array][i] \in Nat
  <2>1. CASE slice = Nil
    BY <2>1 DEF Nil
  <2>2. CASE slice # Nil
    <3>1. slice.array \in 1 .. Len(heap) /\ slice.len <= Len(heap[slice.array])
      BY <2>2 DEF Within
    <3>2. heap[slice.array] \in Seq(Nat)
      BY <3>1
    <3> QED BY <3>1, <3>2, <1>1
  <2> QED BY <2>1, <2>2
<1>3. Elements(heap, slice) \in [1 .. slice.len -> Nat]
  BY <1>2 DEF Elements
<1> QED BY <1>1, <1>3, FunctionSeq DEF Elements

\* A slice keeps its elements where its part of the array is kept.
LEMMA ElementsKept ==
    ASSUME NEW heap \in Seq(Seq(Nat)), NEW after \in Seq(Seq(Nat)),
           NEW slice, Within(heap, slice), Len(heap) <= Len(after),
           slice # Nil =>
              /\ Len(after[slice.array]) = Len(heap[slice.array])
              /\ \A i \in 1 .. slice.len : after[slice.array][i] = heap[slice.array][i]
    PROVE  Within(after, slice) /\ Elements(after, slice) = Elements(heap, slice)
<1>1. CASE slice = Nil
  BY <1>1 DEF Within, Slices, Elements, Nil
<1>2. CASE slice # Nil
  <2>1. Within(after, slice)
    BY <1>2 DEF Within
  <2> QED BY <2>1, <1>2 DEF Elements
<1> QED BY <1>1, <1>2

LEMMA ElementsAre ==
    ASSUME NEW heap \in Seq(Seq(Nat)), NEW slice, Within(heap, slice),
           NEW xs \in Seq(Nat), slice.len = Len(xs),
           \A i \in 1 .. Len(xs) : heap[slice.array][i] = xs[i]
    PROVE  Elements(heap, slice) = xs
<1>1. /\ Elements(heap, slice) \in Seq(Nat)
      /\ Len(Elements(heap, slice)) = Len(xs)
      /\ \A i \in 1 .. Len(xs) : Elements(heap, slice)[i] = xs[i]
  BY ElementsOf
<1> HIDE DEF Elements
<1> QED BY <1>1, SeqEqual

\* What append does with one element: it writes behind the slice in its array,
\* or to a new array, and keeps what the heap holds apart from that.
Appended(heap, slice, x, a) ==
    /\ a.heap \in Seq(Seq(Nat)) /\ Len(a.heap) >= Len(heap)
    /\ \A i \in 1 .. Len(heap) : i # slice.array => a.heap[i] = heap[i]
    /\ slice # Nil =>
         /\ Len(a.heap[slice.array]) = Len(heap[slice.array])
         /\ \A i \in 1 .. slice.len : a.heap[slice.array][i] = heap[slice.array][i]
    /\ Within(a.heap, a.slice) /\ a.slice # Nil
    /\ a.slice.array \in {slice.array, Len(heap) + 1}
    /\ a.slice.array \in 1 .. Len(a.heap)
    /\ Elements(a.heap, a.slice) = Append(Elements(heap, slice), x)

LEMMA AppendOne ==
    ASSUME NEW heap \in Seq(Seq(Nat)), NEW slice, Within(heap, slice),
           NEW x \in Nat, NEW spare \in Seq(Nat)
    PROVE  Appended(heap, slice, x, AppendTo(heap, slice, <<x>>, spare))
<1> DEFINE a == AppendTo(heap, slice, <<x>>, spare)
           old == Elements(heap, slice)
           all == Append(old, x)
           n   == slice.len
<1>1. /\ old \in Seq(Nat) /\ Len(old) = n /\ n \in Nat /\ slice.array \in Nat
      /\ \A i \in 1 .. n : old[i] = heap[slice.array][i]
  BY ElementsOf
<1>2. Len(heap) \in Nat /\ Len(spare) \in Nat /\ Len(<<x>>) = 1 /\ <<x>> # <<>>
  OBVIOUS
<1>3. /\ all \in Seq(Nat) /\ Len(all) = n + 1 /\ all[n + 1] = x
      /\ \A i \in 1 .. n : all[i] = heap[slice.array][i]
  <2> HIDE DEF old
  <2> QED BY <1>1
<1>4. ASSUME NEW h \in Seq(Seq(Nat)), NEW s, Within(h, s), s.len = n + 1,
             \A i \in 1 .. n + 1 : h[s.array][i] = all[i]
      PROVE  Elements(h, s) = all
  <2> HIDE DEF all, n
  <2>1. all \in Seq(Nat) /\ Len(all) = n + 1
    BY <1>3
  <2>2. s.len = Len(all) /\ \A i \in 1 .. Len(all) : h[s.array][i] = all[i]
    BY <1>4, <2>1
  <2>3. Within(h, s)
    BY <1>4
  <2> QED BY <2>1, <2>2, <2>3, ElementsAre, Zenon
<1>5. SUFFICES /\ a.heap \in Seq(Seq(Nat)) /\ Len(a.heap) >= Len(heap)
               /\ \A i \in 1 .. Len(heap) : i # slice.array => a.heap[i] = heap[i]
               /\ slice # Nil =>
                    /\ Len(a.heap[slice.array]) = Len(heap[slice.array])
                    /\ \A i \in 1 .. n : a.heap[slice.array][i] = heap[slice.array][i]
               /\ a.slice \in Slices
               /\ a.slice.array \in {slice.array, Len(heap) + 1}
               /\ a.slice.array \in 1 .. Len(a.heap)
               /\ a.slice.len = n + 1
               /\ n + 1 <= Len(a.heap[a.slice.array])
               /\ \A i \in 1 .. n + 1 : a.heap[a.slice.array][i] = all[i]
  <2> HIDE DEF a, all
  <2>1. ASSUME a.slice \in Slices, a.slice.array \in 1 .. Len(a.heap),
               a.slice.len = n + 1, n + 1 <= Len(a.heap[a.slice.array])
        PROVE  Within(a.heap, a.slice) /\ a.slice # Nil
    BY <2>1, <1>1 DEF Within, Nil
  <2> QED BY <1>4, <2>1 DEF Appended, a, all
<1> HIDE DEF old, all, n
<1>6. CASE n + 1 <= Capacity(heap, slice)
  <2> DEFINE array == heap[slice.array]
             new   == Overwritten(array, n, <<x>>)
  <2>1. /\ slice # Nil /\ slice.array \in 1 .. Len(heap)
        /\ array \in Seq(Nat) /\ n + 1 <= Len(array)
        /\ slice = [array |-> slice.array, len |-> n]
    BY <1>6, <1>1 DEF Capacity, Within, Nil, Slices, n
  <2>2. /\ a.heap = [heap EXCEPT ![slice.array] = new]
        /\ a.slice = [array |-> slice.array, len |-> n + 1]
    BY <1>6, <1>2, <2>1 DEF AppendTo, n
  <2> HIDE DEF a
  <2>3. new \in Seq(Nat) /\ Len(new) = Len(array)
    <3>1. \A i \in 1 .. Len(array) : array[i] \in Nat
      BY <2>1
    <3>2. Len(array) \in Nat
      BY <2>1
    <3>3. \A i \in 1 .. Len(array) :
             (IF i > n /\ i <= n + 1 THEN <<x>>[i - n] ELSE array[i]) \in Nat
      <4> TAKE i \in 1 .. Len(array)
      <4>1. i > n /\ i <= n + 1 => i - n = 1
        BY <1>1, <3>2
      <4> HIDE DEF array
      <4> QED BY <3>1, <4>1
    <3>4. new \in [1 .. Len(array) -> Nat]
      BY <3>3, <1>2 DEF Overwritten
    <3> HIDE DEF new, array
    <3> QED BY <3>2, <3>4, FunctionSeq
  <2>4. /\ \A i \in 1 .. n : new[i] = array[i]
        /\ new[n + 1] = x
    <3>1. new = [i \in 1 .. Len(array) |->
                   IF i > n /\ i <= n + 1 THEN <<x>>[i - n] ELSE array[i]]
      BY <1>2 DEF Overwritten
    <3>2. Len(array) \in Nat /\ n + 1 <= Len(array)
      BY <2>1
    <3> HIDE DEF new, array
    <3>3. \A i \in 1 .. n : i \in 1 .. Len(array) /\ ~(i > n)
      BY <1>1, <3>2
    <3>4. n + 1 \in 1 .. Len(array) /\ n + 1 > n /\ n + 1 <= n + 1 /\ (n + 1) - n = 1
      BY <1>1, <3>2
    <3>5. <<x>>[1] = x
      OBVIOUS
    <3> QED BY <3>1, <3>3, <3>4, <3>5
  <2> HIDE DEF new, array
  <2>5. /\ a.heap \in Seq(Seq(Nat)) /\ Len(a.heap) = Len(heap)
        /\ a.heap[slice.array] = new
        /\ \A i \in 1 .. Len(heap) : i # slice.array => a.heap[i] = heap[i]
    BY <2>1, <2>2, <2>3
  <2>6. \A i \in 1 .. n + 1 : new[i] = all[i]
    <3> TAKE i \in 1 .. n + 1
    <3>1. i \in 1 .. n \/ i = n + 1
      BY <1>1
    <3> QED BY <3>1, <2>4, <1>3 DEF array
  <2>7. a.slice \in Slices /\ a.slice.array = slice.array /\ a.slice.len = n + 1
    BY <2>2, <1>1 DEF Slices
  <2>8. Len(a.heap) >= Len(heap)
    BY <2>5, <1>2
  <2> QED BY <2>1, <2>3, <2>4, <2>5, <2>6, <2>7, <2>8 DEF array
<1>7. CASE ~(n + 1 <= Capacity(heap, slice))
  <2> DEFINE array == (old \o <<x>>) \o spare
  <2>1. /\ a.heap = Append(heap, array)
        /\ a.slice = [array |-> Len(heap) + 1, len |-> n + 1]
    BY <1>7, <1>2 DEF AppendTo, old, n
  <2> HIDE DEF a
  <2>2. /\ array \in Seq(Nat) /\ Len(array) = n + 1 + Len(spare)
        /\ \A i \in 1 .. n + 1 : array[i] = all[i]
    <3>1. old \o <<x>> = all
      BY <1>1 DEF all
    <3>2. /\ all \o spare \in Seq(Nat) /\ Len(all \o spare) = Len(all) + Len(spare)
          /\ \A i \in 1 .. Len(all) + Len(spare) :
                (all \o spare)[i] = IF i <= Len(all) THEN all[i] ELSE spare[i - Len(all)]
      BY <1>3, ConcatProperties, Zenon
    <3>3. \A i \in 1 .. n + 1 : (all \o spare)[i] = all[i]
      BY <3>2, <1>1, <1>2, <1>3
    <3> QED BY <3>1, <3>2, <3>3, <1>3
  <2> HIDE DEF array
  <2>3. /\ a.heap \in Seq(Seq(Nat)) /\ Len(a.heap) = Len(heap) + 1
        /\ a.heap[Len(heap) + 1] = array
        /\ \A i \in 1 .. Len(heap) : a.heap[i] = heap[i]
    BY <2>1, <2>2, <1>2
  <2>4. /\ a.slice \in Slices /\ a.slice.array = Len(heap) + 1 /\ a.slice.len = n + 1
        /\ a.slice.array \in 1 .. Len(a.heap)
        /\ n + 1 <= Len(array) /\ Len(a.heap) >= Len(heap)
    BY <2>1, <2>2, <2>3, <1>1, <1>2 DEF Slices
  <2>5. slice # Nil => slice.array \in 1 .. Len(heap)
    BY DEF Within
  <2> QED BY <2>2, <2>3, <2>4, <2>5
<1> QED BY <1>6, <1>7

LEMMA SpareIsSeq ==
    ASSUME NEW n \in Nat
    PROVE  [i \in 1 .. n - 1 |-> 0] \in Seq(Nat)
<1>1. CASE n = 0
  <2>1. 1 .. n - 1 = 1 .. 0
    BY <1>1
  <2>2. [i \in 1 .. 0 |-> 0] \in [1 .. 0 -> Nat]
    OBVIOUS
  <2> QED BY <2>1, <2>2, FunctionSeq
<1>2. CASE n # 0
  <2>1. n - 1 \in Nat /\ [i \in 1 .. n - 1 |-> 0] \in [1 .. n - 1 -> Nat]
    BY <1>2
  <2> HIDE <1>2
  <2> QED BY <2>1, FunctionSeq
<1> QED BY <1>1, <1>2

LEMMA ExtendFacts ==
    ASSUME NEW heap \in Seq(Seq(Nat)), NEW slice, Within(heap, slice), NEW x \in Nat
    PROVE  Appended(heap, slice, x, Extend(heap, slice, x))
<1>1. slice.len \in Nat
  BY ElementsOf
<1>2. [i \in 1 .. slice.len - 1 |-> 0] \in Seq(Nat)
  BY <1>1, SpareIsSeq
<1> QED BY <1>2, AppendOne DEF Extend

\* What copying a slice with one more element does: the copy is in an array that
\* was not there before.
Copied(heap, slice, x, c) ==
    /\ c.heap \in Seq(Seq(Nat)) /\ Len(c.heap) >= Len(heap)
    /\ \A i \in 1 .. Len(heap) : c.heap[i] = heap[i]
    /\ c.slice.array \in Len(heap) + 1 .. Len(c.heap)
    /\ Elements(c.heap, c.slice) = Append(Elements(heap, slice), x)

LEMMA CopyFacts ==
    ASSUME NEW heap \in Seq(Seq(Nat)), NEW slice, Within(heap, slice), NEW x \in Nat
    PROVE  Copied(heap, slice, x, Copy(heap, slice, x))
<1> DEFINE old == Elements(heap, slice)
           b == AppendTo(heap, Nil, old, <<>>)
           spare == [i \in 1 .. slice.len - 1 |-> 0]
           c == AppendTo(b.heap, b.slice, <<x>>, spare)
<1>1. old \in Seq(Nat) /\ Len(old) = slice.len /\ slice.len \in Nat
  BY ElementsOf
<1>2. spare \in Seq(Nat)
  BY <1>1, SpareIsSeq
<1>3. Len(heap) \in Nat
  OBVIOUS
<1> HIDE DEF old, spare
<1>4. /\ b.heap \in Seq(Seq(Nat)) /\ Len(b.heap) >= Len(heap)
      /\ \A i \in 1 .. Len(heap) : b.heap[i] = heap[i]
      /\ Within(b.heap, b.slice) /\ Elements(b.heap, b.slice) = old
      /\ b.slice = Nil \/ b.slice.array = Len(heap) + 1
  <2>1. CASE old = <<>>
    <3>1. Len(old) = 0 /\ Nil.len = 0 /\ Nil.array = 0 /\ Nil.len + Len(old) = 0
      BY <2>1 DEF Nil
    <3>2. b.heap = heap /\ b.slice = Nil
      BY <2>1, <3>1 DEF AppendTo, Capacity, Nil
    <3>3. Within(heap, Nil)
      BY DEF Within, Slices, Nil
    <3>4. Elements(heap, Nil) = old
      BY <2>1 DEF Elements, Nil
    <3> HIDE DEF b
    <3> QED BY <3>2, <3>3, <3>4, <1>3
  <2>2. CASE old # <<>>
    <3>1. Len(old) > 0 /\ Len(old) \in Nat
      BY <1>1, <2>2, EmptySeq
    <3>2. Nil.len = 0 /\ Nil.array = 0 /\ Nil.len + Len(old) = Len(old)
      BY <3>1 DEF Nil
    <3>3. ~(Nil.len + Len(old) <= Capacity(heap, Nil))
      BY <3>1, <3>2 DEF Capacity
    <3>4. /\ b.heap = Append(heap, Elements(heap, Nil) \o old \o <<>>)
          /\ b.slice = [array |-> Len(heap) + 1, len |-> Len(old)]
      BY <3>2, <3>3 DEF AppendTo
    <3>5. Elements(heap, Nil) = <<>>
      BY DEF Elements, Nil
    <3>6. Elements(heap, Nil) \o old \o <<>> = old
      BY <1>1, <3>5, ConcatEmptySeq
    <3> HIDE DEF b
    <3>11. b.heap = Append(heap, old)
      BY <3>4, <3>6
    <3>7. /\ b.heap \in Seq(Seq(Nat)) /\ Len(b.heap) = Len(heap) + 1
          /\ b.heap[Len(heap) + 1] = old
          /\ \A i \in 1 .. Len(heap) : b.heap[i] = heap[i]
      BY <3>11, <1>1
    <3>12. Len(heap) + 1 \in Nat /\ Len(heap) + 1 \in 1 .. Len(b.heap)
           /\ Len(b.heap) >= Len(heap)
      <4> HIDE DEF old
      <4>1. Len(b.heap) = Len(heap) + 1
        BY <3>7
      <4> QED BY <4>1, <1>3
    <3>13. b.slice.array = Len(heap) + 1 /\ b.slice.len = Len(old)
      BY <3>4
    <3>14. b.slice \in Slices
      BY <3>1, <3>4, <3>12 DEF Slices
    <3>8. /\ b.slice \in Slices /\ b.slice.array = Len(heap) + 1 /\ b.slice.len = Len(old)
          /\ b.slice.array \in 1 .. Len(b.heap) /\ Len(b.heap) >= Len(heap)
      BY <3>12, <3>13, <3>14
    <3>9. Within(b.heap, b.slice)
      BY <3>1, <3>7, <3>8 DEF Within
    <3>10. Elements(b.heap, b.slice) = old
      BY <1>1, <3>7, <3>8, <3>9, ElementsAre
    <3> QED BY <3>7, <3>8, <3>9, <3>10
  <2> QED BY <2>1, <2>2
<1> HIDE DEF b
<1>5. Appended(b.heap, b.slice, x, c)
  BY <1>2, <1>4, AppendOne
<1> HIDE DEF c
<1>6. /\ c.heap \in Seq(Seq(Nat)) /\ Len(c.heap) >= Len(b.heap)
      /\ \A i \in 1 .. Len(b.heap) : i # b.slice.array => c.heap[i] = b.heap[i]
      /\ c.slice.array \in {b.slice.array, Len(b.heap) + 1}
      /\ c.slice.array \in 1 .. Len(c.heap)
      /\ Elements(c.heap, c.slice) = Append(Elements(b.heap, b.slice), x)
  BY <1>5 DEF Appended
<1>7. Len(b.heap) \in Nat /\ Len(c.heap) \in Nat
  BY <1>4, <1>6
<1>8. c.slice.array \in Len(heap) + 1 .. Len(c.heap)
  <2>1. b.slice = Nil => b.slice.array = 0
    BY DEF Nil
  <2>2. c.slice.array \in {0, Len(heap) + 1, Len(b.heap) + 1}
    BY <1>4, <1>6, <2>1
  <2> DEFINE array == c.slice.array
             before == Len(heap)
             copied == Len(b.heap)
             after == Len(c.heap)
  <2>3. /\ before \in Nat /\ copied \in Nat /\ after \in Nat /\ copied >= before
        /\ array \in 1 .. after /\ array \in {0, before + 1, copied + 1}
    BY <1>3, <1>4, <1>6, <1>7, <2>2
  <2> HIDE DEF array, before, copied, after
  <2>4. array \in before + 1 .. after
    BY <2>3
  <2> QED BY <2>4 DEF array, before, after
<1>9. \A i \in 1 .. Len(heap) : c.heap[i] = heap[i]
  <2> TAKE i \in 1 .. Len(heap)
  <2>1. b.slice = Nil => b.slice.array = 0
    BY DEF Nil
  <2>2. Len(b.heap) >= Len(heap)
    BY <1>4
  <2>3. i \in 1 .. Len(b.heap) /\ i # b.slice.array
    BY <1>3, <1>4, <1>7, <2>1, <2>2
  <2> QED BY <1>4, <1>6, <2>3
<1>10. Len(c.heap) >= Len(heap)
  BY <1>3, <1>4, <1>6, <1>7
<1>11. c = Copy(heap, slice, x)
  BY DEF Copy, c, b, old, spare
<1> QED BY <1>4, <1>6, <1>8, <1>9, <1>10, <1>11 DEF Copied, old

-----------------------------------------------------------------------------
(* The rules, one field at a time.                                         *)

\* What the checks of a field know of the fields before it.
Summarises(tags, t, P) ==
    /\ tags.flags = Sources(t, P)
    /\ DOMAIN tags.index = {s \in Sources(t, P) : Whole(t, P, s) # {}}

\* A field that the checks refuse breaks a rule of any set it is in with the
\* fields before it.
LEMMA RefusedBreaksRules ==
    ASSUME NEW t, NEW P, NEW Q, NEW c \in Q, P \subseteq Q, c \notin P,
           NEW tags, Summarises(tags, t, P),
           NEW s \in DOMAIN t.fields[c].tags, Rejects(tags, s, t.fields[c])
    PROVE  ~KeepsRules(t, Q)
<1> DEFINE f == t.fields[c]
<1> SUFFICES ASSUME KeepsRules(t, Q)
             PROVE  FALSE
  OBVIOUS
<1>1. /\ s = "multipart" => f.tags[s] = ""
      /\ IsWhole(s, f) => Tagged(t, Q, s) = {c}
      /\ IsWhole(s, f) /\ s # "json" => f.type = WholeType[s]
  BY DEF KeepsRules
<1>2. \A p \in P : s \in DOMAIN t.fields[p].tags => p \in Tagged(t, Q, s) /\ p # c
  BY DEF Tagged
<1>3. CASE s = "multipart" /\ f.tags[s] # ""
  BY <1>1, <1>3
<1>4. CASE ~IsWhole(s, f) /\ s \in DOMAIN tags.index
  <2>1. Whole(t, P, s) # {}
    BY <1>4 DEF Summarises
  <2>2. PICK p \in P : s \in DOMAIN t.fields[p].tags /\ IsWhole(s, t.fields[p])
    BY <2>1 DEF Whole, Tagged
  <2>3. Tagged(t, Q, s) = {p}
    BY <2>2 DEF KeepsRules
  <2>4. c \in Tagged(t, Q, s)
    BY DEF Tagged
  <2> QED BY <1>2, <2>2, <2>3, <2>4
<1>5. CASE IsWhole(s, f) /\ s \in tags.flags
  <2>1. PICK p \in P : s \in DOMAIN t.fields[p].tags
    BY <1>5 DEF Summarises, Sources
  <2> QED BY <1>1, <1>2, <1>5, <2>1
<1>6. CASE IsWhole(s, f) /\ s # "json" /\ f.type # WholeType[s]
  BY <1>1, <1>6
<1> QED BY <1>3, <1>4, <1>5, <1>6 DEF Rejects

\* One that they accept keeps the rules, and adds its tags to what is declared.
LEMMA AcceptedKeepsRules ==
    ASSUME NEW t, NEW P, NEW c, c \notin P, KeepsRules(t, P),
           ~t.fields[c].anonymous,
           NEW tags, Summarises(tags, t, P),
           \A s \in DOMAIN t.fields[c].tags : ~Rejects(tags, s, t.fields[c])
    PROVE  KeepsRules(t, P \cup {c})
<1> DEFINE f == t.fields[c]
           Q == P \cup {c}
<1>1. \A s : Tagged(t, Q, s) = Tagged(t, P, s) \cup {p \in {c} : s \in DOMAIN f.tags}
  BY DEF Tagged
<1>2. \A s \in DOMAIN f.tags : IsWhole(s, f) => Tagged(t, P, s) = {}
  BY DEF Rejects, Summarises, Sources, Tagged
<1>3. \A s \in DOMAIN f.tags : ~IsWhole(s, f) => Whole(t, P, s) = {}
  <2> SUFFICES ASSUME NEW s \in DOMAIN f.tags, ~IsWhole(s, f), Whole(t, P, s) # {}
               PROVE  FALSE
    OBVIOUS
  <2>1. s \in Sources(t, P)
    BY DEF Whole, Tagged, Sources
  <2> QED BY <2>1 DEF Rejects, Summarises
<1>4. ASSUME NEW p \in P, NEW s \in DOMAIN t.fields[p].tags, IsWhole(s, t.fields[p])
      PROVE  Tagged(t, Q, s) = {p}
  <2>1. Tagged(t, P, s) = {p} /\ p \in Whole(t, P, s)
    BY <1>4 DEF KeepsRules, Whole, Tagged
  <2>2. s \notin DOMAIN f.tags
    BY <1>2, <1>3, <2>1
  <2> QED BY <1>1, <2>1, <2>2
<1>5. ASSUME NEW s \in DOMAIN f.tags, IsWhole(s, f)
      PROVE  Tagged(t, Q, s) = {c}
  BY <1>1, <1>2, <1>5
<1>6. ASSUME NEW p \in Q
      PROVE  /\ ~t.fields[p].anonymous
             /\ \A s \in DOMAIN t.fields[p].tags :
                  /\ s = "multipart" => t.fields[p].tags[s] = ""
                  /\ IsWhole(s, t.fields[p]) /\ s # "json" => t.fields[p].type = WholeType[s]
  <2>1. CASE p \in P
    BY <2>1 DEF KeepsRules
  <2>2. CASE p = c
    BY <2>2 DEF Rejects
  <2> QED BY <2>1, <2>2
<1> QED BY <1>4, <1>5, <1>6 DEF KeepsRules

LEMMA AcceptedDeclares ==
    ASSUME NEW t, NEW P, NEW c, c \notin P, KeepsRules(t, P),
           NEW tags, Summarises(tags, t, P),
           \A s \in DOMAIN t.fields[c].tags : ~Rejects(tags, s, t.fields[c])
    PROVE  LET named == DOMAIN t.fields[c].tags
               whole == {s \in named : IsWhole(s, t.fields[c])}
               d     == Declared(t, P)
           IN  Declared(t, P \cup {c}) =
                 [flags   |-> d.flags \cup named,
                  index   |-> [s \in DOMAIN d.index \cup whole |->
                                  IF s \in whole THEN c ELSE d.index[s]],
                  accepts |-> IF "body" \in named THEN t.fields[c].accepts
                                                  ELSE d.accepts]
<1> DEFINE f == t.fields[c]
           Q == P \cup {c}
           named == DOMAIN f.tags
           whole == {s \in named : IsWhole(s, f)}
           d == Declared(t, P)
           Indexed(R) == {s \in Sources(t, R) : Whole(t, R, s) # {}}
<1>1. \A s : Tagged(t, Q, s) = Tagged(t, P, s) \cup {p \in {c} : s \in named}
  BY DEF Tagged
<1>2. \A s : Whole(t, Q, s) = Whole(t, P, s) \cup {p \in {c} : s \in whole}
  BY <1>1 DEF Whole
<1>3. \A s \in whole : Tagged(t, P, s) = {}
  BY DEF Rejects, Summarises, Sources, Tagged
<1>4. \A s \in whole : Whole(t, P, s) = {} /\ Whole(t, Q, s) = {c}
  BY <1>2, <1>3 DEF Whole
<1>5. \A s : s \notin whole => Whole(t, Q, s) = Whole(t, P, s)
  BY <1>2
<1>6. Sources(t, Q) = Sources(t, P) \cup named
  BY DEF Sources
<1>7. Indexed(Q) = Indexed(P) \cup whole
  <2>1. \A s : s \in Indexed(P) => s \notin whole
    BY <1>4
  <2>2. \A s : s \in Indexed(Q) <=> s \in Indexed(P) \cup whole
    <3> TAKE s
    <3>1. CASE s \in whole
      <4>1. Whole(t, Q, s) # {} /\ s \in Sources(t, Q)
        BY <1>4, <1>6, <3>1
      <4> QED BY <3>1, <4>1
    <3>2. CASE s \notin whole
      <4>1. Whole(t, Q, s) = Whole(t, P, s)
        BY <1>5, <3>2
      <4>2. Whole(t, P, s) # {} => s \in Sources(t, P)
        BY DEF Whole, Tagged, Sources
      <4> QED BY <3>2, <4>1, <4>2, <1>6
    <3> QED BY <3>1, <3>2
  <2> QED BY <2>2
<1>8. BodyTypes(t, Q) = IF "body" \in named THEN f.accepts ELSE BodyTypes(t, P)
  <2>1. CASE "body" \in named
    <3>1. "body" \in whole
      BY <2>1 DEF IsWhole, KeyedSources
    <3>2. Tagged(t, Q, "body") = {c}
      BY <1>1, <1>3, <2>1, <3>1
    <3> QED BY <2>1, <3>2 DEF BodyTypes
  <2>2. CASE "body" \notin named
    <3>1. Tagged(t, Q, "body") = Tagged(t, P, "body")
      BY <1>1, <2>2
    <3> QED BY <2>2, <3>1 DEF BodyTypes
  <2> QED BY <2>1, <2>2
<1>9. d.flags = Sources(t, P) /\ DOMAIN d.index = Indexed(P) /\ d.accepts = BodyTypes(t, P)
      /\ \A s \in Indexed(P) : d.index[s] = CHOOSE p \in Whole(t, P, s) : TRUE
  BY DEF Declared
<1> DEFINE index == [s \in Indexed(Q) |-> CHOOSE p \in Whole(t, Q, s) : TRUE]
           next  == [s \in DOMAIN d.index \cup whole |-> IF s \in whole THEN c ELSE d.index[s]]
<1>10. index = next
  <2> HIDE DEF whole, Indexed, d, Q, named
  <2>1. DOMAIN index = DOMAIN next
    BY <1>7, <1>9
  <2>2. ASSUME NEW s \in Indexed(Q)
        PROVE  index[s] = next[s]
    <3>1. CASE s \in whole
      <4>1. next[s] = c /\ Whole(t, Q, s) = {c}
        BY <1>4, <1>7, <1>9, <3>1
      <4>2. index[s] = CHOOSE p \in {c} : TRUE
        BY <4>1
      <4>3. (CHOOSE p \in {c} : TRUE) = c
        OBVIOUS
      <4> QED BY <4>1, <4>2, <4>3
    <3>2. CASE s \notin whole
      <4>1. s \in Indexed(P) /\ Whole(t, Q, s) = Whole(t, P, s)
        BY <1>5, <1>7, <3>2
      <4>2. next[s] = d.index[s] /\ d.index[s] = CHOOSE p \in Whole(t, P, s) : TRUE
        BY <1>9, <3>2, <4>1
      <4>3. index[s] = CHOOSE p \in Whole(t, P, s) : TRUE
        BY <4>1
      <4> QED BY <4>2, <4>3
    <3> QED BY <3>1, <3>2
  <2> QED BY <2>1, <2>2
<1>11. Declared(t, Q) = [flags |-> Sources(t, Q), index |-> index, accepts |-> BodyTypes(t, Q)]
  BY DEF Declared
<1> HIDE DEF index, next, d, Q
<1>12. Declared(t, Q) = [flags |-> d.flags \cup named, index |-> next,
                         accepts |-> IF "body" \in named THEN f.accepts ELSE d.accepts]
  BY <1>6, <1>8, <1>9, <1>10, <1>11
<1> QED BY <1>12 DEF next, d, Q

-----------------------------------------------------------------------------
(* The walk.  What it has left of a type is what its frames are ahead of;  *)
(* what it has compiled is what the rest of the visible fields declares.   *)

\* A field that a frame still has to come to, or to go into.
AheadOf(frame, p) ==
    /\ Len(p) > Len(frame.at)
    /\ SubSeq(p, 1, Len(frame.at)) = frame.at
    /\ p[Len(frame.at) + 1] >= frame.next

Passed(t, stack) ==
    {p \in Visible(t) : \A k \in 1 .. Len(stack) : ~AheadOf(stack[k], p)}

\* The path of a struct that the walk may enter.
Entered(t, at) ==
    /\ at \in Seq(Nat \ {0})
    /\ \A n \in 1 .. Len(at) :
         SubSeq(at, 1, n) \in DOMAIN t.fields /\ Opens(t.fields[SubSeq(at, 1, n)])

Frames(t) == {f \in [at : Seq(Nat \ {0}), next : Nat \ {0}, path : Slices] :
                 Entered(t, f.at)}

\* A frame further out has passed the field that a frame further in is in.
Nested(outer, inner) ==
    /\ Len(outer.at) < Len(inner.at)
    /\ inner.at[Len(outer.at) + 1] < outer.next

StackInv(t, stack) ==
    /\ stack \in Seq(Frames(t))
    /\ \A k \in 1 .. Len(stack) : \A j \in 1 .. k - 1 : Nested(stack[j], stack[k])

-----------------------------------------------------------------------------
(* The walk: what the steps of its stack pass.                             *)

Positive == Nat \ {0}

LEMMA PathFacts ==
    ASSUME NEW t \in RequestTypes, NEW p \in DOMAIN t.fields
    PROVE  /\ p \in Seq(Positive) /\ Len(p) \in Nat /\ Len(p) >= 1
           /\ \A i \in 1 .. Len(p) : p[i] \in Nat /\ p[i] >= 1
           /\ \A n \in 1 .. Len(p) : SubSeq(p, 1, n) \in DOMAIN t.fields
           /\ SubSeq(p, 1, 0) = <<>>
<1>1. /\ p \in Seq(Positive) /\ p # <<>>
      /\ \A n \in 1 .. Len(p) - 1 : SubSeq(p, 1, n) \in DOMAIN t.fields
  BY TypesAssumption DEF IsTree, Positive
<1>2. Len(p) \in Nat /\ Len(p) >= 1
  BY <1>1, EmptySeq
<1>3. \A i \in 1 .. Len(p) : p[i] \in Nat /\ p[i] >= 1
  <2> TAKE i \in 1 .. Len(p)
  <2>1. p[i] \in Positive
    BY <1>1
  <2> QED BY <2>1 DEF Positive
<1>4. SubSeq(p, 1, Len(p)) = p
  <2>1. /\ SubSeq(p, 1, Len(p)) \in Seq(Positive) /\ Len(SubSeq(p, 1, Len(p))) = Len(p)
        /\ \A i \in 1 .. Len(p) : SubSeq(p, 1, Len(p))[i] = p[i]
    BY <1>1, <1>2, PrefixFacts
  <2> QED BY <1>1, <2>1, SeqEqual
<1>5. \A n \in 1 .. Len(p) : SubSeq(p, 1, n) \in DOMAIN t.fields
  <2> TAKE n \in 1 .. Len(p)
  <2>1. n = Len(p) \/ n \in 1 .. Len(p) - 1
    BY <1>2
  <2> QED BY <1>1, <1>4, <2>1
<1>6. SubSeq(p, 1, 0) = <<>>
  <2>1. SubSeq(p, 1, 0) \in Seq(Positive) /\ Len(SubSeq(p, 1, 0)) = 0
    BY <1>1, <1>2, PrefixFacts
  <2> QED BY <2>1, EmptySeq
<1> QED BY <1>1, <1>2, <1>3, <1>5, <1>6

LEMMA FrameFacts ==
    ASSUME NEW t, NEW f \in Frames(t)
    PROVE  /\ f = [at |-> f.at, next |-> f.next, path |-> f.path]
           /\ f.at \in Seq(Positive) /\ Len(f.at) \in Nat
           /\ f.next \in Nat /\ f.next >= 1 /\ f.next \in Positive
           /\ f.path \in Slices
           /\ Entered(t, f.at)
BY DEF Frames, Positive

\* An exported field of a struct the walk has entered is visible unless the walk
\* enters it as well.
LEMMA EnteredVisible ==
    ASSUME NEW t, NEW at, Entered(t, at), NEW x \in Positive,
           Append(at, x) \in DOMAIN t.fields
    PROVE  Append(at, x) \in Visible(t)
             <=> t.fields[Append(at, x)].exported /\ ~Opens(t.fields[Append(at, x)])
<1> DEFINE c == Append(at, x)
<1>1. at \in Seq(Positive) /\ Len(at) \in Nat
  BY DEF Entered, Positive
<1>2. /\ Len(c) = Len(at) + 1
      /\ \A n \in 0 .. Len(at) : SubSeq(c, 1, n) = SubSeq(at, 1, n)
  BY <1>1, PrefixOfAppend
<1> HIDE DEF c
<1>3. \A n \in 1 .. Len(c) - 1 : Opens(t.fields[SubSeq(c, 1, n)])
  <2> TAKE n \in 1 .. Len(c) - 1
  <2>1. n \in 1 .. Len(at) /\ n \in 0 .. Len(at)
    BY <1>1, <1>2
  <2> QED BY <1>2, <2>1 DEF Entered
<1>4. c \in DOMAIN t.fields
  BY DEF c
<1> QED BY <1>3, <1>4 DEF Visible, c

\* A struct that the walk goes into has been entered.
LEMMA EnteredDeeper ==
    ASSUME NEW t, NEW at, Entered(t, at), NEW x \in Positive,
           Append(at, x) \in DOMAIN t.fields, Opens(t.fields[Append(at, x)])
    PROVE  Entered(t, Append(at, x))
<1> DEFINE c == Append(at, x)
<1>1. at \in Seq(Positive) /\ Len(at) \in Nat
  BY DEF Entered, Positive
<1>2. /\ c \in Seq(Positive) /\ Len(c) = Len(at) + 1
      /\ \A n \in 0 .. Len(at) : SubSeq(c, 1, n) = SubSeq(at, 1, n)
      /\ SubSeq(c, 1, Len(at) + 1) = c
  BY <1>1, PrefixOfAppend
<1>3. c \in DOMAIN t.fields /\ Opens(t.fields[c])
  OBVIOUS
<1> HIDE DEF c
<1>4. \A n \in 1 .. Len(c) :
         SubSeq(c, 1, n) \in DOMAIN t.fields /\ Opens(t.fields[SubSeq(c, 1, n)])
  <2> TAKE n \in 1 .. Len(c)
  <2>1. CASE n = Len(at) + 1
    BY <1>2, <1>3, <2>1
  <2>2. CASE n # Len(at) + 1
    <3>1. n \in 1 .. Len(at) /\ n \in 0 .. Len(at)
      BY <1>1, <1>2, <2>2
    <3> QED BY <1>2, <3>1 DEF Entered
  <2> QED BY <2>1, <2>2
<1>5. Entered(t, c)
  BY <1>2, <1>4 DEF Entered, Positive
<1> QED BY <1>5 DEF c

\* What a frame is ahead of: the field it is at with all that lies in it, and
\* what it is ahead of when it has moved on.
LEMMA MovingOn ==
    ASSUME NEW t \in RequestTypes, NEW f \in Frames(t), NEW p \in DOMAIN t.fields
    PROVE  LET moved == [f EXCEPT !.next = @ + 1]
               c     == Append(f.at, f.next)
               n     == Len(f.at)
           IN  /\ AheadOf(f, p) <=>
                     AheadOf(moved, p) \/ (Len(p) > n /\ SubSeq(p, 1, n + 1) = c)
               /\ ~(AheadOf(moved, p) /\ Len(p) > n /\ SubSeq(p, 1, n + 1) = c)
<1> DEFINE moved == [f EXCEPT !.next = @ + 1]
           c == Append(f.at, f.next)
           n == Len(f.at)
<1>1. /\ f = [at |-> f.at, next |-> f.next, path |-> f.path]
      /\ f.at \in Seq(Positive) /\ n \in Nat /\ f.next \in Nat /\ f.next \in Positive
  BY FrameFacts
<1>2. moved.at = f.at /\ moved.next = f.next + 1
  BY <1>1
<1>3. /\ p \in Seq(Positive) /\ Len(p) \in Nat
      /\ \A i \in 1 .. Len(p) : p[i] \in Nat
  BY PathFacts
<1>4. Len(p) > n => (SubSeq(p, 1, n + 1) = c <=> SubSeq(p, 1, n) = f.at /\ p[n + 1] = f.next)
  <2> SUFFICES ASSUME Len(p) > n
               PROVE  SubSeq(p, 1, n + 1) = c <=> SubSeq(p, 1, n) = f.at /\ p[n + 1] = f.next
    OBVIOUS
  <2> DEFINE at == f.at
             x  == f.next
  <2>1. at \in Seq(Positive) /\ x \in Positive /\ p \in Seq(Positive) /\ Len(p) > Len(at)
    BY <1>1, <1>3
  <2> HIDE DEF at, x
  <2>2. SubSeq(p, 1, Len(at) + 1) = Append(at, x)
          <=> SubSeq(p, 1, Len(at)) = at /\ p[Len(at) + 1] = x
    BY <2>1, PrefixGrows, ZenonT(60)
  <2> QED BY <2>2 DEF at, x
<1>5. Len(p) > n => p[n + 1] \in Nat
  BY <1>1, <1>3
<1>6. AheadOf(f, p) <=> Len(p) > n /\ SubSeq(p, 1, n) = f.at /\ p[n + 1] >= f.next
  BY DEF AheadOf
<1>7. AheadOf(moved, p) <=> Len(p) > n /\ SubSeq(p, 1, n) = f.at /\ p[n + 1] >= f.next + 1
  BY <1>2 DEF AheadOf
<1> HIDE DEF moved, c, n
<1>8. AheadOf(f, p) <=> AheadOf(moved, p) \/ (Len(p) > n /\ SubSeq(p, 1, n + 1) = c)
  BY <1>1, <1>4, <1>5, <1>6, <1>7
<1>9. ~(AheadOf(moved, p) /\ Len(p) > n /\ SubSeq(p, 1, n + 1) = c)
  BY <1>1, <1>4, <1>5, <1>7
<1> QED BY <1>8, <1>9 DEF moved, c, n

LEMMA FrameMade ==
    ASSUME NEW t, NEW at \in Seq(Positive), Entered(t, at), NEW next \in Positive,
           NEW path \in Slices
    PROVE  LET f == [at |-> at, next |-> next, path |-> path] IN
           f \in Frames(t) /\ f.at = at /\ f.next = next /\ f.path = path
BY DEF Frames, Positive

\* The stack of a walk: its innermost struct, the field this is at, and what
\* becomes of the stack when it moves on, enters this field, or leaves the struct.
Top(stack) == stack[Len(stack)]

AtPath(stack) == Append(Top(stack).at, Top(stack).next)

MovedOn(stack) == [stack EXCEPT ![Len(stack)].next = @ + 1]

Pushed(stack, path) ==
    Append(MovedOn(stack), [at |-> AtPath(stack), next |-> 1, path |-> path])

Popped(stack) == SubSeq(stack, 1, Len(stack) - 1)

\* Moving the innermost frame on changes nothing else of the stack.
StackMoved(t, stack, moved) ==
    LET d == Len(stack) IN
    /\ d \in Nat /\ d >= 1 /\ stack[d] \in Frames(t)
    /\ StackInv(t, moved) /\ Len(moved) = d
    /\ moved[d] = [stack[d] EXCEPT !.next = @ + 1]
    /\ \A k \in 1 .. d - 1 : moved[k] = stack[k]
    /\ \A k \in 1 .. d : moved[k].at = stack[k].at /\ moved[k].path = stack[k].path

LEMMA MovedStack ==
    ASSUME NEW t, NEW stack, StackInv(t, stack), stack # <<>>
    PROVE  StackMoved(t, stack, MovedOn(stack))
<1> USE DEF MovedOn, StackMoved
<1> DEFINE d == Len(stack)
           top == [stack[d] EXCEPT !.next = @ + 1]
           moved == [stack EXCEPT ![d].next = @ + 1]
<1>1. stack \in Seq(Frames(t)) /\ d \in Nat /\ d >= 1
  BY EmptySeq DEF StackInv
<1>2. \A k \in 1 .. d : stack[k] \in Frames(t)
  BY <1>1
<1>3. stack[d] \in Frames(t)
  BY <1>1, <1>2
<1>4. /\ stack[d] = [at |-> stack[d].at, next |-> stack[d].next, path |-> stack[d].path]
      /\ stack[d].next \in Nat
  BY <1>3, FrameFacts
<1>5. /\ top.at = stack[d].at /\ top.path = stack[d].path /\ top.next = stack[d].next + 1
      /\ top = [at |-> stack[d].at, next |-> stack[d].next + 1, path |-> stack[d].path]
  BY <1>4
<1>6. top \in Frames(t)
  BY <1>3, <1>4, <1>5 DEF Frames
<1>7. moved = [stack EXCEPT ![d] = top]
  OBVIOUS
<1> HIDE DEF d, top, moved
<1>8. moved \in Seq(Frames(t)) /\ Len(moved) = d /\ moved[d] = top
      /\ \A k \in 1 .. d : k # d => moved[k] = stack[k]
  BY <1>1, <1>6, <1>7 DEF d
<1>9. \A k \in 1 .. d : moved[k].at = stack[k].at /\ moved[k].path = stack[k].path
  BY <1>5, <1>8
<1>10. \A k \in 1 .. d - 1 : k \in 1 .. d /\ k # d
  BY <1>1
<1>11. \A k \in 1 .. d : \A j \in 1 .. k - 1 : Nested(moved[j], moved[k])
  <2> TAKE k \in 1 .. d
  <2> TAKE j \in 1 .. k - 1
  <2>1. j \in 1 .. d /\ j # d
    BY <1>1
  <2>2. moved[j] = stack[j] /\ moved[k].at = stack[k].at
    BY <1>8, <1>9, <2>1
  <2>3. Nested(stack[j], stack[k])
    BY DEF StackInv, d
  <2> QED BY <2>2, <2>3 DEF Nested
<1>12. StackInv(t, moved)
  BY <1>8, <1>11 DEF StackInv
<1>13. \A k \in 1 .. d - 1 : moved[k] = stack[k]
  BY <1>8, <1>10
<1> QED BY <1>1, <1>3, <1>8, <1>9, <1>12, <1>13 DEF d, top, moved

\* The frames further out have passed the field that the innermost one is at.
LEMMA OuterPassed ==
    ASSUME NEW t \in RequestTypes, NEW stack, StackInv(t, stack), stack # <<>>
    PROVE  \A j \in 1 .. Len(stack) - 1 : ~AheadOf(stack[j], AtPath(stack))
<1> DEFINE d == Len(stack)
           top == stack[d]
           n == Len(top.at)
           c == Append(top.at, top.next)
<1>1. d \in Nat /\ d >= 1 /\ top \in Frames(t)
  BY MovedStack DEF StackMoved
<1>2. top.at \in Seq(Positive) /\ n \in Nat /\ top.next \in Positive
  BY <1>1, FrameFacts
<1>3. \A i \in 1 .. n : c[i] = top.at[i]
  BY <1>2, PrefixOfAppend
<1> HIDE DEF d, top, n, c
<1>4. ASSUME NEW j \in 1 .. d - 1
      PROVE  ~AheadOf(stack[j], c)
  <2>1. j \in 1 .. d /\ d \in 1 .. d
    BY <1>1, <1>4
  <2>2. Nested(stack[j], top)
    BY <1>4, <2>1 DEF StackInv, d, top
  <2>3. stack[j] \in Frames(t)
    BY <2>1 DEF StackInv, d
  <2>4. Len(stack[j].at) \in Nat /\ stack[j].next \in Nat
    BY <2>3, FrameFacts
  <2>5. Len(stack[j].at) + 1 \in 1 .. n
    BY <2>2, <2>4, <1>2 DEF Nested, n
  <2>6. c[Len(stack[j].at) + 1] = top.at[Len(stack[j].at) + 1]
    BY <1>3, <2>5
  <2>7. top.at[Len(stack[j].at) + 1] \in Nat
    BY <1>2, <2>5 DEF n, Positive
  <2>8. top.at[Len(stack[j].at) + 1] < stack[j].next
    BY <2>2 DEF Nested
  <2> QED BY <2>4, <2>6, <2>7, <2>8 DEF AheadOf
<1> QED BY <1>4 DEF AtPath, Top, d, top, c

\* Past a field that it does not enter, the walk has passed this field too, if
\* it is visible.
LEMMA PassField ==
    ASSUME NEW t \in RequestTypes, NEW stack, StackInv(t, stack), stack # <<>>,
           NEW c, c = AtPath(stack),
           c \in DOMAIN t.fields, ~Opens(t.fields[c])
    PROVE  /\ c \notin Passed(t, stack)
           /\ Passed(t, MovedOn(stack)) = Passed(t, stack) \cup {p \in {c} : p \in Visible(t)}
<1> USE DEF AtPath, Top, MovedOn
<1> DEFINE d == Len(stack)
           top == stack[d]
           n == Len(top.at)
           next == [top EXCEPT !.next = @ + 1]
           moved == [stack EXCEPT ![d].next = @ + 1]
           Below(p) == Len(p) > n /\ SubSeq(p, 1, n + 1) = c
<1>1. /\ d \in Nat /\ d >= 1 /\ top \in Frames(t)
      /\ Len(moved) = d /\ moved[d] = next
      /\ \A k \in 1 .. d - 1 : moved[k] = stack[k]
  BY MovedStack DEF StackMoved
<1>2. /\ top.at \in Seq(Positive) /\ n \in Nat /\ top.next \in Positive
      /\ top.next \in Nat
  BY <1>1, FrameFacts
<1>3. /\ Len(c) = n + 1 /\ SubSeq(c, 1, n + 1) = c
      /\ \A i \in 1 .. n : c[i] = top.at[i]
  BY <1>2, PrefixOfAppend
<1>4. \A p \in Visible(t) : p \in DOMAIN t.fields
  BY DEF Visible
<1>5. \A p \in DOMAIN t.fields :
        /\ AheadOf(top, p) <=> AheadOf(next, p) \/ Below(p)
        /\ ~(AheadOf(next, p) /\ Below(p))
  BY <1>1, MovingOn
<1> HIDE DEF d, top, n, next, moved
<1>6. \A p \in Visible(t) : Below(p) => p = c
  <2> SUFFICES ASSUME NEW p \in Visible(t), Below(p)
               PROVE  p = c
    OBVIOUS
  <2>1. p \in Seq(Positive) /\ Len(p) \in Nat /\ Len(p) >= 1
    BY <1>4, PathFacts
  <2>2. \A k \in 1 .. Len(p) - 1 : Opens(t.fields[SubSeq(p, 1, k)])
    BY DEF Visible
  <2>3. Len(p) = n + 1
    <3>1. Len(p) > n + 1 => n + 1 \in 1 .. Len(p) - 1
      BY <1>2, <2>1
    <3>2. ~(Len(p) > n + 1)
      BY <2>2, <3>1
    <3> QED BY <1>2, <2>1, <3>2
  <2>4. SubSeq(p, 1, Len(p)) = p
    <3>1. /\ SubSeq(p, 1, Len(p)) \in Seq(Positive) /\ Len(SubSeq(p, 1, Len(p))) = Len(p)
          /\ \A i \in 1 .. Len(p) : SubSeq(p, 1, Len(p))[i] = p[i]
      BY <2>1, PrefixFacts
    <3> QED BY <2>1, <3>1, SeqEqual
  <2> QED BY <2>3, <2>4
<1>7. Below(c)
  BY <1>2, <1>3
<1>8. \A j \in 1 .. d - 1 : ~AheadOf(stack[j], c)
  BY OuterPassed DEF AtPath, Top, d, top
<1>9. /\ AheadOf(top, c) /\ ~AheadOf(next, c)
  BY <1>5, <1>7
<1>10. d \in 1 .. d /\ \A k \in 1 .. d : k # d => k \in 1 .. d - 1
  BY <1>1
<1>11. c \notin Passed(t, stack)
  BY <1>9, <1>10 DEF Passed, d, top
<1>12. \A p : p \in Passed(t, moved)
                <=> p \in Visible(t) /\ ~AheadOf(next, p)
                      /\ \A k \in 1 .. d - 1 : ~AheadOf(stack[k], p)
  BY <1>1, <1>10 DEF Passed
<1>13. \A p : p \in Passed(t, stack)
                <=> p \in Visible(t) /\ ~AheadOf(top, p)
                      /\ \A k \in 1 .. d - 1 : ~AheadOf(stack[k], p)
  BY <1>10, <1>1 DEF Passed, d, top
<1> HIDE DEF Below
<1>14. \A p : p \in Passed(t, moved)
                <=> p \in Passed(t, stack) \cup {q \in {c} : q \in Visible(t)}
  BY <1>4, <1>5, <1>6, <1>8, <1>9, <1>12, <1>13
<1>15. Passed(t, moved) = Passed(t, stack) \cup {p \in {c} : p \in Visible(t)}
  BY <1>14
<1> QED BY <1>11, <1>15 DEF moved, d

\* Into an embedded struct: nothing is passed yet.
LEMMA EnterStruct ==
    ASSUME NEW t \in RequestTypes, NEW stack, StackInv(t, stack), stack # <<>>,
           NEW c, c = AtPath(stack),
           c \in DOMAIN t.fields, Opens(t.fields[c]), NEW path \in Slices
    PROVE  /\ StackInv(t, Pushed(stack, path))
           /\ Passed(t, Pushed(stack, path)) = Passed(t, stack)
<1> USE DEF AtPath, Top, MovedOn, Pushed
<1> DEFINE d == Len(stack)
           top == stack[d]
           n == Len(top.at)
           next == [top EXCEPT !.next = @ + 1]
           moved == [stack EXCEPT ![d].next = @ + 1]
           new == [at |-> c, next |-> 1, path |-> path]
           inner == Append(moved, new)
           Below(p) == Len(p) > n /\ SubSeq(p, 1, n + 1) = c
<1>1. /\ d \in Nat /\ d >= 1 /\ top \in Frames(t)
      /\ StackInv(t, moved) /\ Len(moved) = d /\ moved[d] = next
      /\ \A k \in 1 .. d - 1 : moved[k] = stack[k]
  BY MovedStack DEF StackMoved
<1>2. /\ top = [at |-> top.at, next |-> top.next, path |-> top.path]
      /\ top.at \in Seq(Positive) /\ n \in Nat /\ top.next \in Positive
      /\ top.next \in Nat /\ Entered(t, top.at)
  BY <1>1, FrameFacts
<1>3. next.at = top.at /\ next.next = top.next + 1
  BY <1>2
<1>4. /\ c \in Seq(Positive) /\ Len(c) = n + 1 /\ SubSeq(c, 1, n + 1) = c
      /\ c[n + 1] = top.next /\ \A i \in 1 .. n : c[i] = top.at[i]
  BY <1>2, PrefixOfAppend
<1>5. \A p \in Visible(t) : p \in DOMAIN t.fields
  BY DEF Visible
<1>6. \A p \in DOMAIN t.fields : AheadOf(top, p) <=> AheadOf(next, p) \/ Below(p)
  BY <1>1, MovingOn
<1>7. Entered(t, c)
  BY <1>2, EnteredDeeper
<1>8. new \in Frames(t) /\ new.at = c /\ new.next = 1
  <2>1. 1 \in Positive
    BY DEF Positive
  <2> QED BY <2>1, <1>4, <1>7, FrameMade
<1>9. moved \in Seq(Frames(t))
  BY <1>1 DEF StackInv
<1> HIDE DEF d, top, n, next, moved, new
<1>10. /\ inner \in Seq(Frames(t)) /\ Len(inner) = d + 1 /\ inner[d + 1] = new
       /\ \A k \in 1 .. d : inner[k] = moved[k]
  BY <1>1, <1>8, <1>9
<1> HIDE DEF inner
<1>11. ASSUME NEW k \in 1 .. d + 1, NEW j \in 1 .. k - 1
       PROVE  Nested(inner[j], inner[k])
  <2>1. CASE k \in 1 .. d
    <3>1. j \in 1 .. d
      BY <1>1, <2>1
    <3>2. Nested(moved[j], moved[k])
      BY <1>1, <2>1 DEF StackInv
    <3> QED BY <1>10, <2>1, <3>1, <3>2
  <2>2. CASE k = d + 1 /\ j = d
    <3>1. inner[j] = next /\ inner[k] = new
      BY <1>1, <1>10, <2>2
    <3>2. Len(next.at) < Len(c) /\ c[Len(next.at) + 1] < next.next
      BY <1>2, <1>3, <1>4 DEF n
    <3> QED BY <1>8, <3>1, <3>2 DEF Nested
  <2>3. CASE k = d + 1 /\ j # d
    <3>1. j \in 1 .. d - 1 /\ j \in 1 .. d /\ d \in 1 .. d
      BY <1>1, <2>3
    <3>2. inner[j] = moved[j] /\ inner[k] = new /\ Nested(moved[j], next)
      BY <1>1, <1>10, <2>3, <3>1 DEF StackInv
    <3>3. moved[j] \in Frames(t)
      BY <1>1, <1>9, <3>1
    <3>4. Len(moved[j].at) \in Nat
      BY <3>3, FrameFacts
    <3>7. Len(moved[j].at) < n
      BY <1>3, <3>2 DEF Nested, n
    <3>5. Len(moved[j].at) + 1 \in 1 .. n /\ Len(moved[j].at) < Len(c)
      <4>1. n \in Nat /\ Len(c) = n + 1
        BY <1>2, <1>4
      <4> DEFINE m == Len(moved[j].at)
      <4>2. m \in Nat /\ m < n
        BY <3>4, <3>7
      <4> HIDE DEF m
      <4>3. m + 1 \in 1 .. n /\ m < n + 1
        BY <4>1, <4>2
      <4> QED BY <4>1, <4>3 DEF m
    <3>6. c[Len(moved[j].at) + 1] < moved[j].next
      BY <1>3, <1>4, <3>2, <3>5 DEF Nested
    <3> QED BY <1>8, <3>2, <3>5, <3>6 DEF Nested
  <2> QED BY <1>1, <2>1, <2>2, <2>3
<1>12. StackInv(t, inner)
  BY <1>10, <1>11 DEF StackInv
<1>13. \A p \in Visible(t) : Below(p) <=> AheadOf(new, p)
  <2> TAKE p \in Visible(t)
  <2>1. /\ p \in Seq(Positive) /\ Len(p) \in Nat
        /\ \A i \in 1 .. Len(p) : p[i] \in Nat /\ p[i] >= 1
    BY <1>5, PathFacts
  <2>2. AheadOf(new, p) <=> Len(p) > n + 1 /\ SubSeq(p, 1, n + 1) = c /\ p[n + 1 + 1] >= 1
    BY <1>4, <1>8 DEF AheadOf
  <2>3. Len(p) > n + 1 => p[n + 1 + 1] >= 1
    <3>1. Len(p) > n + 1 => n + 1 + 1 \in 1 .. Len(p)
      BY <1>2, <2>1
    <3> QED BY <2>1, <3>1
  <2>4. Len(p) = n + 1 /\ SubSeq(p, 1, n + 1) = c => FALSE
    <3> SUFFICES ASSUME Len(p) = n + 1, SubSeq(p, 1, n + 1) = c
                 PROVE  FALSE
      OBVIOUS
    <3>1. /\ SubSeq(p, 1, Len(p)) \in Seq(Positive) /\ Len(SubSeq(p, 1, Len(p))) = Len(p)
          /\ \A i \in 1 .. Len(p) : SubSeq(p, 1, Len(p))[i] = p[i]
      BY <2>1, PrefixFacts
    <3>2. SubSeq(p, 1, Len(p)) = p
      BY <2>1, <3>1, SeqEqual
    <3> QED BY <3>2 DEF Visible
  <2>5. Len(p) > n <=> Len(p) > n + 1 \/ Len(p) = n + 1
    BY <1>2, <2>1
  <2>6. ~(Len(p) > n + 1 /\ Len(p) = n + 1)
    BY <1>2, <2>1
  <2> QED BY <2>2, <2>3, <2>4, <2>5, <2>6, Zenon
<1> HIDE DEF Below
<1>14. d \in 1 .. d /\ \A k \in 1 .. d : k # d => k \in 1 .. d - 1
  BY <1>1
<1>15. \A p : p \in Passed(t, stack)
                <=> p \in Visible(t) /\ ~AheadOf(top, p)
                      /\ \A k \in 1 .. d - 1 : ~AheadOf(stack[k], p)
  BY <1>14, <1>1 DEF Passed, d, top
<1>16. \A k \in 1 .. d + 1 : k \in 1 .. d - 1 \/ k = d \/ k = d + 1
  BY <1>1
<1>17. \A k \in 1 .. d - 1 : k \in 1 .. d + 1 /\ inner[k] = stack[k]
  BY <1>1, <1>10
<1>18. d \in 1 .. d + 1 /\ d + 1 \in 1 .. d + 1 /\ inner[d] = next
  BY <1>1, <1>10
<1>19. \A p : p \in Passed(t, inner)
                <=> p \in Visible(t) /\ ~AheadOf(next, p) /\ ~AheadOf(new, p)
                      /\ \A k \in 1 .. d - 1 : ~AheadOf(stack[k], p)
  <2>1. \A p : (\A k \in 1 .. d + 1 : ~AheadOf(inner[k], p))
                 <=> /\ ~AheadOf(inner[d], p) /\ ~AheadOf(inner[d + 1], p)
                     /\ \A k \in 1 .. d - 1 : ~AheadOf(inner[k], p)
    BY <1>16, <1>17, <1>18
  <2> QED BY <1>10, <1>17, <1>18, <2>1 DEF Passed
<1>20. Passed(t, inner) = Passed(t, stack)
  BY <1>5, <1>6, <1>13, <1>15, <1>19
<1> QED BY <1>12, <1>20 DEF inner, moved, new, d

\* Out of a struct, which has no field left: nothing more is passed.
LEMMA LeaveEmpty ==
    ASSUME NEW t \in RequestTypes, NEW stack, StackInv(t, stack), stack # <<>>,
           AtPath(stack) \notin DOMAIN t.fields
    PROVE  LET outer == Popped(stack) IN
           /\ StackInv(t, outer) /\ Len(outer) = Len(stack) - 1
           /\ \A k \in 1 .. Len(outer) : outer[k] = stack[k]
           /\ Passed(t, outer) = Passed(t, stack)
<1> USE DEF AtPath, Top, Popped
<1> DEFINE d == Len(stack)
           top == stack[d]
           n == Len(top.at)
           c == Append(top.at, top.next)
           outer == SubSeq(stack, 1, d - 1)
<1>1. /\ stack \in Seq(Frames(t)) /\ d \in Nat /\ d >= 1 /\ top \in Frames(t)
  BY EmptySeq DEF StackInv
<1>2. /\ top.at \in Seq(Positive) /\ n \in Nat /\ top.next \in Positive
      /\ top.next \in Nat /\ top.next >= 1
  BY <1>1, FrameFacts
<1>3. /\ outer \in Seq(Frames(t)) /\ Len(outer) = d - 1
      /\ \A k \in 1 .. d - 1 : outer[k] = stack[k]
  <2>1. d - 1 \in 0 .. Len(stack)
    BY <1>1
  <2> QED BY <1>1, <2>1, PrefixFacts, Zenon
<1> HIDE DEF d, top, n, outer
<1>4. StackInv(t, outer)
  <2>1. \A k \in 1 .. d - 1 : \A j \in 1 .. k - 1 :
          k \in 1 .. d /\ j \in 1 .. d - 1
    BY <1>1
  <2> QED BY <1>3, <2>1 DEF StackInv, d
<1>5. \A p \in Visible(t) : ~AheadOf(top, p)
  <2> SUFFICES ASSUME NEW p \in Visible(t), AheadOf(top, p)
               PROVE  FALSE
    OBVIOUS
  <2>1. p \in DOMAIN t.fields
    BY DEF Visible
  <2>2. /\ p \in Seq(Positive) /\ Len(p) \in Nat
        /\ \A i \in 1 .. Len(p) : p[i] \in Nat /\ p[i] >= 1
        /\ \A k \in 1 .. Len(p) : SubSeq(p, 1, k) \in DOMAIN t.fields
    BY <2>1, PathFacts
  <2>3. Len(p) > n /\ SubSeq(p, 1, n) = top.at /\ p[n + 1] >= top.next
    BY DEF AheadOf, n
  <2> DEFINE q == SubSeq(p, 1, n + 1)
             r == [q EXCEPT ![n + 1] = top.next]
  <2>4. n + 1 \in 1 .. Len(p) /\ n + 1 \in 0 .. Len(p) /\ n \in 0 .. Len(p)
    BY <1>2, <2>2, <2>3
  <2>5. /\ q \in Seq(Positive) /\ Len(q) = n + 1 /\ \A i \in 1 .. n + 1 : q[i] = p[i]
    BY <2>2, <2>4, PrefixFacts
  <2>6. q \in DOMAIN t.fields /\ top.next \in 1 .. q[Len(q)]
    <3>1. q[n + 1] = p[n + 1] /\ p[n + 1] \in Nat
      BY <1>2, <2>2, <2>4, <2>5
    <3> HIDE DEF q
    <3> QED BY <1>2, <2>2, <2>3, <2>4, <2>5, <3>1 DEF q
  <2>7. r \in DOMAIN t.fields
    <3>1. \A i \in 1 .. q[Len(q)] : [q EXCEPT ![Len(q)] = i] \in DOMAIN t.fields
      BY <2>6, TypesAssumption DEF IsTree
    <3> HIDE DEF q
    <3> QED BY <2>5, <2>6, <3>1
  <2>8. r = c
    <3>1. r \in Seq(Positive) /\ Len(r) = n + 1 /\ r[n + 1] = top.next
          /\ \A i \in 1 .. n + 1 : i # n + 1 => r[i] = q[i]
      <4> HIDE DEF q
      <4> QED BY <1>2, <2>5
    <3>2. /\ c \in Seq(Positive) /\ Len(c) = n + 1 /\ c[n + 1] = top.next
          /\ \A i \in 1 .. n : c[i] = top.at[i]
      BY <1>2 DEF n
    <3>3. \A i \in 1 .. n : SubSeq(p, 1, n)[i] = p[i]
      BY <2>2, <2>4, PrefixFacts
    <3> HIDE DEF q, r, c
    <3>4. \A i \in 1 .. n + 1 : r[i] = c[i]
      <4> TAKE i \in 1 .. n + 1
      <4>1. i \in 1 .. n \/ i = n + 1
        BY <1>2
      <4>2. i \in 1 .. n => i # n + 1
        BY <1>2
      <4> QED BY <2>3, <2>5, <3>1, <3>2, <3>3, <4>1, <4>2
    <3> QED BY <3>1, <3>2, <3>4, SeqEqual
  <2> QED BY <2>7, <2>8 DEF top, d
<1>6. \A k \in 1 .. d : k \in 1 .. d - 1 \/ k = d
  BY <1>1
<1>7. \A k \in 1 .. d - 1 : k \in 1 .. d
  BY <1>1
<1>8. \A p : p \in Passed(t, stack)
                <=> p \in Visible(t) /\ \A k \in 1 .. d - 1 : ~AheadOf(stack[k], p)
  BY <1>5, <1>6, <1>7 DEF Passed, d, top
<1>9. \A p : p \in Passed(t, outer)
                <=> p \in Visible(t) /\ \A k \in 1 .. d - 1 : ~AheadOf(stack[k], p)
  BY <1>3 DEF Passed
<1>10. Passed(t, outer) = Passed(t, stack)
  BY <1>8, <1>9
<1> QED BY <1>3, <1>4, <1>10 DEF outer, d

\* At first all visible fields are ahead, and in the end none.
LEMMA BeginningAndEnd ==
    ASSUME NEW t \in RequestTypes
    PROVE  LET first == <<[at |-> <<>>, next |-> 1, path |-> Nil]>> IN
           /\ StackInv(t, first) /\ Passed(t, first) = {}
           /\ Passed(t, <<>>) = Visible(t)
<1> DEFINE f == [at |-> <<>>, next |-> 1, path |-> Nil]
           first == <<f>>
<1>1. f.at = <<>> /\ f.next = 1 /\ Len(f.at) = 0
  OBVIOUS
<1>2. f \in Frames(t)
  <2>1. <<>> \in Seq(Nat \ {0}) /\ 1 \in Nat \ {0} /\ Nil \in Slices
    BY DEF Nil, Slices
  <2>2. Entered(t, <<>>)
    BY <2>1 DEF Entered
  <2> QED BY <2>1, <2>2 DEF Frames
<1> HIDE DEF f
<1>3. first \in Seq(Frames(t)) /\ Len(first) = 1 /\ first[1] = f
  BY <1>2
<1> HIDE DEF first
<1>4. StackInv(t, first)
  BY <1>3 DEF StackInv
<1>5. \A p \in Visible(t) : AheadOf(f, p)
  <2> TAKE p \in Visible(t)
  <2>1. p \in DOMAIN t.fields
    BY DEF Visible
  <2>2. Len(p) \in Nat /\ Len(p) >= 1 /\ p[1] >= 1 /\ SubSeq(p, 1, 0) = <<>>
    BY <2>1, PathFacts
  <2> QED BY <1>1, <2>2 DEF AheadOf
<1>6. Passed(t, first) = {}
  BY <1>3, <1>5 DEF Passed
<1>7. Passed(t, <<>>) = Visible(t)
  BY DEF Passed
<1> QED BY <1>4, <1>6, <1>7 DEF first, f

-----------------------------------------------------------------------------
(* The walk: what it has left becomes less.                                *)

\* The fields that the walk has still to come to, visible or not.
Left(t, stack) ==
    {p \in DOMAIN t.fields : \E k \in 1 .. Len(stack) : AheadOf(stack[k], p)}

\* Fewer fields are left, or the same fields and fewer structs to return to.
Less(t, after, before) ==
    /\ Left(t, after) \subseteq Left(t, before)
    /\ Left(t, after) # Left(t, before) \/ Len(after) < Len(before)

\* Moving on takes the field that the walk is at from those that are left.
LEMMA MovesOn ==
    ASSUME NEW t \in RequestTypes, NEW stack, StackInv(t, stack), stack # <<>>,
           AtPath(stack) \in DOMAIN t.fields
    PROVE  /\ AtPath(stack) \in Left(t, stack)
           /\ Left(t, MovedOn(stack)) \subseteq Left(t, stack) \ {AtPath(stack)}
<1> DEFINE d == Len(stack)
           top == stack[d]
           n == Len(top.at)
           c == Append(top.at, top.next)
           next == [top EXCEPT !.next = @ + 1]
           moved == MovedOn(stack)
           Below(p) == Len(p) > n /\ SubSeq(p, 1, n + 1) = c
<1>0. StackMoved(t, stack, moved)
  BY MovedStack
<1>1. /\ d \in Nat /\ d >= 1 /\ top \in Frames(t)
      /\ Len(moved) = d /\ moved[d] = next
      /\ \A k \in 1 .. d - 1 : moved[k] = stack[k]
  <2> HIDE DEF moved
  <2> QED BY <1>0 DEF StackMoved
<1>2. top.at \in Seq(Positive) /\ n \in Nat /\ top.next \in Positive
  BY <1>1, FrameFacts
<1>3. Len(c) = n + 1 /\ SubSeq(c, 1, n + 1) = c
  BY <1>2, PrefixOfAppend
<1>4. \A p \in DOMAIN t.fields :
        /\ AheadOf(top, p) <=> AheadOf(next, p) \/ Below(p)
        /\ ~(AheadOf(next, p) /\ Below(p))
  <2> TAKE p \in DOMAIN t.fields
  <2>1. top \in Frames(t)
    BY <1>1
  <2> HIDE DEF d, top, moved
  <2> QED BY <2>1, MovingOn, ZenonT(60)
<1>5. c \in DOMAIN t.fields /\ \A k \in 1 .. d - 1 : ~AheadOf(stack[k], c)
  BY OuterPassed DEF AtPath, Top
<1> HIDE DEF d, top, n, c, next, moved
<1>6. Below(c)
  BY <1>2, <1>3
<1>7. AheadOf(top, c) /\ ~AheadOf(next, c)
  BY <1>4, <1>5, <1>6
<1>8. d \in 1 .. d /\ \A k \in 1 .. d : k # d => k \in 1 .. d - 1
  BY <1>1
<1>9. c \in Left(t, stack)
  BY <1>5, <1>7, <1>8 DEF Left, d, top
<1>10. ASSUME NEW p \in Left(t, moved)
       PROVE  p \in Left(t, stack) /\ p # c
  <2>1. p \in DOMAIN t.fields
    BY DEF Left
  <2>2. PICK k \in 1 .. d : AheadOf(moved[k], p)
    BY <1>1 DEF Left
  <2>3. CASE k = d
    <3>1. AheadOf(next, p)
      BY <1>1, <2>2, <2>3
    <3>2. AheadOf(top, p)
      BY <1>4, <2>1, <3>1
    <3> QED BY <1>7, <1>8, <2>1, <3>1, <3>2 DEF Left, d, top
  <2>4. CASE k # d
    <3>1. k \in 1 .. d - 1 /\ AheadOf(stack[k], p)
      BY <1>1, <1>8, <2>2, <2>4
    <3> QED BY <1>5, <2>1, <3>1 DEF Left, d
  <2> QED BY <2>3, <2>4
<1> QED BY <1>9, <1>10 DEF AtPath, Top, c, d, top, moved

\* Entering a struct leaves what lies in it, but the struct itself no more.
LEMMA MovesIn ==
    ASSUME NEW t \in RequestTypes, NEW stack, StackInv(t, stack), stack # <<>>,
           AtPath(stack) \in DOMAIN t.fields, NEW path
    PROVE  Left(t, Pushed(stack, path)) \subseteq Left(t, stack) \ {AtPath(stack)}
<1> DEFINE d == Len(stack)
           top == stack[d]
           n == Len(top.at)
           c == AtPath(stack)
           new == [at |-> c, next |-> 1, path |-> path]
           moved == MovedOn(stack)
           inner == Append(moved, new)
<1>1. /\ d \in Nat /\ d >= 1 /\ top \in Frames(t)
      /\ StackInv(t, moved) /\ Len(moved) = d
  BY MovedStack DEF StackMoved
<1>2. top.at \in Seq(Positive) /\ n \in Nat /\ top.next \in Positive
  BY <1>1, FrameFacts
<1>3. Len(c) = n + 1
  BY <1>2, PrefixOfAppend DEF AtPath, Top
<1>4. moved \in Seq(Frames(t))
  BY <1>1 DEF StackInv
<1>5. Len(new.at) = n + 1 /\ new.at = c
  BY <1>3
<1> HIDE DEF moved, new, c
<1>6. /\ Len(inner) = d + 1 /\ inner[d + 1] = new
      /\ \A k \in 1 .. d : inner[k] = moved[k]
  BY <1>1, <1>4
<1> HIDE DEF inner
<1>7. ASSUME NEW p \in DOMAIN t.fields, AheadOf(new, p)
      PROVE  p \in Left(t, stack) /\ p # c
  <2>1. Len(p) > n + 1 /\ SubSeq(p, 1, n + 1) = c
    BY <1>5, <1>7 DEF AheadOf
  <2>2. Len(p) \in Nat /\ Len(p) > n
    BY <1>2, <2>1, PathFacts
  <2>3. AheadOf(top, p)
    <3>1. c = Append(top.at, top.next)
      BY DEF c, AtPath, Top
    <3>2. Len(p) > n /\ SubSeq(p, 1, n + 1) = Append(top.at, top.next)
      BY <2>1, <2>2, <3>1
    <3> HIDE DEF d, top
    <3>3. AheadOf(top, p) <=> AheadOf([top EXCEPT !.next = @ + 1], p)
             \/ (Len(p) > n /\ SubSeq(p, 1, n + 1) = Append(top.at, top.next))
      BY <1>1, MovingOn
    <3> QED BY <3>2, <3>3
  <2>4. d \in 1 .. Len(stack)
    BY <1>1
  <2>5. p # c
    BY <1>2, <1>3, <2>1, <2>2
  <2> QED BY <2>3, <2>4, <2>5 DEF Left
<1>8. ASSUME NEW p \in Left(t, inner)
      PROVE  p \in Left(t, stack) /\ p # c
  <2>1. p \in DOMAIN t.fields
    BY DEF Left
  <2>2. PICK k \in 1 .. d + 1 : AheadOf(inner[k], p)
    BY <1>6 DEF Left
  <2>3. CASE k = d + 1
    BY <1>6, <1>7, <2>1, <2>2, <2>3
  <2>4. CASE k # d + 1
    <3>1. k \in 1 .. Len(moved) /\ AheadOf(moved[k], p)
      BY <1>1, <1>6, <2>2, <2>4
    <3>2. p \in Left(t, moved)
      BY <2>1, <3>1 DEF Left
    <3> QED BY <3>2, MovesOn DEF moved, c
  <2> QED BY <2>3, <2>4
<1> QED BY <1>8 DEF Pushed, inner, moved, new, c

LEMMA LeavesLess ==
    ASSUME NEW t \in RequestTypes, NEW stack, StackInv(t, stack), stack # <<>>
    PROVE  /\ AtPath(stack) \in DOMAIN t.fields => Less(t, MovedOn(stack), stack)
           /\ AtPath(stack) \in DOMAIN t.fields =>
                \A path : Less(t, Pushed(stack, path), stack)
           /\ AtPath(stack) \notin DOMAIN t.fields => Less(t, Popped(stack), stack)
<1>1. ASSUME AtPath(stack) \in DOMAIN t.fields
      PROVE  Less(t, MovedOn(stack), stack) /\ \A path : Less(t, Pushed(stack, path), stack)
  BY <1>1, MovesOn, MovesIn DEF Less
<1>2. ASSUME AtPath(stack) \notin DOMAIN t.fields
      PROVE  Less(t, Popped(stack), stack)
  <2>1. /\ Len(Popped(stack)) = Len(stack) - 1
        /\ \A k \in 1 .. Len(Popped(stack)) : Popped(stack)[k] = stack[k]
    BY <1>2, LeaveEmpty
  <2>2. Len(stack) \in Nat /\ Len(stack) >= 1
    BY MovedStack DEF StackMoved
  <2>3. Left(t, Popped(stack)) \subseteq Left(t, stack)
    BY <2>1, <2>2 DEF Left
  <2> QED BY <2>1, <2>2, <2>3 DEF Less
<1> QED BY <1>1, <1>2

-----------------------------------------------------------------------------
(* The walk: its slices.                                                   *)

\* The slices of the frames hold their paths; those of the tags lie in arrays
\* of their own, to which no frame appends.
SlicesInv(heap, stack, index) ==
    /\ heap \in Seq(Seq(Nat))
    /\ \A k \in 1 .. Len(stack) :
         Within(heap, stack[k].path) /\ Elements(heap, stack[k].path) = stack[k].at
    /\ \A s \in DOMAIN index :
         /\ index[s].array \in 1 .. Len(heap)
         /\ \A k \in 1 .. Len(stack) : index[s].array # stack[k].path.array

LEMMA SameSlices ==
    ASSUME NEW heap, NEW stack, NEW index, SlicesInv(heap, stack, index),
           NEW other, Len(other) \in Nat, Len(stack) \in Nat, Len(other) <= Len(stack),
           \A k \in 1 .. Len(other) : other[k].at = stack[k].at /\ other[k].path = stack[k].path
    PROVE  SlicesInv(heap, other, index)
<1>1. \A k \in 1 .. Len(other) : k \in 1 .. Len(stack)
  OBVIOUS
<1> QED BY <1>1 DEF SlicesInv

\* append to the slice of the innermost frame keeps the paths of the frames
\* further out, which are shorter, and the paths of the tags, which are elsewhere.
LEMMA ExtendedSlices ==
    ASSUME NEW t, NEW stack, StackInv(t, stack), stack # <<>>,
           NEW heap, NEW index, SlicesInv(heap, stack, index),
           NEW e, e = Extend(heap, Top(stack).path, Top(stack).next)
    PROVE  /\ e.slice \in Slices
           /\ SlicesInv(e.heap, Pushed(stack, e.slice), index)
           /\ \A s \in DOMAIN index :
                Elements(e.heap, index[s]) = Elements(heap, index[s])
<1> DEFINE d == Len(stack)
           top == stack[d]
           c == Append(top.at, top.next)
           moved == [stack EXCEPT ![d].next = @ + 1]
           new == [at |-> c, next |-> 1, path |-> e.slice]
           inner == Append(moved, new)
<1>1. /\ d \in Nat /\ d >= 1 /\ top \in Frames(t)
      /\ StackInv(t, moved) /\ Len(moved) = d
      /\ \A k \in 1 .. d : moved[k].at = stack[k].at /\ moved[k].path = stack[k].path
  BY MovedStack DEF MovedOn, StackMoved
<1>2. /\ d \in 1 .. d
      /\ heap \in Seq(Seq(Nat)) /\ Len(heap) \in Nat
      /\ \A k \in 1 .. d : Within(heap, stack[k].path) /\ Elements(heap, stack[k].path) = stack[k].at
      /\ \A s \in DOMAIN index :
           /\ index[s].array \in 1 .. Len(heap)
           /\ \A k \in 1 .. d : index[s].array # stack[k].path.array
  BY <1>1 DEF SlicesInv
<1>3. top.next \in Nat
  BY <1>1, FrameFacts
<1>4. Appended(heap, top.path, top.next, e)
  <2>1. e = Extend(heap, top.path, top.next)
    BY DEF Top
  <2> QED BY <1>2, <1>3, <2>1, ExtendFacts
<1> HIDE DEF d, moved
<1>5. /\ moved \in Seq(Frames(t)) /\ Len(inner) = d + 1 /\ inner[d + 1] = new
      /\ \A k \in 1 .. d : inner[k] = moved[k]
  <2>1. moved \in Seq(Frames(t))
    BY <1>1 DEF StackInv
  <2> HIDE DEF new
  <2> QED BY <1>1, <2>1
<1> HIDE DEF inner, top
<1>6. /\ e.heap \in Seq(Seq(Nat)) /\ Len(e.heap) \in Nat /\ Len(e.heap) >= Len(heap)
      /\ \A i \in 1 .. Len(heap) : i # top.path.array => e.heap[i] = heap[i]
      /\ top.path # Nil =>
           /\ Len(e.heap[top.path.array]) = Len(heap[top.path.array])
           /\ \A i \in 1 .. top.path.len :
                e.heap[top.path.array][i] = heap[top.path.array][i]
      /\ Within(e.heap, e.slice)
      /\ e.slice.array \in {top.path.array, Len(heap) + 1}
      /\ Elements(e.heap, e.slice) = c
  <2>1. Elements(heap, top.path) = top.at
    BY <1>2 DEF top
  <2> QED BY <1>4, <2>1 DEF Appended
<1>7. ASSUME NEW k \in 1 .. d
      PROVE  /\ Within(e.heap, stack[k].path)
             /\ Elements(e.heap, stack[k].path) = stack[k].at
  <2>1. /\ Within(heap, stack[k].path) /\ Elements(heap, stack[k].path) = stack[k].at
        /\ stack[k].path.len \in Nat /\ Len(stack[k].at) = stack[k].path.len
    BY <1>2, ElementsOf
  <2>2. /\ Within(heap, top.path) /\ top.path.len \in Nat /\ Len(top.at) = top.path.len
    BY <1>2, ElementsOf DEF top
  <2>3. stack[k].path.len <= top.path.len
    <3>1. CASE k = d
      BY <2>2, <3>1 DEF top
    <3>2. CASE k # d
      <4>1. k \in 1 .. d - 1
        BY <1>1, <3>2
      <4>2. Nested(stack[k], top)
        BY <1>2, <4>1 DEF StackInv, d, top
      <4> QED BY <2>1, <2>2, <4>2 DEF Nested
    <3> QED BY <3>1, <3>2
  <2>4. ASSUME stack[k].path # Nil
        PROVE  /\ Len(e.heap[stack[k].path.array]) = Len(heap[stack[k].path.array])
               /\ \A i \in 1 .. stack[k].path.len :
                    e.heap[stack[k].path.array][i] = heap[stack[k].path.array][i]
    <3>1. stack[k].path.array \in 1 .. Len(heap)
      BY <2>1, <2>4 DEF Within
    <3>2. CASE stack[k].path.array # top.path.array
      BY <1>6, <3>1, <3>2
    <3>3. CASE stack[k].path.array = top.path.array
      <4>1. top.path # Nil
        BY <3>1, <3>3 DEF Nil
      <4>2. \A i \in 1 .. stack[k].path.len : i \in 1 .. top.path.len
        BY <2>1, <2>2, <2>3
      <4> QED BY <1>6, <3>3, <4>1, <4>2
    <3> QED BY <3>2, <3>3
  <2>5. heap \in Seq(Seq(Nat)) /\ e.heap \in Seq(Seq(Nat)) /\ Len(heap) <= Len(e.heap)
    BY <1>2, <1>6
  <2>6. Within(heap, stack[k].path)
    BY <2>1
  <2>7. Within(e.heap, stack[k].path)
        /\ Elements(e.heap, stack[k].path) = Elements(heap, stack[k].path)
    BY <2>4, <2>5, <2>6, ElementsKept
  <2> QED BY <2>1, <2>7
<1>8. ASSUME NEW s \in DOMAIN index
      PROVE  /\ index[s].array \in 1 .. Len(e.heap)
             /\ e.heap[index[s].array] = heap[index[s].array]
             /\ index[s].array # e.slice.array
             /\ \A k \in 1 .. d : index[s].array # stack[k].path.array
  <2>1. /\ index[s].array \in 1 .. Len(heap)
        /\ \A k \in 1 .. d : index[s].array # stack[k].path.array
    BY <1>2
  <2>2. index[s].array # top.path.array
    BY <1>2, <2>1 DEF top
  <2>3. index[s].array \in 1 .. Len(e.heap) /\ index[s].array # Len(heap) + 1
    BY <1>2, <1>6, <2>1
  <2>4. e.heap[index[s].array] = heap[index[s].array]
    BY <1>6, <2>1, <2>2
  <2>5. index[s].array # e.slice.array
    BY <1>6, <2>2, <2>3
  <2> QED BY <2>1, <2>3, <2>4, <2>5
<1>9. \A k \in 1 .. d + 1 : k \in 1 .. d \/ k = d + 1
  BY <1>1
<1>10. SlicesInv(e.heap, inner, index)
  <2>1. \A k \in 1 .. d : inner[k].path = stack[k].path /\ inner[k].at = stack[k].at
    BY <1>1, <1>5
  <2>2. inner[d + 1].path = e.slice /\ inner[d + 1].at = c
    BY <1>5
  <2>3. \A k \in 1 .. Len(inner) :
          Within(e.heap, inner[k].path) /\ Elements(e.heap, inner[k].path) = inner[k].at
    BY <1>5, <1>6, <1>7, <1>9, <2>1, <2>2
  <2>4. \A s \in DOMAIN index : \A k \in 1 .. Len(inner) :
          index[s].array # inner[k].path.array
    <3> TAKE s \in DOMAIN index
    <3> TAKE k \in 1 .. Len(inner)
    <3>1. k \in 1 .. d \/ k = d + 1
      BY <1>5, <1>9
    <3>2. /\ index[s].array # e.slice.array
          /\ \A j \in 1 .. d : index[s].array # stack[j].path.array
      BY <1>8
    <3> QED BY <2>1, <2>2, <3>1, <3>2
  <2> QED BY <1>6, <1>8, <2>3, <2>4 DEF SlicesInv
<1>11. \A s \in DOMAIN index : Elements(e.heap, index[s]) = Elements(heap, index[s])
  BY <1>8 DEF Elements
<1>12. e.slice \in Slices
  BY <1>6 DEF Within
<1>13. Pushed(stack, e.slice) = inner
  BY DEF Pushed, AtPath, Top, MovedOn, inner, moved, d, top
<1> QED BY <1>10, <1>11, <1>12, <1>13

\* An index with a path for some more sources.
WithPaths(index, whole, path) ==
    [s \in DOMAIN index \cup whole |-> IF s \in whole THEN path ELSE index[s]]

\* A copy is the path of the field, in an array that no frame has.
SlicesCopied(heap, stack, index, whole, c) ==
    /\ Elements(c.heap, c.slice) = AtPath(stack)
    /\ SlicesInv(c.heap, MovedOn(stack), WithPaths(index, whole, c.slice))
    /\ \A s \in DOMAIN index : Elements(c.heap, index[s]) = Elements(heap, index[s])

LEMMA CopiedSlices ==
    ASSUME NEW t, NEW stack, StackInv(t, stack), stack # <<>>,
           NEW heap, NEW index, SlicesInv(heap, stack, index), NEW whole
    PROVE  SlicesCopied(heap, stack, index, whole, Copy(heap, Top(stack).path, Top(stack).next))
<1> SUFFICES ASSUME NEW c, c = Copy(heap, Top(stack).path, Top(stack).next)
             PROVE  SlicesCopied(heap, stack, index, whole, c)
  OBVIOUS
<1> DEFINE d == Len(stack)
           top == stack[d]
           moved == [stack EXCEPT ![d].next = @ + 1]
           next == [s \in DOMAIN index \cup whole |-> IF s \in whole THEN c.slice ELSE index[s]]
<1>1. /\ d \in Nat /\ d >= 1 /\ top \in Frames(t) /\ Len(moved) = d
      /\ \A k \in 1 .. d : moved[k].at = stack[k].at /\ moved[k].path = stack[k].path
  BY MovedStack DEF MovedOn, StackMoved
<1>2. /\ d \in 1 .. d
      /\ heap \in Seq(Seq(Nat)) /\ Len(heap) \in Nat
      /\ \A k \in 1 .. d : Within(heap, stack[k].path) /\ Elements(heap, stack[k].path) = stack[k].at
      /\ \A s \in DOMAIN index :
           /\ index[s].array \in 1 .. Len(heap)
           /\ \A k \in 1 .. d : index[s].array # stack[k].path.array
  BY <1>1 DEF SlicesInv
<1>3. top.next \in Nat
  BY <1>1, FrameFacts
<1>4. /\ c.heap \in Seq(Seq(Nat)) /\ Len(c.heap) >= Len(heap)
      /\ \A i \in 1 .. Len(heap) : c.heap[i] = heap[i]
      /\ c.slice.array \in Len(heap) + 1 .. Len(c.heap)
      /\ Elements(c.heap, c.slice) = Append(Elements(heap, top.path), top.next)
  <2>1. Within(heap, top.path)
    BY <1>2
  <2>2. Copied(heap, top.path, top.next, c)
    BY <1>2, <1>3, <2>1, CopyFacts DEF Top
  <2> QED BY <2>2 DEF Copied
<1>5. Elements(heap, top.path) = top.at
  BY <1>2
<1> HIDE DEF d, moved, top
<1>6. ASSUME NEW k \in 1 .. d
      PROVE  /\ Within(c.heap, moved[k].path)
             /\ Elements(c.heap, moved[k].path) = moved[k].at
             /\ moved[k].path.array \in 0 .. Len(heap)
  <2>1. /\ Within(heap, stack[k].path) /\ Elements(heap, stack[k].path) = stack[k].at
        /\ moved[k].at = stack[k].at /\ moved[k].path = stack[k].path
    BY <1>1, <1>2
  <2>2. stack[k].path # Nil =>
          /\ Len(c.heap[stack[k].path.array]) = Len(heap[stack[k].path.array])
          /\ \A i \in 1 .. stack[k].path.len :
               c.heap[stack[k].path.array][i] = heap[stack[k].path.array][i]
    BY <1>4, <2>1 DEF Within
  <2>3. stack[k].path.array \in 0 .. Len(heap)
    BY <1>2, <2>1 DEF Within, Nil
  <2>4. Within(c.heap, stack[k].path) /\ Elements(c.heap, stack[k].path) = stack[k].at
    <3>1. heap \in Seq(Seq(Nat)) /\ c.heap \in Seq(Seq(Nat)) /\ Len(heap) <= Len(c.heap)
      BY <1>4, <1>2
    <3>2. Within(heap, stack[k].path)
      BY <2>1
    <3>3. Within(c.heap, stack[k].path)
          /\ Elements(c.heap, stack[k].path) = Elements(heap, stack[k].path)
      BY <2>2, <3>1, <3>2, ElementsKept
    <3> QED BY <2>1, <3>3
  <2> QED BY <2>1, <2>3, <2>4
<1>7. ASSUME NEW s \in DOMAIN next
      PROVE  /\ next[s].array \in 1 .. Len(c.heap)
             /\ \A k \in 1 .. d : next[s].array # moved[k].path.array
  <2>1. CASE s \in whole
    <3>1. next[s] = c.slice
      BY <2>1
    <3>2. Len(c.heap) \in Nat
      BY <1>4
    <3> HIDE DEF next
    <3> QED BY <1>2, <1>4, <1>6, <3>1, <3>2
  <2>2. CASE s \notin whole
    <3>1. next[s] = index[s] /\ s \in DOMAIN index
      BY <2>2
    <3>2. Len(c.heap) \in Nat
      BY <1>4
    <3>3. /\ index[s].array \in 1 .. Len(heap)
          /\ \A k \in 1 .. d : index[s].array # moved[k].path.array
      BY <1>1, <1>2, <3>1
    <3> HIDE DEF next
    <3> QED BY <1>2, <1>4, <3>1, <3>2, <3>3
  <2> QED BY <2>1, <2>2
<1> HIDE DEF next
<1>8. SlicesInv(c.heap, moved, next)
  BY <1>1, <1>4, <1>6, <1>7 DEF SlicesInv
<1>9. \A s \in DOMAIN index : Elements(c.heap, index[s]) = Elements(heap, index[s])
  BY <1>2, <1>4 DEF Elements
<1>10. Elements(c.heap, c.slice) = Append(top.at, top.next)
  BY <1>4, <1>5
<1>11. MovedOn(stack) = moved /\ WithPaths(index, whole, c.slice) = next
       /\ AtPath(stack) = Append(top.at, top.next)
  BY DEF MovedOn, WithPaths, AtPath, Top, moved, next, top, d
<1> QED BY <1>8, <1>9, <1>10, <1>11 DEF SlicesCopied

-----------------------------------------------------------------------------
(* The walk: its steps.                                                    *)

\* The variables of a walk are those of Init, whatever their values.
Shaped(w) ==
    /\ w = [stack |-> w.stack, tags |-> w.tags, heap |-> w.heap]
    /\ w.tags = [flags |-> w.tags.flags, index |-> w.tags.index, accepts |-> w.tags.accepts]

\* What has been compiled is what the fields passed so far declare.
Walked(t, w) ==
    /\ StackInv(t, w.stack)
    /\ SlicesInv(w.heap, w.stack, w.tags.index)
    /\ KeepsRules(t, Passed(t, w.stack))
    /\ Compiled(w) = Declared(t, Passed(t, w.stack))

LEMMA CompiledIs ==
    ASSUME NEW w, Shaped(w)
    PROVE  Compiled(w) =
             [flags   |-> w.tags.flags,
              index   |-> [s \in DOMAIN w.tags.index |-> Elements(w.heap, w.tags.index[s])],
              accepts |-> w.tags.accepts]
BY DEF Compiled, Shaped

LEMMA SameTags ==
    ASSUME NEW w, Shaped(w), NEW v, Shaped(v), v.tags = w.tags,
           \A s \in DOMAIN w.tags.index :
              Elements(v.heap, w.tags.index[s]) = Elements(w.heap, w.tags.index[s])
    PROVE  Compiled(v) = Compiled(w)
<1>1. [s \in DOMAIN w.tags.index |-> Elements(v.heap, w.tags.index[s])]
      = [s \in DOMAIN w.tags.index |-> Elements(w.heap, w.tags.index[s])]
  OBVIOUS
<1> QED BY <1>1, CompiledIs

LEMMA KnowsPassed ==
    ASSUME NEW t, NEW w, Shaped(w), Walked(t, w)
    PROVE  Summarises(w.tags, t, Passed(t, w.stack))
<1> DEFINE P == Passed(t, w.stack)
           read == [s \in DOMAIN w.tags.index |-> Elements(w.heap, w.tags.index[s])]
           first == [s \in {s \in Sources(t, P) : Whole(t, P, s) # {}} |->
                        CHOOSE p \in Whole(t, P, s) : TRUE]
<1>1. /\ [flags |-> w.tags.flags, index |-> read, accepts |-> w.tags.accepts]
           = [flags |-> Sources(t, P), index |-> first, accepts |-> BodyTypes(t, P)]
  BY CompiledIs DEF Walked, Declared
<1>2. DOMAIN read = DOMAIN w.tags.index
      /\ DOMAIN first = {s \in Sources(t, P) : Whole(t, P, s) # {}}
  OBVIOUS
<1> HIDE DEF read, first, P
<1>3. w.tags.flags = Sources(t, P) /\ read = first
  BY <1>1
<1> QED BY <1>2, <1>3 DEF Summarises, P

\* Past a field that is not exported.
LEMMA SkipKeeps ==
    ASSUME NEW t \in RequestTypes, NEW w, Shaped(w), Walked(t, w), w.stack # <<>>,
           AtPath(w.stack) \in DOMAIN t.fields, ~t.fields[AtPath(w.stack)].exported,
           NEW v, Shaped(v),
           v.stack = MovedOn(w.stack), v.tags = w.tags, v.heap = w.heap
    PROVE  Walked(t, v) /\ v.stack # <<>>
<1> DEFINE d == Len(w.stack)
           c == AtPath(w.stack)
<1>1. /\ d \in Nat /\ d >= 1 /\ StackInv(t, v.stack) /\ Len(v.stack) = d
      /\ \A k \in 1 .. d : v.stack[k].at = w.stack[k].at /\ v.stack[k].path = w.stack[k].path
  <2>1. StackInv(t, w.stack)
    BY DEF Walked
  <2>2. StackMoved(t, w.stack, v.stack)
    BY <2>1, MovedStack
  <2> QED BY <2>2 DEF StackMoved
<1>2. Passed(t, v.stack) = Passed(t, w.stack)
  <2>1. c \notin Visible(t) /\ ~Opens(t.fields[c])
    BY DEF Visible, Opens
  <2>2. Passed(t, v.stack) = Passed(t, w.stack) \cup {p \in {c} : p \in Visible(t)}
    BY <2>1, PassField DEF Walked
  <2> QED BY <2>1, <2>2
<1>3. SlicesInv(w.heap, v.stack, w.tags.index)
  <2>1. SlicesInv(w.heap, w.stack, w.tags.index) /\ Len(v.stack) <= d
    BY <1>1 DEF Walked
  <2> QED BY <1>1, <2>1, SameSlices DEF d
<1>4. Compiled(v) = Compiled(w)
  BY SameTags
<1>5. v.stack # <<>>
  <2>1. v.stack \in Seq(Frames(t)) /\ Len(v.stack) # 0
    BY <1>1 DEF StackInv
  <2> QED BY <2>1, EmptySeq
<1> QED BY <1>1, <1>2, <1>3, <1>4, <1>5 DEF Walked

\* Into an embedded struct.
LEMMA EnterKeeps ==
    ASSUME NEW t \in RequestTypes, NEW w, Shaped(w), Walked(t, w), w.stack # <<>>,
           AtPath(w.stack) \in DOMAIN t.fields, Opens(t.fields[AtPath(w.stack)]),
           NEW e, e = Extend(w.heap, Top(w.stack).path, Top(w.stack).next),
           NEW v, Shaped(v),
           v.stack = Pushed(w.stack, e.slice), v.tags = w.tags, v.heap = e.heap
    PROVE  Walked(t, v) /\ v.stack # <<>>
<1>1. /\ e.slice \in Slices
      /\ SlicesInv(e.heap, v.stack, w.tags.index)
      /\ \A s \in DOMAIN w.tags.index :
           Elements(e.heap, w.tags.index[s]) = Elements(w.heap, w.tags.index[s])
  <2>1. StackInv(t, w.stack) /\ SlicesInv(w.heap, w.stack, w.tags.index)
    BY DEF Walked
  <2> QED BY <2>1, ExtendedSlices
<1>2. StackInv(t, v.stack) /\ Passed(t, v.stack) = Passed(t, w.stack)
  BY <1>1, EnterStruct DEF Walked
<1>3. v.stack # <<>>
  <2> DEFINE moved == MovedOn(w.stack)
             new == [at |-> AtPath(w.stack), next |-> 1, path |-> e.slice]
  <2>1. moved \in Seq(Frames(t))
    BY MovedStack DEF Walked, StackInv, StackMoved
  <2>2. v.stack = Append(moved, new)
    BY DEF Pushed
  <2> HIDE DEF moved, new
  <2> QED BY <2>1, <2>2
<1>4. Compiled(v) = Compiled(w)
  BY <1>1, SameTags
<1> QED BY <1>1, <1>2, <1>3, <1>4 DEF Walked

\* The tags with those of a field that passes the checks.
TagsGain(t, w, v, c, path) ==
    LET named == DOMAIN t.fields[c].tags
        whole == {s \in named : IsWhole(s, t.fields[c])}
    IN  /\ \A s \in named : ~Rejects(w.tags, s, t.fields[c])
        /\ \A s \in whole : Elements(v.heap, path) = c
        /\ \A s \in DOMAIN w.tags.index :
             Elements(v.heap, w.tags.index[s]) = Elements(w.heap, w.tags.index[s])
        /\ v.tags.flags = w.tags.flags \cup named
        /\ v.tags.index = WithPaths(w.tags.index, whole, path)
        /\ v.tags.accepts = IF "body" \in named THEN t.fields[c].accepts ELSE w.tags.accepts

LEMMA TagsAdded ==
    ASSUME NEW t, NEW w, Shaped(w), NEW v, Shaped(v), NEW P, NEW c, c \notin P,
           KeepsRules(t, P), Summarises(w.tags, t, P), Compiled(w) = Declared(t, P),
           NEW path, TagsGain(t, w, v, c, path)
    PROVE  Compiled(v) = Declared(t, P \cup {c})
<1> SUFFICES ASSUME NEW named, named = DOMAIN t.fields[c].tags,
                    \A s \in named : ~Rejects(w.tags, s, t.fields[c]),
                    NEW whole, whole = {s \in named : IsWhole(s, t.fields[c])},
                    \A s \in whole : Elements(v.heap, path) = c,
                    \A s \in DOMAIN w.tags.index :
                       Elements(v.heap, w.tags.index[s]) = Elements(w.heap, w.tags.index[s]),
                    v.tags.flags = w.tags.flags \cup named,
                    v.tags.index = WithPaths(w.tags.index, whole, path),
                    v.tags.accepts = IF "body" \in named THEN t.fields[c].accepts
                                                         ELSE w.tags.accepts
             PROVE  Compiled(v) = Declared(t, P \cup {c})
  BY DEF TagsGain
<1> DEFINE old == Declared(t, P)
           read == [s \in DOMAIN v.tags.index |-> Elements(v.heap, v.tags.index[s])]
           next == [s \in DOMAIN old.index \cup whole |-> IF s \in whole THEN c ELSE old.index[s]]
<1>1. /\ old.flags = w.tags.flags /\ old.accepts = w.tags.accepts
      /\ old.index = [s \in DOMAIN w.tags.index |-> Elements(w.heap, w.tags.index[s])]
  BY CompiledIs
<1>2. Declared(t, P \cup {c}) =
        [flags |-> old.flags \cup named, index |-> next,
         accepts |-> IF "body" \in named THEN t.fields[c].accepts ELSE old.accepts]
  BY AcceptedDeclares
<1>3. Compiled(v) = [flags |-> v.tags.flags, index |-> read, accepts |-> v.tags.accepts]
  BY CompiledIs
<1> HIDE DEF old
<1>4. /\ DOMAIN v.tags.index = DOMAIN w.tags.index \cup whole
      /\ \A s \in DOMAIN w.tags.index \cup whole :
           v.tags.index[s] = IF s \in whole THEN path ELSE w.tags.index[s]
  BY DEF WithPaths
<1>5. DOMAIN old.index = DOMAIN w.tags.index
  BY <1>1
<1>6. \A s \in DOMAIN w.tags.index : old.index[s] = Elements(w.heap, w.tags.index[s])
  BY <1>1
<1>7. ASSUME NEW s \in DOMAIN w.tags.index \cup whole
      PROVE  Elements(v.heap, v.tags.index[s]) = IF s \in whole THEN c ELSE old.index[s]
  <2>1. CASE s \in whole
    BY <2>1, <1>4
  <2>2. CASE s \notin whole
    BY <2>2, <1>4, <1>6
  <2> QED BY <2>1, <2>2
<1>8. read = next
  BY <1>4, <1>5, <1>7
<1> HIDE DEF read, next
<1> QED BY <1>1, <1>2, <1>3, <1>8

\* A step past a field that passes the checks.
FieldCompiled(t, w, v) ==
    LET c     == AtPath(w.stack)
        named == DOMAIN t.fields[c].tags
        whole == {s \in named : IsWhole(s, t.fields[c])}
        copy  == Copy(w.heap, Top(w.stack).path, Top(w.stack).next)
    IN  /\ c \in DOMAIN t.fields
        /\ t.fields[c].exported /\ ~t.fields[c].anonymous
        /\ \A s \in named : ~Rejects(w.tags, s, t.fields[c])
        /\ v.stack = MovedOn(w.stack)
        /\ v.heap = IF whole = {} THEN w.heap ELSE copy.heap
        /\ v.tags.flags = w.tags.flags \cup named
        /\ v.tags.index = WithPaths(w.tags.index, whole, copy.slice)
        /\ v.tags.accepts = IF "body" \in named THEN t.fields[c].accepts ELSE w.tags.accepts

LEMMA CompileKeeps ==
    ASSUME NEW t \in RequestTypes, NEW w, Shaped(w), Walked(t, w), w.stack # <<>>,
           NEW v, Shaped(v), FieldCompiled(t, w, v)
    PROVE  Walked(t, v) /\ v.stack # <<>>
<1> DEFINE d == Len(w.stack)
           P == Passed(t, w.stack)
           c == AtPath(w.stack)
           named == DOMAIN t.fields[c].tags
           whole == {s \in named : IsWhole(s, t.fields[c])}
           copy == Copy(w.heap, Top(w.stack).path, Top(w.stack).next)
<1>1. /\ c \in DOMAIN t.fields
      /\ t.fields[c].exported /\ ~t.fields[c].anonymous
      /\ \A s \in named : ~Rejects(w.tags, s, t.fields[c])
  BY DEF FieldCompiled
<1>2. /\ v.stack = MovedOn(w.stack)
      /\ v.heap = IF whole = {} THEN w.heap ELSE copy.heap
      /\ v.tags.flags = w.tags.flags \cup named
      /\ v.tags.index = WithPaths(w.tags.index, whole, copy.slice)
      /\ v.tags.accepts = IF "body" \in named THEN t.fields[c].accepts ELSE w.tags.accepts
  BY DEF FieldCompiled
<1>3. SlicesInv(w.heap, w.stack, w.tags.index) /\ StackInv(t, w.stack)
  BY DEF Walked
<1>4. /\ d \in Nat /\ d >= 1 /\ StackInv(t, v.stack) /\ Len(v.stack) = d
      /\ \A k \in 1 .. d : v.stack[k].at = w.stack[k].at /\ v.stack[k].path = w.stack[k].path
      /\ Top(w.stack) \in Frames(t)
  <2>1. StackMoved(t, w.stack, v.stack)
    BY <1>2, <1>3, MovedStack
  <2> QED BY <2>1 DEF StackMoved, Top
<1>5. c \notin P /\ Passed(t, v.stack) = P \cup {c}
  <2>1. Entered(t, Top(w.stack).at) /\ Top(w.stack).next \in Positive
    BY <1>4, FrameFacts
  <2>2. c \in Visible(t) /\ ~Opens(t.fields[c])
    <3>1. c = Append(Top(w.stack).at, Top(w.stack).next)
      BY DEF AtPath
    <3> HIDE DEF c
    <3>2. c \in Visible(t) <=> t.fields[c].exported /\ ~Opens(t.fields[c])
      BY <1>1, <2>1, <3>1, EnteredVisible
    <3> QED BY <1>1, <3>2 DEF Opens
  <2>3. c \notin P /\ Passed(t, v.stack) = P \cup {p \in {c} : p \in Visible(t)}
    BY <1>1, <1>2, <1>3, <2>2, PassField
  <2> HIDE DEF P, c
  <2> QED BY <2>2, <2>3
<1>6. Summarises(w.tags, t, P) /\ KeepsRules(t, P) /\ Compiled(w) = Declared(t, P)
  BY KnowsPassed DEF Walked
<1> HIDE DEF P
<1>7. KeepsRules(t, P \cup {c})
  BY <1>1, <1>5, <1>6, AcceptedKeepsRules
<1>8. /\ SlicesInv(v.heap, v.stack, v.tags.index)
      /\ \A s \in whole : Elements(v.heap, copy.slice) = c
      /\ \A s \in DOMAIN w.tags.index :
           Elements(v.heap, w.tags.index[s]) = Elements(w.heap, w.tags.index[s])
  <2> HIDE DEF whole, copy
  <2>1. CASE whole = {}
    <3>1. Len(v.stack) <= d
      BY <1>4
    <3>2. SlicesInv(w.heap, v.stack, w.tags.index)
      BY <1>3, <1>4, <3>1, SameSlices DEF d
    <3>3. DOMAIN v.tags.index = DOMAIN w.tags.index
          /\ \A s \in DOMAIN w.tags.index : v.tags.index[s] = w.tags.index[s]
      BY <1>2, <2>1 DEF WithPaths
    <3>4. v.heap = w.heap
      BY <1>2, <2>1
    <3> QED BY <2>1, <3>2, <3>3, <3>4 DEF SlicesInv
  <2>2. CASE whole # {}
    <3>1. SlicesCopied(w.heap, w.stack, w.tags.index, whole, copy)
      BY <1>3, CopiedSlices DEF copy
    <3>2. v.heap = copy.heap
      BY <1>2, <2>2
    <3> QED BY <1>2, <3>1, <3>2 DEF SlicesCopied
  <2> QED BY <2>1, <2>2
<1>9. Compiled(v) = Declared(t, P \cup {c})
  <2>1. TagsGain(t, w, v, c, copy.slice)
    BY <1>1, <1>2, <1>8 DEF TagsGain
  <2> HIDE DEF copy, c
  <2> QED BY <1>5, <1>6, <2>1, TagsAdded
<1>10. v.stack # <<>>
  <2>1. v.stack \in Seq(Frames(t)) /\ Len(v.stack) # 0
    BY <1>4 DEF StackInv
  <2> QED BY <2>1, EmptySeq
<1> QED BY <1>4, <1>5, <1>7, <1>8, <1>9, <1>10 DEF Walked

\* Out of a struct that has no field left.
LEMMA LeaveKeeps ==
    ASSUME NEW t \in RequestTypes, NEW w, Shaped(w), Walked(t, w), w.stack # <<>>,
           AtPath(w.stack) \notin DOMAIN t.fields,
           NEW v, Shaped(v), v.stack = Popped(w.stack), v.tags = w.tags, v.heap = w.heap
    PROVE  Walked(t, v) /\ (v.stack = <<>> <=> Len(w.stack) = 1)
<1> DEFINE d == Len(w.stack)
<1>1. /\ StackInv(t, v.stack) /\ Len(v.stack) = d - 1
      /\ \A k \in 1 .. Len(v.stack) : v.stack[k] = w.stack[k]
      /\ Passed(t, v.stack) = Passed(t, w.stack)
  BY LeaveEmpty DEF Walked
<1>2. d \in Nat /\ d >= 1
  BY MovedStack DEF Walked, StackMoved
<1>3. SlicesInv(w.heap, w.stack, w.tags.index)
  BY DEF Walked
<1>4. SlicesInv(w.heap, v.stack, w.tags.index)
  <2>1. Len(v.stack) \in Nat /\ Len(v.stack) <= d
    BY <1>1, <1>2
  <2> QED BY <1>1, <1>2, <1>3, <2>1, SameSlices DEF d
<1>5. Compiled(v) = Compiled(w)
  BY SameTags
<1>6. v.stack = <<>> <=> d = 1
  <2>1. v.stack \in Seq(Frames(t))
    BY <1>1 DEF StackInv
  <2>2. Len(v.stack) = 0 <=> d = 1
    BY <1>1, <1>2
  <2>3. v.stack = <<>> <=> Len(v.stack) = 0
    BY <2>1, EmptySeq
  <2> QED BY <2>2, <2>3
<1> QED BY <1>1, <1>4, <1>5, <1>6 DEF Walked

\* At the type's first field.
LEMMA BeginKeeps ==
    ASSUME NEW t \in RequestTypes,
           NEW v, Shaped(v), v.tags = NoTags, v.heap = <<>>,
           v.stack = <<[at |-> <<>>, next |-> 1, path |-> Nil]>>
    PROVE  Walked(t, v) /\ v.stack # <<>>
<1> DEFINE f == [at |-> <<>>, next |-> 1, path |-> Nil]
           first == <<f>>
<1>1. v.tags.flags = {} /\ v.tags.index = <<>> /\ v.tags.accepts = {} /\ v.stack = first
  BY DEF NoTags
<1>2. StackInv(t, first) /\ Passed(t, first) = {}
  BY BeginningAndEnd
<1>3. KeepsRules(t, {})
  BY DEF KeepsRules
<1>4. SlicesInv(<<>>, first, <<>>)
  <2>1. Len(first) = 1 /\ first[1].path = Nil /\ first[1].at = <<>>
    OBVIOUS
  <2>2. Within(<<>>, Nil) /\ Elements(<<>>, Nil) = <<>>
    BY DEF Within, Slices, Elements, Nil
  <2>3. DOMAIN <<>> = {} /\ <<>> \in Seq(Seq(Nat))
    OBVIOUS
  <2> HIDE DEF first
  <2> QED BY <2>1, <2>2, <2>3 DEF SlicesInv
<1>5. Compiled(v) = Declared(t, {})
  <2>1. Sources(t, {}) = {} /\ BodyTypes(t, {}) = {}
    BY DEF Sources, BodyTypes, Tagged
  <2>2. [s \in {s \in {} : Whole(t, {}, s) # {}} |-> CHOOSE p \in Whole(t, {}, s) : TRUE]
        = [s \in {} |-> Elements(<<>>, <<>>[s])]
    OBVIOUS
  <2>3. DOMAIN v.tags.index = {}
    BY <1>1
  <2>4. Compiled(v) = [flags |-> {}, index |-> [s \in {} |-> Elements(<<>>, <<>>[s])], accepts |-> {}]
    BY <1>1, <2>3, CompiledIs
  <2> QED BY <2>1, <2>2, <2>4 DEF Declared
<1>6. first # <<>>
  OBVIOUS
<1> HIDE DEF first
<1> QED BY <1>1, <1>2, <1>3, <1>4, <1>5, <1>6 DEF Walked

-----------------------------------------------------------------------------
(* The mutex and the cache.                                                *)

LEMMA InitInvariant == Init => IInv
BY DEF Init, IInv, TypeOK, CompilesOnce, ResultInv, Inside, Labels, NoTags

-----------------------------------------------------------------------------
(* What a step of one goroutine may change, by where it is.                *)

\* The steps of the walk stay inside the mutex and touch nothing shared.
WalkStep(g) ==
    /\ pc[g] = "walk"
    /\ pc' \in {pc, [pc EXCEPT ![g] = "check"]}
    /\ \E w : walk' = [walk EXCEPT ![g] = w]
    /\ UNCHANGED <<arg, result, panicking, holders, cache>>

FailStep(g) ==
    /\ pc[g] \in {"lookup", "walk", "check"}
    /\ Fail(g)

LEMMA StepKinds ==
    ASSUME TypeOK, NEW g \in Goroutines, CreateTags(g)
    PROVE  \/ NotStruct(g) \/ Lock(g) \/ Hit(g) \/ BeginWalk(g)
           \/ WalkStep(g) \/ FailStep(g) \/ Store(g) \/ Unlock(g)
<1>1. CASE SkipUnexported(g)
  BY <1>1 DEF SkipUnexported, AtField, Step, WalkStep
<1>2. CASE EnterEmbedded(g)
  BY <1>2 DEF EnterEmbedded, AtField, Step, WalkStep
<1>3. CASE CompileField(g)
  BY <1>3 DEF CompileField, AtField, Step, WalkStep
<1>4. CASE LeaveStruct(g)
  <2>1. pc' = [pc EXCEPT ![g] = "check"] \/ pc' = [pc EXCEPT ![g] = "walk"]
    BY <1>4 DEF LeaveStruct, Goto
  <2>2. pc[g] = "walk" => [pc EXCEPT ![g] = "walk"] = pc
    BY DEF TypeOK
  <2>3. QED
    BY <1>4, <2>1, <2>2 DEF LeaveStruct, WalkStep
<1>5. CASE BadDefaults(g)
  BY <1>5 DEF BadDefaults, FailStep
<1>6. CASE RejectEmbedded(g) \/ RejectField(g)
  BY <1>6 DEF RejectEmbedded, RejectField, AtField, FailStep
<1>7. CASE Conflict(g)
  BY <1>7 DEF Conflict, FailStep
<1>8. QED
  BY <1>1, <1>2, <1>3, <1>4, <1>5, <1>6, <1>7 DEF CreateTags

LEMMA StepTypes ==
    ASSUME TypeOK, NEW g \in Goroutines, CreateTags(g)
    PROVE  TypeOK'
<1> USE DEF TypeOK, Labels, Goto
<1>1. CASE NotStruct(g)
  BY <1>1 DEF NotStruct
<1>2. CASE Lock(g)
  BY <1>2 DEF Lock
<1>3. CASE Hit(g)
  BY <1>3 DEF Hit
<1>4. CASE BeginWalk(g)
  BY <1>4 DEF BeginWalk
<1>5. CASE WalkStep(g)
  BY <1>5 DEF WalkStep
<1>6. CASE FailStep(g)
  BY <1>6 DEF FailStep, Fail
<1>7. CASE Store(g)
  <2>1. DOMAIN cache' = DOMAIN cache \cup {arg[g]}
    BY <1>7 DEF Store
  <2>2. arg[g] \in RequestTypes
    OBVIOUS
  <2>3. pc' \in [Goroutines -> Labels] /\ DOMAIN result' = Goroutines
    BY <1>7 DEF Store
  <2>4. QED
    BY <1>7, <2>1, <2>2, <2>3 DEF Store
<1>8. CASE Unlock(g)
  <2>1. holders' \in {{}} \cup {{h} : h \in Goroutines}
    BY <1>8 DEF Unlock
  <2>2. QED
    BY <1>8, <2>1 DEF Unlock
<1>9. QED
  BY <1>1, <1>2, <1>3, <1>4, <1>5, <1>6, <1>7, <1>8, StepKinds

\* The others' places, types and results are their own.
LEMMA OthersKept ==
    ASSUME TypeOK, NEW g \in Goroutines, CreateTags(g)
    PROVE  /\ arg' = arg
           /\ \A h \in Goroutines : h # g => pc'[h] = pc[h] /\ result'[h] = result[h]
           /\ \A h \in Goroutines : h # g => (h \in panicking' <=> h \in panicking)
<1> USE DEF TypeOK, Goto
<1>1. CASE NotStruct(g)
  BY <1>1 DEF NotStruct
<1>2. CASE Lock(g)
  BY <1>2 DEF Lock
<1>3. CASE Hit(g)
  BY <1>3 DEF Hit
<1>4. CASE BeginWalk(g)
  BY <1>4 DEF BeginWalk
<1>5. CASE WalkStep(g)
  BY <1>5 DEF WalkStep
<1>6. CASE FailStep(g)
  BY <1>6 DEF FailStep, Fail
<1>7. CASE Store(g)
  BY <1>7 DEF Store
<1>8. CASE Unlock(g)
  BY <1>8 DEF Unlock
<1>9. QED
  BY <1>1, <1>2, <1>3, <1>4, <1>5, <1>6, <1>7, <1>8, StepKinds

-----------------------------------------------------------------------------
(* The invariant, one conjunct at a time.                                  *)

LEMMA StepExclusive ==
    ASSUME IInv, NEW g \in Goroutines, CreateTags(g)
    PROVE  \A h \in Goroutines : Inside(h)' => holders' = {h}
<1> USE DEF IInv, TypeOK, CompilesOnce, Inside, Goto
<1> SUFFICES ASSUME NEW h \in Goroutines, Inside(h)'
             PROVE  holders' = {h}
  OBVIOUS
<1>1. CASE NotStruct(g)
  BY <1>1 DEF NotStruct
<1>2. CASE Lock(g)
  BY <1>2 DEF Lock
<1>3. CASE Hit(g)
  BY <1>3 DEF Hit
<1>4. CASE BeginWalk(g)
  BY <1>4 DEF BeginWalk
<1>5. CASE WalkStep(g)
  BY <1>5 DEF WalkStep
<1>6. CASE FailStep(g)
  BY <1>6 DEF FailStep, Fail
<1>7. CASE Store(g)
  BY <1>7 DEF Store
<1>8. CASE Unlock(g)
  <2>1. pc'[g] \in {"panicked", "returned"}
    BY <1>8 DEF Unlock
  <2>2. h # g /\ pc[h] = pc'[h]
    BY <1>8, <2>1, OthersKept
  <2>3. QED
    BY <1>8, <2>2 DEF Unlock
<1>9. QED
  BY <1>1, <1>2, <1>3, <1>4, <1>5, <1>6, <1>7, <1>8, StepKinds

\* Only the goroutine inside the mutex can make its own type cached.
LEMMA StepUncached ==
    ASSUME IInv, NEW g \in Goroutines, CreateTags(g)
    PROVE  \A h \in Goroutines :
             pc'[h] \in {"walk", "check"} => arg'[h] \notin DOMAIN cache'
<1> USE DEF IInv, TypeOK, CompilesOnce, Goto
<1> SUFFICES ASSUME NEW h \in Goroutines, pc'[h] \in {"walk", "check"}
             PROVE  arg'[h] \notin DOMAIN cache'
  OBVIOUS
<1>1. CASE NotStruct(g)
  BY <1>1 DEF NotStruct
<1>2. CASE Lock(g)
  BY <1>2 DEF Lock
<1>3. CASE Hit(g)
  BY <1>3 DEF Hit
<1>4. CASE BeginWalk(g)
  BY <1>4 DEF BeginWalk
<1>5. CASE WalkStep(g)
  BY <1>5 DEF WalkStep
<1>6. CASE FailStep(g)
  BY <1>6 DEF FailStep, Fail
<1>7. CASE Store(g)
  <2>1. h # g /\ pc[h] = pc'[h]
    BY <1>7 DEF Store
  <2>2. FALSE
    BY <1>7, <2>1 DEF Store, Inside
  <2>3. QED
    BY <2>2
<1>8. CASE Unlock(g)
  BY <1>8 DEF Unlock
<1>9. QED
  BY <1>1, <1>2, <1>3, <1>4, <1>5, <1>6, <1>7, <1>8, StepKinds

\* An entry of the cache stays as it was stored.
LEMMA CacheKept ==
    ASSUME IInv, NEW g \in Goroutines, CreateTags(g)
    PROVE  \A t \in DOMAIN cache : t \in DOMAIN cache' /\ cache'[t] = cache[t]
<1>1. CASE Store(g)
  <2>1. arg[g] \notin DOMAIN cache
    BY <1>1 DEF Store, IInv, CompilesOnce
  <2>2. QED
    BY <1>1, <2>1 DEF Store
<1>2. CASE ~Store(g)
  <2>1. cache' = cache
    BY <1>2, StepKinds
       DEF IInv, NotStruct, Lock, Hit, BeginWalk, WalkStep, FailStep, Fail, Unlock
  <2>2. QED
    BY <2>1
<1>3. QED
  BY <1>1, <1>2

LEMMA StepResult ==
    ASSUME IInv, NEW g \in Goroutines, CreateTags(g)
    PROVE  ResultInv'
<1> DEFINE HasTags(h) == pc[h] = "returned" \/ (pc[h] = "unlock" /\ h \notin panicking)
<1> SUFFICES ASSUME NEW h \in Goroutines, HasTags(h)'
             PROVE  arg'[h] \in DOMAIN cache' /\ result'[h] = cache'[arg'[h]]
  BY DEF ResultInv
<1>1. TypeOK /\ ResultInv
  BY DEF IInv
<1>2. CASE HasTags(h) /\ result'[h] = result[h]
  <2>1. arg[h] \in DOMAIN cache /\ result[h] = cache[arg[h]]
    BY <1>1, <1>2 DEF ResultInv
  <2>2. QED
    BY <1>1, <1>2, <2>1, CacheKept, OthersKept
<1>3. CASE h # g
  BY <1>1, <1>2, <1>3, OthersKept
<1>4. CASE h = g
  <2> USE <1>1, <1>4 DEF TypeOK, Goto
  <2>1. CASE NotStruct(g)
    BY <2>1 DEF NotStruct
  <2>2. CASE Lock(g) \/ BeginWalk(g) \/ WalkStep(g)
    BY <2>2 DEF Lock, BeginWalk, WalkStep
  <2>3. CASE FailStep(g)
    BY <2>3 DEF FailStep, Fail
  <2>4. CASE Hit(g)
    BY <2>4 DEF Hit
  <2>5. CASE Store(g)
    <3>1. result'[g] = Compiled(walk[g])
      BY <2>5 DEF Store
    <3>2. arg[g] \in DOMAIN cache' /\ cache'[arg[g]] = Compiled(walk[g])
      BY <2>5 DEF Store
    <3>3. QED
      BY <2>5, <3>1, <3>2 DEF Store
  <2>6. CASE Unlock(g)
    <3>1. HasTags(g) /\ result'[g] = result[g]
      BY <2>6 DEF Unlock
    <3>2. QED
      BY <3>1, <1>2
  <2>7. QED
    BY <2>1, <2>2, <2>3, <2>4, <2>5, <2>6, StepKinds
<1>5. QED
  BY <1>3, <1>4

LEMMA StepInvariant == IInv /\ [Next]_vars => IInv'
<1> SUFFICES ASSUME IInv, [Next]_vars
             PROVE  IInv'
  OBVIOUS
<1>1. CASE \E g \in Goroutines : CreateTags(g)
  <2>1. PICK g \in Goroutines : CreateTags(g)
    BY <1>1
  <2>2. TypeOK' /\ ResultInv'
    BY <2>1, StepTypes, StepResult DEF IInv
  <2>3. CompilesOnce'
    BY <2>1, StepExclusive, StepUncached DEF CompilesOnce
  <2>4. QED
    BY <2>2, <2>3 DEF IInv
<1>2. CASE UNCHANGED vars
  BY <1>2 DEF vars, IInv, TypeOK, CompilesOnce, ResultInv, Inside
<1>3. QED
  BY <1>1, <1>2 DEF Next, Finished

-----------------------------------------------------------------------------
(* The walk: what a refusal and its end say of the type.                   *)

\* An exported field of a struct that the walk has entered, and that it will
\* not enter itself, is visible and has not been passed.
LEMMA AheadVisible ==
    ASSUME NEW t \in RequestTypes, NEW w, Walked(t, w), w.stack # <<>>,
           AtPath(w.stack) \in DOMAIN t.fields, t.fields[AtPath(w.stack)].exported,
           ~Opens(t.fields[AtPath(w.stack)])
    PROVE  AtPath(w.stack) \in Visible(t) /\ AtPath(w.stack) \notin Passed(t, w.stack)
<1> DEFINE c == AtPath(w.stack)
<1>1. StackInv(t, w.stack)
  BY DEF Walked
<1>2. Top(w.stack) \in Frames(t)
  <2>1. StackMoved(t, w.stack, MovedOn(w.stack))
    BY <1>1, MovedStack
  <2> QED BY <2>1 DEF StackMoved, Top
<1>3. Entered(t, Top(w.stack).at) /\ Top(w.stack).next \in Positive
  BY <1>2, FrameFacts
<1>4. c = Append(Top(w.stack).at, Top(w.stack).next)
  BY DEF AtPath
<1>5. c \notin Passed(t, w.stack)
  BY <1>1, PassField
<1> HIDE DEF c
<1>6. c \in Visible(t)
  <2>1. c \in Visible(t) <=> t.fields[c].exported /\ ~Opens(t.fields[c])
    BY <1>3, <1>4, EnteredVisible DEF c
  <2> QED BY <2>1 DEF c
<1> QED BY <1>5, <1>6 DEF c

LEMMA EmbeddedRefused ==
    ASSUME NEW t \in RequestTypes, NEW w, Walked(t, w), w.stack # <<>>,
           AtPath(w.stack) \in DOMAIN t.fields, t.fields[AtPath(w.stack)].exported,
           t.fields[AtPath(w.stack)].anonymous, t.fields[AtPath(w.stack)].type # "struct"
    PROVE  ~WellFormed(t)
<1>1. ~Opens(t.fields[AtPath(w.stack)])
  BY DEF Opens
<1>2. AtPath(w.stack) \in Visible(t)
  BY <1>1, AheadVisible
<1> QED BY <1>2 DEF WellFormed, KeepsRules

LEMMA FieldRefused ==
    ASSUME NEW t \in RequestTypes, NEW w, Shaped(w), Walked(t, w), w.stack # <<>>,
           AtPath(w.stack) \in DOMAIN t.fields, t.fields[AtPath(w.stack)].exported,
           ~t.fields[AtPath(w.stack)].anonymous,
           NEW s \in DOMAIN t.fields[AtPath(w.stack)].tags,
           Rejects(w.tags, s, t.fields[AtPath(w.stack)])
    PROVE  ~WellFormed(t)
<1> DEFINE c == AtPath(w.stack)
           P == Passed(t, w.stack)
<1>1. ~Opens(t.fields[c])
  BY DEF Opens
<1>2. c \in Visible(t) /\ c \notin P
  BY <1>1, AheadVisible
<1>3. P \subseteq Visible(t)
  BY DEF Passed
<1>4. Summarises(w.tags, t, P)
  BY KnowsPassed
<1>5. s \in DOMAIN t.fields[c].tags /\ Rejects(w.tags, s, t.fields[c])
  OBVIOUS
<1> HIDE DEF c, P
<1>6. ~KeepsRules(t, Visible(t))
  BY <1>2, <1>3, <1>4, <1>5, RefusedBreaksRules
<1> QED BY <1>6 DEF WellFormed

\* At its end the walk has passed all visible fields.
LEMMA AllCompiled ==
    ASSUME NEW t \in RequestTypes, NEW w, Shaped(w), Walked(t, w), w.stack = <<>>
    PROVE  /\ KeepsRules(t, Visible(t))
           /\ Compiled(w) = Declared(t, Visible(t))
           /\ w.tags.flags = Sources(t, Visible(t))
           /\ w.tags.accepts = BodyTypes(t, Visible(t))
<1>1. Passed(t, w.stack) = Visible(t)
  BY BeginningAndEnd
<1>2. KeepsRules(t, Visible(t)) /\ Compiled(w) = Declared(t, Visible(t))
  BY <1>1 DEF Walked
<1> QED BY <1>2, CompiledIs DEF Declared

-----------------------------------------------------------------------------
(* The invariant of the compiler.                                          *)

NoWalk == [stack |-> <<>>, tags |-> NoTags, heap |-> <<>>]

\* The walk of a goroutine that compiles t, by where this goroutine is.
WalkAt(label, t, w) ==
    /\ Shaped(w)
    /\ label \in {"start", "lookup"} => w = NoWalk
    /\ label \in {"walk", "check"} => Walked(t, w)
    /\ label = "walk" => w.stack # <<>>
    /\ label = "check" => w.stack = <<>>

WalkInv == \A g \in Goroutines : WalkAt(pc[g], arg[g], walk[g])

\* How far a goroutine has got says what is known of its type.
VerdictAt(label, t, fails) ==
    /\ label \in {"lookup", "walk", "check"} => t.isStruct
    /\ label \in {"walk", "check"} => t.defaultsOK
    /\ label = "panicked" => fails
    /\ fails => ~WellFormed(t) /\ label \in {"unlock", "panicked"}

TypesInv == \A g \in Goroutines : VerdictAt(pc[g], arg[g], g \in panicking)

CacheInv == \A t \in DOMAIN cache : WellFormed(t) /\ cache[t] = Declared(t, Visible(t))

CompilerInv == WalkInv /\ TypesInv /\ CacheInv

LEMMA InitCompiler == Init => CompilerInv
<1> SUFFICES ASSUME Init
             PROVE  CompilerInv
  OBVIOUS
<1>1. ASSUME NEW g \in Goroutines
      PROVE  WalkAt(pc[g], arg[g], walk[g]) /\ VerdictAt(pc[g], arg[g], g \in panicking)
  <2>1. pc[g] = "start" /\ walk[g] = NoWalk /\ g \notin panicking
    BY DEF Init, NoWalk
  <2>2. Shaped(NoWalk)
    BY DEF Shaped, NoWalk, NoTags
  <2> QED BY <2>1, <2>2 DEF WalkAt, VerdictAt
<1>2. DOMAIN cache = {}
  BY DEF Init
<1> QED BY <1>1, <1>2 DEF CompilerInv, WalkInv, TypesInv, CacheInv

\* The others' walks are their own.
LEMMA WalksKept ==
    ASSUME TypeOK, NEW g \in Goroutines, CreateTags(g), NEW h \in Goroutines, h # g
    PROVE  walk'[h] = walk[h]
<1> USE DEF TypeOK, Goto
<1>1. CASE NotStruct(g) \/ Lock(g) \/ Hit(g) \/ Store(g) \/ Unlock(g)
  BY <1>1 DEF NotStruct, Lock, Hit, Store, Unlock
<1>2. CASE BeginWalk(g)
  BY <1>2 DEF BeginWalk
<1>3. CASE WalkStep(g)
  BY <1>3 DEF WalkStep
<1>4. CASE FailStep(g)
  BY <1>4 DEF FailStep, Fail
<1>5. QED
  BY <1>1, <1>2, <1>3, <1>4, StepKinds

\* What the guards of the walk say in terms of its stack.
LEMMA AtFieldIs ==
    ASSUME NEW g \in Goroutines
    PROVE  /\ Position(g) = AtPath(walk[g].stack)
           /\ Advanced(g) = MovedOn(walk[g].stack)
           /\ Frame(g) = Top(walk[g].stack)
           /\ Field(g) = arg[g].fields[AtPath(walk[g].stack)]
           /\ AtField(g) => pc[g] = "walk" /\ AtPath(walk[g].stack) \in DOMAIN arg[g].fields
BY DEF Position, Advanced, Frame, Depth, Field, AtField, AtPath, MovedOn, Top

LEMMA StepSets ==
    ASSUME TypeOK, NEW g \in Goroutines, NEW w, Step(g, w)
    PROVE  walk'[g] = w /\ pc' = pc
BY DEF TypeOK, Step

LEMMA StepOwnWalk ==
    ASSUME IInv, CompilerInv, NEW g \in Goroutines, CreateTags(g)
    PROVE  WalkAt(pc'[g], arg'[g], walk'[g])
<1> DEFINE t == arg[g]
           w == walk[g]
<1>1. TypeOK /\ WalkAt(pc[g], t, w) /\ arg' = arg /\ t \in RequestTypes
  BY OthersKept DEF IInv, TypeOK, CompilerInv, WalkInv
<1>2. /\ pc \in [Goroutines -> Labels] /\ DOMAIN walk = Goroutines
      /\ Shaped(w)
      /\ pc[g] \in {"start", "lookup"} => w = NoWalk
      /\ pc[g] \in {"walk", "check"} => Walked(t, w)
      /\ pc[g] = "walk" => w.stack # <<>>
  BY <1>1 DEF TypeOK, WalkAt
<1>3. CASE NotStruct(g)
  BY <1>1, <1>2, <1>3 DEF NotStruct, Goto, WalkAt
<1>4. CASE Lock(g)
  BY <1>1, <1>2, <1>4 DEF Lock, Goto, WalkAt
<1>5. CASE Hit(g) \/ Store(g)
  BY <1>1, <1>2, <1>5 DEF Hit, Store, Goto, WalkAt
<1>6. CASE FailStep(g)
  BY <1>1, <1>2, <1>6 DEF FailStep, Fail, Goto, WalkAt
<1>7. CASE Unlock(g)
  <2>1. pc'[g] \in {"panicked", "returned"} /\ walk' = walk
    BY <1>2, <1>7 DEF Unlock, Goto
  <2> QED BY <1>1, <1>2, <2>1 DEF WalkAt
<1>8. CASE BeginWalk(g)
  <2> DEFINE first == <<[at |-> <<>>, next |-> 1, path |-> Nil]>>
             v == [w EXCEPT !.stack = first]
  <2>1. walk'[g] = v /\ pc'[g] = "walk" /\ w = NoWalk
    BY <1>2, <1>8 DEF BeginWalk, Goto
  <2>2. v.stack = first /\ v.tags = NoTags /\ v.heap = <<>> /\ Shaped(v)
    <3>1. w.tags = NoTags /\ w.heap = <<>>
      BY <2>1 DEF NoWalk
    <3> HIDE DEF first, w
    <3> QED BY <1>2, <3>1 DEF Shaped
  <2> HIDE DEF v
  <2>3. Walked(t, v) /\ v.stack # <<>>
    BY <1>1, <2>2, BeginKeeps
  <2> QED BY <1>1, <2>1, <2>2, <2>3 DEF WalkAt
<1>9. CASE SkipUnexported(g)
  <2> DEFINE v == [w EXCEPT !.stack = Advanced(g)]
  <2>1. walk'[g] = v /\ pc'[g] = "walk" /\ pc[g] = "walk"
    BY <1>2, <1>9 DEF SkipUnexported, AtField, Step
  <2>2. /\ v.stack = MovedOn(w.stack) /\ v.tags = w.tags /\ v.heap = w.heap /\ Shaped(v)
    BY <1>2, AtFieldIs DEF Shaped
  <2>3. AtPath(w.stack) \in DOMAIN t.fields /\ ~t.fields[AtPath(w.stack)].exported
    BY <1>9, AtFieldIs DEF SkipUnexported
  <2> HIDE DEF v
  <2>4. Walked(t, v) /\ v.stack # <<>>
    BY <1>1, <1>2, <2>1, <2>2, <2>3, SkipKeeps
  <2> QED BY <1>1, <2>1, <2>2, <2>4 DEF WalkAt
<1>10. CASE EnterEmbedded(g)
  <2> DEFINE e == Extend(w.heap, Top(w.stack).path, Top(w.stack).next)
             v == [w EXCEPT !.heap = e.heap, !.stack = Pushed(w.stack, e.slice)]
  <2>1. walk'[g] = v /\ pc'[g] = "walk" /\ pc[g] = "walk"
    <3>1. Step(g, v) /\ pc[g] = "walk"
      BY <1>10 DEF EnterEmbedded, AtField, Position, Frame, Depth, Advanced, Pushed,
                  AtPath, MovedOn, Top
    <3> HIDE DEF v
    <3> QED BY <1>1, <3>1, StepSets
  <2>2. /\ v.stack = Pushed(w.stack, e.slice) /\ v.tags = w.tags /\ v.heap = e.heap
        /\ Shaped(v)
    <3> DEFINE stack == Pushed(w.stack, e.slice)
               heap == e.heap
    <3>1. v = [w EXCEPT !.heap = heap, !.stack = stack]
      OBVIOUS
    <3> HIDE DEF stack, heap, v, w
    <3>2. v.stack = stack /\ v.tags = w.tags /\ v.heap = heap /\ Shaped(v)
      BY <1>2, <3>1 DEF Shaped
    <3> QED BY <3>2 DEF stack, heap
  <2>3. AtPath(w.stack) \in DOMAIN t.fields /\ Opens(t.fields[AtPath(w.stack)])
    BY <1>10, AtFieldIs DEF EnterEmbedded, Opens
  <2> HIDE DEF v, e
  <2>4. Walked(t, v) /\ v.stack # <<>>
    BY <1>1, <1>2, <2>1, <2>2, <2>3, EnterKeeps DEF e
  <2> QED BY <1>1, <2>1, <2>2, <2>4 DEF WalkAt
<1>11. CASE CompileField(g)
  <2> DEFINE c == AtPath(w.stack)
             named == DOMAIN t.fields[c].tags
             whole == {s \in named : IsWhole(s, t.fields[c])}
             copy == Copy(w.heap, Top(w.stack).path, Top(w.stack).next)
             tags == [flags   |-> w.tags.flags \cup named,
                      index   |-> WithPaths(w.tags.index, whole, copy.slice),
                      accepts |-> IF "body" \in named THEN t.fields[c].accepts
                                                      ELSE w.tags.accepts]
             v == [w EXCEPT !.heap = IF whole = {} THEN @ ELSE copy.heap,
                            !.stack = MovedOn(w.stack),
                            !.tags = tags]
  <2>1. walk'[g] = v /\ pc'[g] = "walk" /\ pc[g] = "walk"
    <3>1. Step(g, v) /\ pc[g] = "walk"
      BY <1>11 DEF CompileField, AtField, Field, Position, Frame, Depth, Advanced,
                  WithPaths, AtPath, MovedOn, Top
    <3> HIDE DEF v
    <3> QED BY <1>1, <3>1, StepSets
  <2>2. /\ v.stack = MovedOn(w.stack) /\ v.tags = tags
        /\ v.heap = IF whole = {} THEN w.heap ELSE copy.heap
        /\ Shaped(v)
    <3> DEFINE heap == IF whole = {} THEN w.heap ELSE copy.heap
    <3>1. tags = [flags |-> tags.flags, index |-> tags.index, accepts |-> tags.accepts]
      OBVIOUS
    <3> HIDE DEF tags, heap
    <3>2. v = [w EXCEPT !.heap = heap, !.stack = MovedOn(w.stack), !.tags = tags]
      BY DEF heap
    <3> HIDE DEF v
    <3> QED BY <1>2, <3>1, <3>2 DEF Shaped, heap
  <2>3. /\ c \in DOMAIN t.fields /\ t.fields[c].exported /\ ~t.fields[c].anonymous
        /\ \A s \in named : ~Rejects(w.tags, s, t.fields[c])
    BY <1>11, AtFieldIs DEF CompileField
  <2> HIDE DEF v
  <2>4. FieldCompiled(t, w, v)
    <3>1. /\ v.tags.flags = w.tags.flags \cup named
          /\ v.tags.index = WithPaths(w.tags.index, whole, copy.slice)
          /\ v.tags.accepts = IF "body" \in named THEN t.fields[c].accepts ELSE w.tags.accepts
      <4> HIDE DEF named, whole, copy
      <4> QED BY <2>2
    <3> QED BY <2>2, <2>3, <3>1 DEF FieldCompiled
  <2>5. Walked(t, v) /\ v.stack # <<>>
    BY <1>1, <1>2, <2>1, <2>2, <2>4, CompileKeeps
  <2> QED BY <1>1, <2>1, <2>2, <2>5 DEF WalkAt
<1>12. CASE LeaveStruct(g)
  <2> DEFINE v == [w EXCEPT !.stack = Popped(w.stack)]
  <2>1. /\ walk'[g] = v /\ pc[g] = "walk"
        /\ pc'[g] = IF Len(w.stack) = 1 THEN "check" ELSE "walk"
    BY <1>2, <1>12 DEF LeaveStruct, Goto, Depth, Popped
  <2>2. v.stack = Popped(w.stack) /\ v.tags = w.tags /\ v.heap = w.heap /\ Shaped(v)
    BY <1>2 DEF Shaped
  <2>3. AtPath(w.stack) \notin DOMAIN t.fields
    BY <1>12, AtFieldIs DEF LeaveStruct
  <2> HIDE DEF v
  <2>4. Walked(t, v) /\ (v.stack = <<>> <=> Len(w.stack) = 1)
    BY <1>1, <1>2, <2>1, <2>2, <2>3, LeaveKeeps
  <2> QED BY <1>1, <2>1, <2>2, <2>4 DEF WalkAt
<1>13. CASE BadDefaults(g) \/ RejectEmbedded(g) \/ RejectField(g) \/ Conflict(g)
  <2>1. FailStep(g)
    BY <1>13 DEF BadDefaults, RejectEmbedded, RejectField, Conflict, AtField, FailStep
  <2> QED BY <1>6, <2>1
<1> QED BY <1>3, <1>4, <1>5, <1>7, <1>8, <1>9, <1>10, <1>11, <1>12, <1>13 DEF CreateTags

LEMMA StepOwnVerdict ==
    ASSUME IInv, CompilerInv, NEW g \in Goroutines, CreateTags(g)
    PROVE  VerdictAt(pc'[g], arg'[g], g \in panicking')
<1> DEFINE t == arg[g]
           w == walk[g]
           fails == g \in panicking
<1>1. TypeOK /\ WalkAt(pc[g], t, w) /\ VerdictAt(pc[g], t, fails)
      /\ arg' = arg /\ t \in RequestTypes
  BY OthersKept DEF IInv, TypeOK, CompilerInv, WalkInv, TypesInv
<1>2. pc \in [Goroutines -> Labels]
  BY <1>1 DEF TypeOK
<1>3. ASSUME Fail(g), ~WellFormed(t)
      PROVE  VerdictAt(pc'[g], arg'[g], g \in panicking')
  BY <1>1, <1>2, <1>3 DEF Fail, Goto, VerdictAt
<1>4. CASE NotStruct(g)
  <2>1. ~WellFormed(t)
    BY <1>4 DEF NotStruct, WellFormed
  <2>2. pc'[g] = "panicked" /\ g \in panicking'
    BY <1>2, <1>4 DEF NotStruct, Goto
  <2> QED BY <1>1, <2>1, <2>2 DEF VerdictAt
<1>5. CASE Lock(g) \/ Hit(g) \/ BeginWalk(g) \/ Store(g)
  <2>1. panicking' = panicking
    BY <1>5 DEF Lock, Hit, BeginWalk, Store
  <2>2. \/ pc[g] = "start" /\ t.isStruct /\ pc'[g] = "lookup"
        \/ pc[g] = "lookup" /\ t.defaultsOK /\ pc'[g] = "walk"
        \/ pc[g] \in {"lookup", "check"} /\ pc'[g] = "unlock"
    BY <1>2, <1>5 DEF Lock, Hit, BeginWalk, Store, Goto
  <2> QED BY <1>1, <2>1, <2>2 DEF VerdictAt
<1>6. CASE BadDefaults(g)
  BY <1>3, <1>6 DEF BadDefaults, WellFormed
<1>7. CASE RejectEmbedded(g)
  <2>1. /\ pc[g] = "walk" /\ AtPath(w.stack) \in DOMAIN t.fields
        /\ t.fields[AtPath(w.stack)].exported /\ t.fields[AtPath(w.stack)].anonymous
        /\ t.fields[AtPath(w.stack)].type # "struct"
    BY <1>7, AtFieldIs DEF RejectEmbedded
  <2>2. ~WellFormed(t)
    BY <1>1, <2>1, EmbeddedRefused DEF WalkAt
  <2> QED BY <1>3, <1>7, <2>2 DEF RejectEmbedded
<1>8. CASE RejectField(g)
  <2>1. /\ pc[g] = "walk" /\ AtPath(w.stack) \in DOMAIN t.fields
        /\ t.fields[AtPath(w.stack)].exported /\ ~t.fields[AtPath(w.stack)].anonymous
        /\ \E s \in DOMAIN t.fields[AtPath(w.stack)].tags :
             Rejects(w.tags, s, t.fields[AtPath(w.stack)])
    BY <1>8, AtFieldIs DEF RejectField
  <2>2. ~WellFormed(t)
    BY <1>1, <2>1, FieldRefused DEF WalkAt
  <2> QED BY <1>3, <1>8, <2>2 DEF RejectField
<1>9. CASE Conflict(g)
  <2>1. pc[g] = "check" /\ w.tags.accepts \cap w.tags.flags # {}
    BY <1>9 DEF Conflict
  <2>2. w.tags.flags = Sources(t, Visible(t)) /\ w.tags.accepts = BodyTypes(t, Visible(t))
    BY <1>1, <2>1, AllCompiled DEF WalkAt
  <2>3. ~WellFormed(t)
    BY <2>1, <2>2 DEF WellFormed
  <2> QED BY <1>3, <1>9, <2>3 DEF Conflict
<1>10. CASE WalkStep(g)
  <2>1. pc[g] = "walk" /\ pc'[g] \in {"walk", "check"} /\ panicking' = panicking
    BY <1>2, <1>10 DEF WalkStep
  <2> QED BY <1>1, <2>1 DEF VerdictAt
<1>11. CASE Unlock(g)
  <2>1. pc'[g] = (IF fails THEN "panicked" ELSE "returned") /\ panicking' = panicking
    BY <1>2, <1>11 DEF Unlock, Goto
  <2> QED BY <1>1, <2>1 DEF VerdictAt
<1>12. CASE SkipUnexported(g) \/ EnterEmbedded(g) \/ CompileField(g)
  <2>1. WalkStep(g)
    BY <1>12 DEF SkipUnexported, EnterEmbedded, CompileField, AtField, Step, WalkStep
  <2> QED BY <1>10, <2>1
<1>13. CASE LeaveStruct(g)
  <2>1. /\ pc[g] = "walk" /\ pc'[g] \in {"walk", "check"} /\ panicking' = panicking
    BY <1>2, <1>13 DEF LeaveStruct, Goto
  <2> QED BY <1>1, <2>1 DEF VerdictAt
<1> QED
  BY <1>4, <1>5, <1>6, <1>7, <1>8, <1>9, <1>11, <1>12, <1>13 DEF CreateTags

\* What the walk leaves behind is what the type declares.
LEMMA StoredIs ==
    ASSUME IInv, CompilerInv, NEW g \in Goroutines, Store(g)
    PROVE  WellFormed(arg[g]) /\ Compiled(walk[g]) = Declared(arg[g], Visible(arg[g]))
<1> DEFINE t == arg[g]
           w == walk[g]
<1>1. pc[g] = "check" /\ w.tags.accepts \cap w.tags.flags = {}
  BY DEF Store
<1>2. t \in RequestTypes /\ WalkAt(pc[g], t, w) /\ t.isStruct /\ t.defaultsOK
  BY <1>1 DEF IInv, TypeOK, CompilerInv, WalkInv, TypesInv, VerdictAt
<1>3. /\ KeepsRules(t, Visible(t)) /\ Compiled(w) = Declared(t, Visible(t))
      /\ w.tags.flags = Sources(t, Visible(t))
      /\ w.tags.accepts = BodyTypes(t, Visible(t))
  BY <1>1, <1>2, AllCompiled DEF WalkAt
<1>4. WellFormed(t)
  BY <1>1, <1>2, <1>3 DEF WellFormed
<1> QED BY <1>3, <1>4

LEMMA StepCache ==
    ASSUME IInv, CompilerInv, NEW g \in Goroutines, CreateTags(g)
    PROVE  CacheInv'
<1>1. CacheInv
  BY DEF CompilerInv
<1>2. CASE Store(g)
  <2> DEFINE t == arg[g]
             w == walk[g]
  <2>1. /\ DOMAIN cache' = DOMAIN cache \cup {t}
        /\ \A u \in DOMAIN cache' : cache'[u] = IF u = t THEN Compiled(w) ELSE cache[u]
    BY <1>2 DEF Store
  <2>2. WellFormed(t) /\ Compiled(w) = Declared(t, Visible(t))
    BY <1>2, StoredIs
  <2> QED BY <1>1, <2>1, <2>2 DEF CacheInv
<1>3. CASE ~Store(g)
  <2>1. cache' = cache
    BY <1>3, StepKinds
       DEF IInv, NotStruct, Lock, Hit, BeginWalk, WalkStep, FailStep, Fail, Unlock
  <2> QED BY <1>1, <2>1 DEF CacheInv
<1> QED BY <1>2, <1>3

LEMMA StepCompiler == IInv /\ CompilerInv /\ [Next]_vars => CompilerInv'
<1> SUFFICES ASSUME IInv, CompilerInv, [Next]_vars
             PROVE  CompilerInv'
  OBVIOUS
<1>1. CASE \E g \in Goroutines : CreateTags(g)
  <2>1. PICK g \in Goroutines : CreateTags(g)
    BY <1>1
  <2>2. TypeOK
    BY DEF IInv
  <2>3. ASSUME NEW h \in Goroutines
        PROVE  /\ WalkAt(pc'[h], arg'[h], walk'[h])
               /\ VerdictAt(pc'[h], arg'[h], h \in panicking')
    <3>1. CASE h = g
      BY <2>1, <3>1, StepOwnWalk, StepOwnVerdict
    <3>2. CASE h # g
      <4>1. /\ pc'[h] = pc[h] /\ arg' = arg /\ walk'[h] = walk[h]
            /\ h \in panicking' <=> h \in panicking
        BY <2>1, <2>2, <3>2, OthersKept, WalksKept
      <4>2. WalkAt(pc[h], arg[h], walk[h]) /\ VerdictAt(pc[h], arg[h], h \in panicking)
        BY DEF CompilerInv, WalkInv, TypesInv
      <4> QED BY <4>1, <4>2 DEF VerdictAt
    <3> QED BY <3>1, <3>2
  <2>4. CacheInv'
    BY <2>1, StepCache
  <2> QED BY <2>3, <2>4 DEF CompilerInv, WalkInv, TypesInv
<1>2. CASE UNCHANGED vars
  BY <1>2 DEF vars, CompilerInv, WalkInv, TypesInv, CacheInv
<1> QED BY <1>1, <1>2 DEF Next, Finished

-----------------------------------------------------------------------------
(* The refinement of the abstract cache.                                   *)

Good == {t \in RequestTypes : WellFormed(t)}

DeclaredTags == [t \in Good |-> Declared(t, Visible(t))]

Returned == {g \in Goroutines : pc[g] = "returned"}

Answers == [g \in Returned |-> result[g]]

Refused == {g \in Goroutines : pc[g] = "panicked"}

LEMMA PromiseInit == Init => Promise!Init
<1> SUFFICES ASSUME Init
             PROVE  Promise!Init
  OBVIOUS
<1>1. arg \in [Goroutines -> RequestTypes] /\ cache = <<>>
  BY DEF Init
<1>2. Returned = {} /\ Refused = {}
  BY DEF Init, Returned, Refused
<1>3. Answers = <<>>
  BY <1>2 DEF Answers
<1> QED BY <1>1, <1>2, <1>3 DEF Promise!Init, Answers, Returned, Refused

\* What the abstract state is after a step of one call: it may end this call, and
\* keeps what the others have been told.
LEMMA PromiseOthers ==
    ASSUME TypeOK, NEW g \in Goroutines, CreateTags(g)
    PROVE  /\ Returned' \ {g} = Returned \ {g} /\ Refused' \ {g} = Refused \ {g}
           /\ \A h \in Returned' \ {g} : result'[h] = result[h]
           /\ Returned' = {h \in Goroutines : pc'[h] = "returned"}
           /\ Refused' = {h \in Goroutines : pc'[h] = "panicked"}
           /\ Answers' = [h \in Returned' |-> result'[h]]
<1>1. \A h \in Goroutines : h # g => pc'[h] = pc[h] /\ result'[h] = result[h]
  BY OthersKept
<1>2. /\ Returned' = {h \in Goroutines : pc'[h] = "returned"}
      /\ Refused' = {h \in Goroutines : pc'[h] = "panicked"}
      /\ Answers' = [h \in Returned' |-> result'[h]]
  BY DEF Returned, Refused, Answers
<1>3. Returned' \ {g} = Returned \ {g} /\ Refused' \ {g} = Refused \ {g}
  BY <1>1, <1>2 DEF Returned, Refused
<1>4. \A h \in Returned' \ {g} : result'[h] = result[h]
  BY <1>1, <1>2
<1> QED BY <1>2, <1>3, <1>4

\* A step that does not end its call shows in the cache only.
LEMMA PromiseWaits ==
    ASSUME TypeOK, NEW g \in Goroutines, CreateTags(g),
           pc[g] \notin {"returned", "panicked"}, pc'[g] \notin {"returned", "panicked"}
    PROVE  Refused' = Refused /\ Answers' = Answers
<1>1. g \notin Returned \cup Refused /\ g \notin Returned' \cup Refused'
  BY PromiseOthers DEF Returned, Refused
<1>2. Returned' = Returned /\ Refused' = Refused
  BY <1>1, PromiseOthers
<1>3. Answers' = [h \in Returned |-> result[h]]
  BY <1>1, <1>2, PromiseOthers
<1> QED BY <1>2, <1>3 DEF Answers

\* A call that panics is refused.
LEMMA PromiseRefuse ==
    ASSUME TypeOK, NEW g \in Goroutines, CreateTags(g), cache' = cache,
           pc[g] \notin {"returned", "panicked"}, pc'[g] = "panicked", ~WellFormed(arg[g])
    PROVE  Promise!Refuse(g)
<1>1. g \notin Returned \cup Refused /\ g \notin Returned' /\ g \in Refused'
  BY PromiseOthers DEF Returned, Refused
<1>2. Returned' = Returned /\ Refused' = Refused \cup {g}
  BY <1>1, PromiseOthers
<1>3. Answers' = [h \in Returned |-> result[h]]
  BY <1>1, <1>2, PromiseOthers
<1>4. Answers' = Answers
  BY <1>3 DEF Answers
<1>5. DOMAIN Answers = Returned /\ DOMAIN DeclaredTags = Good /\ arg[g] \notin Good
  BY DEF Answers, DeclaredTags, Good
<1>6. arg' = arg
  BY OthersKept
<1>7. g \notin DOMAIN Answers \cup Refused /\ arg[g] \notin DOMAIN DeclaredTags
  BY <1>1, <1>5
<1> QED BY <1>2, <1>4, <1>6, <1>7
       DEF Promise!Refuse, Promise!Waiting, Answers, Returned, Refused, DeclaredTags, Good

\* A call that returns has been answered from the cache.
LEMMA PromiseAnswer ==
    ASSUME TypeOK, NEW g \in Goroutines, CreateTags(g), cache' = cache, result' = result,
           pc[g] \notin {"returned", "panicked"}, pc'[g] = "returned",
           arg[g] \in DOMAIN cache, result[g] = cache[arg[g]]
    PROVE  Promise!Answer(g)
<1>1. g \notin Returned \cup Refused /\ g \in Returned' /\ g \notin Refused'
  BY PromiseOthers DEF Returned, Refused
<1>2. Returned' = Returned \cup {g} /\ Refused' = Refused
  BY <1>1, PromiseOthers
<1>3. DOMAIN Answers = Returned /\ \A h \in Returned : Answers[h] = result[h]
  BY DEF Answers
<1>4. Answers' = [h \in Returned \cup {g} |-> result[h]]
  BY <1>2, PromiseOthers
<1>5. Answers' = [h \in DOMAIN Answers \cup {g} |->
                    IF h = g THEN cache[arg[g]] ELSE Answers[h]]
  BY <1>3, <1>4
<1>6. arg' = arg
  BY OthersKept
<1>7. g \notin DOMAIN Answers \cup Refused
  BY <1>1, <1>3
<1> QED BY <1>2, <1>5, <1>6, <1>7
       DEF Promise!Answer, Promise!Waiting, Answers, Returned, Refused

\* The end of a walk fills the cache.
LEMMA PromiseCompile ==
    ASSUME IInv, CompilerInv, NEW g \in Goroutines, CreateTags(g), Store(g)
    PROVE  Promise!Compile(g)
<1>1. TypeOK /\ arg' = arg /\ arg[g] \in RequestTypes
  BY OthersKept DEF IInv, TypeOK
<1>2. pc[g] = "check" /\ pc'[g] = "unlock"
  BY <1>1 DEF Store, Goto, TypeOK
<1>3. Refused' = Refused /\ Answers' = Answers
  BY <1>1, <1>2, PromiseWaits
<1>4. g \notin DOMAIN Answers \cup Refused
  BY <1>2 DEF Answers, Returned, Refused
<1>5. WellFormed(arg[g]) /\ Compiled(walk[g]) = Declared(arg[g], Visible(arg[g]))
  BY StoredIs
<1>6. arg[g] \in DOMAIN DeclaredTags /\ DeclaredTags[arg[g]] = Compiled(walk[g])
  BY <1>1, <1>5 DEF DeclaredTags, Good
<1>7. arg[g] \notin DOMAIN cache
  BY <1>2 DEF IInv, CompilesOnce
<1>8. cache' = [t \in DOMAIN cache \cup {arg[g]} |->
                  IF t = arg[g] THEN DeclaredTags[t] ELSE cache[t]]
  <2>1. cache' = [t \in DOMAIN cache \cup {arg[g]} |->
                    IF t = arg[g] THEN Compiled(walk[g]) ELSE cache[t]]
    BY DEF Store
  <2> QED BY <1>6, <2>1
<1> QED BY <1>1, <1>3, <1>4, <1>6, <1>7, <1>8
       DEF Promise!Compile, Promise!Waiting, Answers, Returned, Refused, DeclaredTags, Good

LEMMA PromiseStep == IInv /\ CompilerInv /\ [Next]_vars => [Promise!Next]_Promise!tvars
<1> SUFFICES ASSUME IInv, CompilerInv, [Next]_vars
             PROVE  Promise!Next \/ UNCHANGED <<arg, cache, Answers, Refused>>
  BY DEF Promise!tvars, Answers, Returned, Refused
<1>1. CASE UNCHANGED vars
  <2>1. UNCHANGED <<pc, arg, result, cache>>
    BY <1>1 DEF vars
  <2> QED BY <2>1 DEF Answers, Returned, Refused
<1>2. CASE \E g \in Goroutines : CreateTags(g)
  <2>1. PICK g \in Goroutines : CreateTags(g)
    BY <1>2
  <2>2. TypeOK /\ pc \in [Goroutines -> Labels] /\ arg' = arg
    BY <2>1, OthersKept DEF IInv, TypeOK
  <2>3. CASE NotStruct(g)
    <3>1. pc[g] = "start" /\ pc'[g] = "panicked" /\ cache' = cache /\ ~WellFormed(arg[g])
      BY <2>2, <2>3 DEF NotStruct, Goto, WellFormed
    <3>2. Promise!Refuse(g)
      BY <2>1, <2>2, <3>1, PromiseRefuse
    <3> QED BY <3>2 DEF Promise!Next
  <2>4. CASE Lock(g) \/ Hit(g) \/ BeginWalk(g) \/ WalkStep(g) \/ FailStep(g)
    <3>1. /\ pc[g] \notin {"returned", "panicked"} /\ pc'[g] \notin {"returned", "panicked"}
          /\ cache' = cache
      BY <2>2, <2>4 DEF Lock, Hit, BeginWalk, WalkStep, FailStep, Fail, Goto
    <3> QED BY <2>1, <2>2, <3>1, PromiseWaits
  <2>5. CASE Store(g)
    BY <2>1, <2>5, PromiseCompile DEF Promise!Next
  <2>6. CASE Unlock(g)
    <3>1. /\ pc[g] = "unlock" /\ cache' = cache /\ result' = result
          /\ pc'[g] = IF g \in panicking THEN "panicked" ELSE "returned"
      BY <2>2, <2>6 DEF Unlock, Goto
    <3>2. CASE g \in panicking
      <4>1. ~WellFormed(arg[g])
        BY <3>2 DEF CompilerInv, TypesInv, VerdictAt
      <4>2. Promise!Refuse(g)
        BY <2>1, <2>2, <3>1, <3>2, <4>1, PromiseRefuse
      <4> QED BY <4>2 DEF Promise!Next
    <3>3. CASE g \notin panicking
      <4>1. arg[g] \in DOMAIN cache /\ result[g] = cache[arg[g]]
        BY <3>1, <3>3 DEF IInv, ResultInv
      <4>2. Promise!Answer(g)
        BY <2>1, <2>2, <3>1, <3>3, <4>1, PromiseAnswer
      <4> QED BY <4>2 DEF Promise!Next
    <3> QED BY <3>2, <3>3
  <2> QED BY <2>1, <2>2, <2>3, <2>4, <2>5, <2>6, StepKinds
<1> QED BY <1>1, <1>2 DEF Next, Finished

-----------------------------------------------------------------------------
(* The mutex is never left behind.                                         *)

Held == \A g \in holders : Inside(g)

LEMMA StepHeld ==
    ASSUME TypeOK, Held, NEW g \in Goroutines, CreateTags(g)
    PROVE  Held'
<1> SUFFICES ASSUME NEW h \in holders'
             PROVE  Inside(h)'
  BY DEF Held
<1>1. holders \subseteq Goroutines /\ \A k \in Goroutines : k # g => pc'[k] = pc[k]
  BY OthersKept DEF TypeOK
<1>2. CASE h # g
  <2>1. holders' \in {holders, {g}, holders \ {g}}
    BY StepKinds DEF NotStruct, Lock, Hit, BeginWalk, WalkStep, FailStep, Fail, Store, Unlock
  <2>2. h \in holders /\ pc'[h] = pc[h]
    BY <1>1, <1>2, <2>1
  <2> QED BY <2>2 DEF Held, Inside
<1>3. CASE h = g
  <2> USE DEF TypeOK, Goto, Inside
  <2>1. CASE NotStruct(g)
    BY <1>3, <2>1 DEF NotStruct, Held
  <2>2. CASE Lock(g)
    BY <1>3, <2>2 DEF Lock
  <2>3. CASE Hit(g) \/ Store(g)
    BY <1>3, <2>3 DEF Hit, Store
  <2>4. CASE BeginWalk(g)
    BY <1>3, <2>4 DEF BeginWalk
  <2>5. CASE WalkStep(g)
    BY <1>3, <2>5 DEF WalkStep
  <2>6. CASE FailStep(g)
    BY <1>3, <2>6 DEF FailStep, Fail
  <2>7. CASE Unlock(g)
    BY <1>3, <2>7 DEF Unlock
  <2> QED BY <2>1, <2>2, <2>3, <2>4, <2>5, <2>6, <2>7, StepKinds
<1> QED BY <1>2, <1>3

-----------------------------------------------------------------------------
(* The walk ends.                                                          *)

\* What a step of a walk leaves is less than what it found.
LEMMA StepLess ==
    ASSUME IInv, CompilerInv, NEW g \in Goroutines, CreateTags(g), pc[g] = "walk", ~Fail(g)
    PROVE  Less(arg[g], walk'[g].stack, walk[g].stack)
<1> DEFINE t == arg[g]
           w == walk[g]
<1>1. /\ TypeOK /\ t \in RequestTypes /\ DOMAIN walk = Goroutines
      /\ StackInv(t, w.stack) /\ w.stack # <<>>
  BY DEF IInv, TypeOK, CompilerInv, WalkInv, WalkAt, Walked
<1>2. CASE SkipUnexported(g) \/ CompileField(g)
  <2>1. AtPath(w.stack) \in DOMAIN t.fields
    BY <1>2, AtFieldIs DEF SkipUnexported, CompileField
  <2>2. walk'[g].stack = MovedOn(w.stack)
    <3>1. Shaped(w)
      BY DEF CompilerInv, WalkInv, WalkAt
    <3>2. walk'[g].stack = Advanced(g)
      <4>1. CASE SkipUnexported(g)
        BY <1>1, <3>1, <4>1 DEF SkipUnexported, Step, Shaped
      <4>2. CASE CompileField(g)
        BY <1>1, <3>1, <4>2 DEF CompileField, Step, Shaped
      <4> QED BY <1>2, <4>1, <4>2
    <3> QED BY <3>2, AtFieldIs
  <2> QED BY <1>1, <2>1, <2>2, LeavesLess
<1>3. CASE EnterEmbedded(g)
  <2>1. AtPath(w.stack) \in DOMAIN t.fields
    BY <1>3, AtFieldIs DEF EnterEmbedded
  <2> DEFINE e == Extend(w.heap, Frame(g).path, Frame(g).next)
             pushed == Append(Advanced(g), [at |-> Position(g), next |-> 1, path |-> e.slice])
             v == [w EXCEPT !.heap = e.heap, !.stack = pushed]
  <2>2. pushed = Pushed(w.stack, e.slice)
    BY AtFieldIs DEF Pushed
  <2>3. Step(g, v)
    BY <1>3 DEF EnterEmbedded
  <2>4. v.stack = pushed
    <3>1. Shaped(w)
      BY DEF CompilerInv, WalkInv, WalkAt
    <3> HIDE DEF pushed, e, w
    <3> QED BY <3>1 DEF Shaped
  <2> HIDE DEF v, pushed
  <2>5. walk'[g].stack = Pushed(w.stack, e.slice)
    BY <1>1, <2>2, <2>3, <2>4, StepSets
  <2> QED BY <1>1, <2>1, <2>5, LeavesLess
<1>4. CASE LeaveStruct(g)
  <2>1. AtPath(w.stack) \notin DOMAIN t.fields
    BY <1>4, AtFieldIs DEF LeaveStruct
  <2>2. walk'[g].stack = Popped(w.stack)
    <3>1. walk' = [walk EXCEPT ![g].stack = SubSeq(@, 1, Len(w.stack) - 1)]
      BY <1>4 DEF LeaveStruct, Depth
    <3>2. Shaped(w)
      BY DEF CompilerInv, WalkInv, WalkAt
    <3> QED BY <1>1, <3>1, <3>2 DEF Popped, Shaped
  <2> QED BY <1>1, <2>1, <2>2, LeavesLess
<1>5. ~(NotStruct(g) \/ Lock(g) \/ Hit(g) \/ BadDefaults(g) \/ BeginWalk(g) \/ Conflict(g)
          \/ Store(g) \/ Unlock(g))
  BY DEF NotStruct, Lock, Hit, BadDefaults, BeginWalk, Conflict, Store, Unlock
<1>6. ~(RejectEmbedded(g) \/ RejectField(g))
  BY DEF RejectEmbedded, RejectField
<1> QED BY <1>2, <1>3, <1>4, <1>5, <1>6 DEF CreateTags

WalkStepsLess ==
    \A g \in Goroutines : CreateTags(g) /\ pc[g] = "walk" /\ ~Fail(g) =>
        Less(arg[g], walk'[g].stack, walk[g].stack)

\* A walk comes to an end: its steps panic or have less left (checkRecursively).
WalkEnds == [][WalkStepsLess]_vars

-----------------------------------------------------------------------------
(* The theorems.                                                           *)

\* The mutex, the cache, and what a goroutine with its tags knows of them.
THEOREM InvariantCorrect == Spec => []IInv
BY InitInvariant, StepInvariant, PTL DEF Spec

\* Every variable keeps to the values its Go counterpart can have.
THEOREM TypeCorrect == Spec => []TypeOK
<1>1. IInv => TypeOK
  BY DEF IInv
<1>2. QED
  BY <1>1, InvariantCorrect, PTL

\* A type is compiled by one goroutine at a time, and once.
THEOREM CompilesOnceCorrect == Spec => []CompilesOnce
<1>1. IInv => CompilesOnce
  BY DEF IInv
<1>2. QED
  BY <1>1, InvariantCorrect, PTL

\* Parsers of one type work with the same tags.
THEOREM AgreementCorrect == Spec => []ParsersAgree
<1>1. IInv => ParsersAgree
  BY DEF IInv, ResultInv, ParsersAgree
<1>2. QED
  BY <1>1, InvariantCorrect, PTL

\* What a goroutine inside the mutex has compiled is what the fields it has
\* passed declare, each index path in an array of its own; those that have
\* panicked had a reason, and what is cached is what its type declares.
THEOREM CompilerCorrect == Spec => [](IInv /\ CompilerInv)
<1>1. Init => IInv /\ CompilerInv
  BY InitInvariant, InitCompiler
<1>2. (IInv /\ CompilerInv) /\ [Next]_vars => (IInv /\ CompilerInv)'
  BY StepInvariant, StepCompiler
<1> QED BY <1>1, <1>2, PTL DEF Spec

\* Parsers work with the tags their type declares, whatever order and depth its
\* fields have, and exactly the types that break a rule panic.
THEOREM DeclarationCorrect == Spec => []TagsMatchDeclaration
<1>1. IInv /\ CompilerInv => TagsMatchDeclaration
  <2> SUFFICES ASSUME IInv, CompilerInv, NEW g \in Goroutines
               PROVE  /\ pc[g] = "returned" =>
                           WellFormed(arg[g]) /\ result[g] = Declared(arg[g], Visible(arg[g]))
                      /\ pc[g] = "panicked" => ~WellFormed(arg[g])
    BY DEF TagsMatchDeclaration
  <2>1. pc[g] = "returned" => arg[g] \in DOMAIN cache /\ result[g] = cache[arg[g]]
    BY DEF IInv, ResultInv
  <2>2. \A t \in DOMAIN cache : WellFormed(t) /\ cache[t] = Declared(t, Visible(t))
    BY DEF CompilerInv, CacheInv
  <2>3. pc[g] = "panicked" => ~WellFormed(arg[g])
    BY DEF CompilerInv, TypesInv, VerdictAt
  <2> QED BY <2>1, <2>2, <2>3
<1> QED BY <1>1, CompilerCorrect, PTL

\* The mutex and the walks implement a cache that is filled once for each type.
THEOREM TagCacheCorrect == Spec => ImplementsTagCache
<1>1. Init => Promise!Init
  BY PromiseInit
<1>2. IInv /\ CompilerInv /\ [Next]_vars => [Promise!Next]_Promise!tvars
  BY PromiseStep
<1> QED
  BY <1>1, <1>2, CompilerCorrect, PTL DEF Spec, ImplementsTagCache, Promise!Spec

\* No call waits for a mutex that was left behind, also not by one that panics:
\* what CallsEnd needs besides the scheduler.
THEOREM MutexCorrect == Spec => []MutexHolderRuns
<1>1. Init => Held
  BY DEF Init, Held
<1>2. IInv /\ Held /\ [Next]_vars => Held'
  <2> SUFFICES ASSUME IInv, Held, [Next]_vars
               PROVE  Held'
    OBVIOUS
  <2>1. CASE \E g \in Goroutines : CreateTags(g)
    BY <2>1, StepHeld DEF IInv
  <2>2. CASE UNCHANGED vars
    BY <2>2 DEF vars, Held, Inside
  <2> QED BY <2>1, <2>2 DEF Next, Finished
<1>3. IInv /\ Held => MutexHolderRuns
  <2> SUFFICES ASSUME IInv, Held, NEW g \in Goroutines, ~Ended(g)
               PROVE  \E h \in Goroutines :
                        Inside(h) \/ (pc[h] = "start" /\ (arg[h].isStruct => holders = {}))
    BY DEF Held, MutexHolderRuns
  <2>1. holders \subseteq Goroutines
    BY DEF IInv, TypeOK
  <2>2. CASE holders # {}
    BY <2>1, <2>2 DEF Held
  <2>3. CASE holders = {}
    <3>1. pc[g] = "start" \/ Inside(g)
      BY DEF IInv, TypeOK, Labels, Ended, Inside
    <3> QED BY <2>3, <3>1
  <2> QED BY <2>2, <2>3
<1> QED BY <1>1, <1>2, <1>3, InvariantCorrect, PTL DEF Spec

\* Each step of a walk panics or has less left: fewer fields, or as many fields and
\* fewer structs.  A type has finitely many fields, so that every walk ends, which
\* is what CallsEnd needs of the compiler.
THEOREM WalkEndsCorrect == Spec => WalkEnds
<1>1. IInv /\ CompilerInv => WalkStepsLess
  BY StepLess DEF WalkStepsLess
<1> QED BY <1>1, CompilerCorrect, PTL DEF WalkEnds

=============================================================================
