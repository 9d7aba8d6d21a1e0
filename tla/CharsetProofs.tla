----------------------------- MODULE CharsetProofs -----------------------------
(***************************************************************************)
(* Proofs about Charset, for bodies of any length and any bytes, cut into  *)
(* any pieces: the byte-order mark is found and skipped, and an incomplete *)
(* body is never passed off as a complete one.                             *)
(***************************************************************************)
EXTENDS Charset, TLAPS

LEMMA InitInvariant == Init => IInv
<1> SUFFICES ASSUME Init
             PROVE  IInv
  OBVIOUS
<1>1. PICK n \in 0 .. MaxLength : body \in [1 .. n -> Octets]
  BY DEF Init
<1>2. body \in Seq(Octets)
  BY <1>1, MaxLengthAssumption
<1>3. TypeOK
  BY <1>2 DEF Init, TypeOK, Encodings
<1>4. QED
  BY <1>3 DEF Init, IInv, ReaderInv

\* Seen from the buffer or from the whole body, a mark is the same one, once
\* the buffer holds three bytes or all there are.
LEMMA StartsBegins ==
    ASSUME IInv, at = "peek", Buffered >= 3 \/ err # "none",
           NEW mark, Len(mark) \in {2, 3}
    PROVE  Starts(mark) <=> Begins(mark)
<1>1. /\ consumed = 0 /\ fetched \in Nat /\ Len(body) \in Nat /\ fetched <= Len(body)
      /\ fetched >= 3 \/ fetched = Len(body)
  BY DEF IInv, TypeOK, ReaderInv, Buffered
<1>2. Buffered = fetched /\ \A i \in 1 .. Len(mark) : consumed + i = i
  BY <1>1 DEF Buffered
<1>3. Len(mark) <= fetched <=> Len(mark) <= Len(body)
  <2>1. CASE Len(mark) = 2
    BY <1>1, <2>1
  <2>2. CASE Len(mark) = 3
    BY <1>1, <2>2
  <2>3. QED
    BY <2>1, <2>2
<1>4. QED
  BY <1>2, <1>3 DEF Starts, Begins

\* The switch takes the mark of the whole body, and discards its length.
LEMMA SwitchTakesMark ==
    ASSUME IInv, at = "peek", Buffered >= 3 \/ err # "none", Switch
    PROVE  /\ encoding' = Mark.encoding
           /\ consumed' = Mark.length
           /\ consumed' \in 0 .. fetched
<1> DEFINE utf8 == <<"EF", "BB", "BF">>  le == <<"FF", "FE">>  be == <<"FE", "FF">>
<1>1. Len(utf8) = 3 /\ Len(le) = 2 /\ Len(be) = 2
  OBVIOUS
<1>2. /\ Starts(utf8) <=> Begins(utf8)
      /\ Starts(le) <=> Begins(le)
      /\ Starts(be) <=> Begins(be)
  BY <1>1, StartsBegins
<1>3. consumed = 0 /\ fetched \in Nat /\ Buffered = fetched
  BY DEF IInv, TypeOK, ReaderInv, Buffered
<1>4. /\ Starts(utf8) => fetched >= 3
      /\ Starts(le) => fetched >= 2
      /\ Starts(be) => fetched >= 2
  BY <1>3 DEF Starts
<1>5. ~(Begins(utf8) /\ Begins(le)) /\ ~(Begins(utf8) /\ Begins(be)) /\ ~(Begins(le) /\ Begins(be))
  <2>1. Begins(utf8) => body[1] = "EF"
    BY <1>1 DEF Begins
  <2>2. Begins(le) => body[1] = "FF"
    BY <1>1 DEF Begins
  <2>3. Begins(be) => body[1] = "FE"
    BY <1>1 DEF Begins
  <2>4. QED
    BY <2>1, <2>2, <2>3
<1> HIDE DEF utf8, le, be
<1>6. \/ Begins(utf8) /\ consumed' = 3 /\ encoding' = "utf-8"
      \/ Begins(le) /\ consumed' = 2 /\ encoding' = "utf-16le"
      \/ Begins(be) /\ consumed' = 2 /\ encoding' = "utf-16be"
      \/ /\ ~Begins(utf8) /\ ~Begins(le) /\ ~Begins(be)
         /\ consumed' = 0 /\ encoding' = "unchanged"
  BY <1>2, <1>3 DEF Switch, utf8, le, be
<1>7. Mark = IF Begins(utf8) THEN [encoding |-> "utf-8", length |-> 3]
             ELSE IF Begins(le) THEN [encoding |-> "utf-16le", length |-> 2]
             ELSE IF Begins(be) THEN [encoding |-> "utf-16be", length |-> 2]
             ELSE [encoding |-> "unchanged", length |-> 0]
  BY DEF Mark, utf8, le, be
<1>8. QED
  BY <1>2, <1>3, <1>4, <1>5, <1>6, <1>7

LEMMA StepInvariant == IInv /\ [Next]_vars => IInv'
<1> SUFFICES ASSUME IInv, [Next]_vars
             PROVE  IInv'
  OBVIOUS
<1>2. /\ Len(body) \in Nat /\ fetched \in Nat /\ consumed \in Nat
      /\ fetched <= Len(body) /\ consumed <= fetched
  BY DEF IInv, TypeOK
<1>3. CASE LookUp
  BY <1>3 DEF LookUp, inputs, IInv, TypeOK, Encodings, ReaderInv, Buffered
<1>4. CASE Peek \/ ReadMore
  <2>1. PICK n \in 0 .. Len(body) - fetched :
          /\ fetched' = fetched + n
          /\ \/ n > 0 /\ err' = "none"
             \/ fetched + n = Len(body) /\ err' = (IF broken THEN "failure" ELSE "end")
    BY <1>4 DEF Peek, ReadMore, Fill
  <2>2. UNCHANGED <<inputs, at, encoding, consumed>> /\ at \in {"peek", "read"}
    BY <1>4 DEF Peek, ReadMore
  <2>3. fetched' \in 0 .. Len(body) /\ consumed \in 0 .. fetched'
    BY <1>2, <2>1
  <2>4. err' \in {"none", "end", "failure"}
        /\ (err' = "end" => fetched' = Len(body) /\ ~broken)
        /\ (err' = "failure" => fetched' = Len(body) /\ broken)
    BY <1>2, <2>1
  <2>5. TypeOK'
    BY <2>2, <2>3, <2>4 DEF IInv, TypeOK, inputs
  <2>6. ReaderInv'
    BY <2>2, <2>4 DEF IInv, ReaderInv, inputs
  <2>7. QED
    BY <2>5, <2>6 DEF IInv
<1>5. CASE Detect
  <2>1. /\ at = "peek" /\ at' = "read" /\ UNCHANGED <<inputs, fetched>>
        /\ err' \in {"none", err} /\ charset = "absent"
    BY <1>5 DEF Detect, IInv, ReaderInv
  <2>2. /\ encoding' = Mark.encoding /\ consumed' \in 0 .. fetched
        /\ Mark.encoding \in Encodings
    BY <1>5, SwitchTakesMark DEF Detect, Mark, Encodings
  <2>3. TypeOK'
    BY <2>1, <2>2 DEF IInv, TypeOK, inputs
  <2>4. ReaderInv'
    BY <2>1 DEF IInv, ReaderInv, inputs
  <2>5. QED
    BY <2>3, <2>4 DEF IInv
<1>6. CASE Read
  <2>1. PICK n \in 1 .. Buffered : consumed' = consumed + n
    BY <1>6 DEF Read
  <2>2. consumed' \in 0 .. fetched
    BY <1>2, <2>1 DEF Buffered
  <2>3. at = "read" /\ UNCHANGED <<inputs, at, encoding, fetched, err>>
    BY <1>6 DEF Read
  <2>4. QED
    BY <2>2, <2>3 DEF inputs, IInv, TypeOK, ReaderInv
<1>7. CASE ReadEnd
  BY <1>7 DEF ReadEnd, inputs, IInv, TypeOK, ReaderInv, Buffered
<1>8. CASE UNCHANGED vars
  BY <1>8 DEF vars, inputs, IInv, TypeOK, ReaderInv, Buffered
<1>9. QED
  BY <1>3, <1>4, <1>5, <1>6, <1>7, <1>8 DEF Next, Finished

-----------------------------------------------------------------------------
(* The theorems.                                                           *)

\* The types, and where the body is when its end has been seen.
THEOREM InvariantCorrect == Spec => []IInv
BY InitInvariant, StepInvariant, PTL DEF Spec

\* Every variable keeps to the values its Go counterpart can have.
THEOREM TypeCorrect == Spec => []TypeOK
<1>1. IInv => TypeOK
  BY DEF IInv
<1>2. QED
  BY <1>1, InvariantCorrect, PTL

\* A body that broke off is never passed off as a complete one.
THEOREM CompleteCorrect == Spec => []CompleteMeansComplete
<1>1. IInv => CompleteMeansComplete
  BY DEF IInv, TypeOK, ReaderInv, Buffered, CompleteMeansComplete
<1>2. QED
  BY <1>1, InvariantCorrect, PTL

\* The decoder is the Content-Type's on the whole body or the mark's on what
\* follows it, however the body arrives.
THEOREM DecoderCorrect == Spec => MarkDecides
<1>1. IInv /\ [Next]_vars =>
        (encoding = "none" /\ encoding' # "none" =>
           IF charset = "absent"
           THEN encoding' = Mark.encoding /\ consumed' = Mark.length
           ELSE encoding' = "declared" /\ consumed' = 0)
  <2> SUFFICES ASSUME IInv, [Next]_vars, encoding = "none", encoding' # "none"
               PROVE  IF charset = "absent"
                      THEN encoding' = Mark.encoding /\ consumed' = Mark.length
                      ELSE encoding' = "declared" /\ consumed' = 0
    OBVIOUS
  <2>1. CASE LookUp
    BY <2>1 DEF LookUp, IInv, ReaderInv
  <2>2. CASE Detect
    BY <2>2, SwitchTakesMark DEF Detect, IInv, ReaderInv
  <2>3. QED
    BY <2>1, <2>2 DEF Next, Peek, Read, ReadMore, ReadEnd, Finished, vars
<1>2. QED
  BY <1>1, InvariantCorrect, PTL DEF Spec, MarkDecides

=============================================================================
