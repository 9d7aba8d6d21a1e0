-------------------------------- MODULE Charset --------------------------------
(***************************************************************************)
(* charsetReader (request_body.go): a form or JSON body is given to its    *)
(* binder through a decoder that the Content-Type names or, failing that,  *)
(* a byte-order mark at the start of the body.  The body arrives in pieces *)
(* of any size, so that a mark may be split; its end or its failure may    *)
(* come with the last piece or after it.                                   *)
(*                                                                         *)
(* The body, bufio.Reader and transform.Reader are external.  A body read  *)
(* again after its end or its failure ends or fails again (net/http).      *)
(***************************************************************************)
EXTENDS Naturals, Sequences

CONSTANTS
    Octets,     \* the bytes that a body may hold, those of the marks included
    MaxLength   \* bound: bytes of the body

ASSUME MarksAssumption == {"EF", "BB", "BF", "FF", "FE"} \subseteq Octets
ASSUME MaxLengthAssumption == MaxLength \in Nat

VARIABLES
    body,       \* the bytes of the body that arrive
    broken,     \* the client goes away after them
    charset,    \* the Content-Type's charset: absent, known or unknown
    at,         \* what the goroutine is doing
    encoding,   \* what the returned reader decodes, or "none" before it returns
    fetched,    \* bytes read from the body
    consumed,   \* bytes of these that have left the buffer
    err         \* the error that the buffer holds back: none, end or failure

inputs == <<body, broken, charset>>
vars == <<inputs, at, encoding, fetched, consumed, err>>

-----------------------------------------------------------------------------
(* The readers that charsetReader puts on the body (external).             *)

Buffered == fetched - consumed

\* One Read of the body: a piece of what is left, with or without the end.
Fill ==
    \E n \in 0 .. Len(body) - fetched :
        /\ fetched' = fetched + n
        /\ \/ n > 0 /\ err' = "none"
           \/ fetched + n = Len(body) /\ err' = (IF broken THEN "failure" ELSE "end")

\* Peek asks for three bytes until it has them or the body ends.
Peek ==
    /\ at = "peek"
    /\ Buffered < 3 /\ err = "none"
    /\ Fill
    /\ UNCHANGED <<inputs, at, encoding, consumed>>

\* What Peek has returned starts with these bytes.
Starts(mark) ==
    /\ Buffered >= Len(mark)
    /\ \A i \in 1 .. Len(mark) : body[consumed + i] = mark[i]

-----------------------------------------------------------------------------
(* charsetReader.                                                          *)

\* An explicit charset decides, known or not.
LookUp ==
    /\ at = "start"
    /\ \/ charset = "absent" /\ at' = "peek" /\ encoding' = encoding
       \/ charset = "known" /\ at' = "read" /\ encoding' = "declared"
       \/ charset = "unknown" /\ at' = "refused" /\ encoding' = encoding
    /\ UNCHANGED <<inputs, fetched, consumed, err>>

\* The switch: the mark is discarded, and it chooses the decoder.
Switch ==
    \/ Starts(<<"EF", "BB", "BF">>) /\ consumed' = 3 /\ encoding' = "utf-8"
    \/ Starts(<<"FF", "FE">>) /\ consumed' = 2 /\ encoding' = "utf-16le"
    \/ Starts(<<"FE", "FF">>) /\ consumed' = 2 /\ encoding' = "utf-16be"
    \/ /\ ~Starts(<<"EF", "BB", "BF">>)
       /\ ~Starts(<<"FF", "FE">>) /\ ~Starts(<<"FE", "FF">>)
       /\ consumed' = consumed /\ encoding' = "unchanged"

\* Mutant of Detect: one Read is taken for all that Peek can get.
DetectInFirstPiece ==
    /\ at = "peek" /\ at' = "read"
    /\ Buffered > 0 \/ err # "none"
    /\ Switch
    /\ UNCHANGED <<inputs, fetched, err>>

\* Mutant of Detect: an error of Peek is taken for the end of a short body.
DetectShortAsComplete ==
    /\ at = "peek" /\ at' = "read"
    /\ Buffered >= 3 \/ err # "none"
    /\ Switch
    /\ err' = IF Buffered < 3 THEN "end" ELSE err
    /\ UNCHANGED <<inputs, fetched>>

\* The error of a Peek that came short is dropped, and the buffer does not
\* keep it either; a later Read meets it again at the body.
Detect ==
    /\ at = "peek" /\ at' = "read"
    /\ Buffered >= 3 \/ err # "none"
    /\ Switch
    /\ err' = IF Buffered < 3 THEN "none" ELSE err
    /\ UNCHANGED <<inputs, fetched>>

-----------------------------------------------------------------------------
(* The binder reads what it was given (external: bindForm and bindJson are *)
(* those of BodyBind).                                                     *)

Read ==
    /\ at = "read" /\ Buffered > 0
    /\ \E n \in 1 .. Buffered : consumed' = consumed + n
    /\ UNCHANGED <<inputs, at, encoding, fetched, err>>

ReadMore ==
    /\ at = "read" /\ Buffered = 0 /\ err = "none"
    /\ Fill
    /\ UNCHANGED <<inputs, at, encoding, consumed>>

ReadEnd ==
    /\ at = "read" /\ Buffered = 0 /\ err # "none"
    /\ at' = IF err = "end" THEN "complete" ELSE "failed"
    /\ UNCHANGED <<inputs, encoding, fetched, consumed, err>>

Finished == at \in {"refused", "complete", "failed"} /\ UNCHANGED vars

-----------------------------------------------------------------------------

Init ==
    /\ \E n \in 0 .. MaxLength : body \in [1 .. n -> Octets]
    /\ broken \in BOOLEAN
    /\ charset \in {"absent", "known", "unknown"}
    /\ at = "start" /\ encoding = "none"
    /\ fetched = 0 /\ consumed = 0 /\ err = "none"

Next == LookUp \/ Peek \/ Detect \/ Read \/ ReadMore \/ ReadEnd \/ Finished

Spec == Init /\ [][Next]_vars

-----------------------------------------------------------------------------
(* Properties.                                                             *)

Encodings == {"none", "declared", "utf-8", "utf-16le", "utf-16be", "unchanged"}

\* Every variable keeps to the values its Go counterpart can have; what has
\* left the buffer had come into it.
TypeOK ==
    /\ body \in Seq(Octets) /\ broken \in BOOLEAN
    /\ charset \in {"absent", "known", "unknown"}
    /\ at \in {"start", "peek", "read", "refused", "complete", "failed"}
    /\ encoding \in Encodings
    /\ fetched \in 0 .. Len(body) /\ consumed \in 0 .. fetched
    /\ err \in {"none", "end", "failure"}

\* The mark that the comment of charsetReader speaks of: in the whole body,
\* whatever the pieces it came in.
Begins(mark) ==
    Len(mark) <= Len(body) /\ \A i \in 1 .. Len(mark) : body[i] = mark[i]

Mark ==
    IF Begins(<<"EF", "BB", "BF">>) THEN [encoding |-> "utf-8", length |-> 3]
    ELSE IF Begins(<<"FF", "FE">>) THEN [encoding |-> "utf-16le", length |-> 2]
    ELSE IF Begins(<<"FE", "FF">>) THEN [encoding |-> "utf-16be", length |-> 2]
    ELSE [encoding |-> "unchanged", length |-> 0]

\* The binder gets the Content-Type's decoder on the whole body, or else the
\* mark's on what follows the mark, however the body was cut into pieces and
\* whatever error Peek met (charsetReader's comment: an explicit charset is
\* authoritative).
MarkDecides ==
    [][ encoding = "none" /\ encoding' # "none" =>
          IF charset = "absent"
          THEN encoding' = Mark.encoding /\ consumed' = Mark.length
          ELSE encoding' = "declared" /\ consumed' = 0 ]_vars

\* The binder is told that the body is complete only when it is, although the
\* error of Peek is dropped.
CompleteMeansComplete ==
    at = "complete" => ~broken /\ consumed = Len(body)

-----------------------------------------------------------------------------

\* Where the body is when its end has been seen, and nothing before the binder.
ReaderInv ==
    /\ err = "end" => fetched = Len(body) /\ ~broken
    /\ err = "failure" => fetched = Len(body) /\ broken
    /\ at \in {"start", "peek"} => consumed = 0 /\ encoding = "none"
    /\ at = "start" => fetched = 0 /\ err = "none"
    /\ at = "peek" => charset = "absent"
    /\ at = "complete" => err = "end" /\ Buffered = 0

IInv == TypeOK /\ ReaderInv

=============================================================================
