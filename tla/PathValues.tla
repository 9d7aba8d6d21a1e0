------------------------------- MODULE PathValues -------------------------------
(***************************************************************************)
(* getPathValues (request_path_unsafe.go): the wildcards of the pattern    *)
(* that ServeMux matched, paired by position with the values that it kept. *)
(* The two lists are not of one length: net/http keeps a value for a named *)
(* wildcard only, so a literal and the trailing slash have none, although  *)
(* both are segments, the trailing slash even a wild one.                  *)
(*                                                                         *)
(* A matched value is known by the segment that it was matched at.  That   *)
(* the mirrored structures lie where net/http has them is not modelled.    *)
(***************************************************************************)
EXTENDS Naturals, Sequences, FiniteSets

CONSTANTS
    Names,      \* what a segment may say: a literal or a wildcard's name
    NoName,     \* the empty name: the wildcard of a trailing slash
    MaxSegments \* bound: segments of a pattern

ASSUME NoNameAssumption == NoName \notin Names
ASSUME MaxSegmentsAssumption == MaxSegments \in Nat

VARIABLES
    pat,        \* the segments of the matched pattern
    matches,    \* net/http's values, of the wildcards that have a name
    at,         \* visiting the segments, returned or panicked
    next,       \* the segment that the range statement comes to next
    matchIndex, \* values taken so far
    keyValue    \* the result: a value for each name

request == <<pat, matches>>
vars == <<request, at, next, matchIndex, keyValue>>

-----------------------------------------------------------------------------
(* net/http: patterns, and what a match records (external).                *)

Segment == [s : Names \cup {NoName}, wild : BOOLEAN]

\* The named wildcards of a pattern, by their place.
Wildcards(p) == {i \in DOMAIN p : p[i].wild /\ p[i].s # NoName}

\* parsePattern: names are not repeated, and only the last segment has none.
WellFormed(p) ==
    /\ \A i, j \in Wildcards(p) : p[i].s = p[j].s => i = j
    /\ \A i \in DOMAIN p : p[i].s = NoName => p[i].wild /\ i = Len(p)

\* The named wildcards in front of a segment.
Before(p, i) == {j \in Wildcards(p) : j < i}

\* The values of a match: one for each named wildcard, in their order.
MatchesOf(p) ==
    [k \in 1 .. Cardinality(Wildcards(p)) |->
        CHOOSE i \in Wildcards(p) : Cardinality(Before(p, i)) = k - 1]

-----------------------------------------------------------------------------
(* getPathValues.                                                          *)

\* A request that no pattern matched has no values.
NoPattern ==
    /\ at = "start" /\ at' = "nil"
    /\ UNCHANGED <<request, next, matchIndex, keyValue>>

Begin ==
    /\ at = "start" /\ at' = "visiting"
    /\ UNCHANGED <<request, next, matchIndex, keyValue>>

Store(name, value) ==
    keyValue' = [n \in DOMAIN keyValue \cup {name} |-> IF n = name THEN value ELSE keyValue[n]]

\* Whether a segment has a value among the matches.
HasValue(segment) == segment.wild /\ segment.s # NoName

\* Mutant of Visit: the index moves on with every segment.
VisitCountsAll ==
    /\ at = "visiting" /\ next <= Len(pat)
    /\ \/ /\ ~HasValue(pat[next])
          /\ next' = next + 1 /\ matchIndex' = matchIndex + 1
          /\ UNCHANGED <<at, keyValue>>
       \/ /\ HasValue(pat[next]) /\ matchIndex < Len(matches)
          /\ Store(pat[next].s, matches[matchIndex + 1])
          /\ next' = next + 1 /\ matchIndex' = matchIndex + 1
          /\ at' = at
       \/ /\ HasValue(pat[next]) /\ matchIndex >= Len(matches)
          /\ at' = "panicked"
          /\ UNCHANGED <<next, matchIndex, keyValue>>
    /\ UNCHANGED request

\* One turn of the loop; an index outside of the matches panics.
Visit ==
    /\ at = "visiting" /\ next <= Len(pat)
    /\ \/ /\ ~HasValue(pat[next])
          /\ next' = next + 1
          /\ UNCHANGED <<at, matchIndex, keyValue>>
       \/ /\ HasValue(pat[next]) /\ matchIndex < Len(matches)
          /\ Store(pat[next].s, matches[matchIndex + 1])
          /\ next' = next + 1 /\ matchIndex' = matchIndex + 1
          /\ at' = at
       \/ /\ HasValue(pat[next]) /\ matchIndex >= Len(matches)
          /\ at' = "panicked"
          /\ UNCHANGED <<next, matchIndex, keyValue>>
    /\ UNCHANGED request

Return ==
    /\ at = "visiting" /\ next > Len(pat)
    /\ at' = "returned"
    /\ UNCHANGED <<request, next, matchIndex, keyValue>>

Finished == at \in {"nil", "returned", "panicked"} /\ UNCHANGED vars

Init ==
    /\ \E n \in 0 .. MaxSegments : pat \in [1 .. n -> Segment]
    /\ WellFormed(pat)
    /\ matches = MatchesOf(pat)
    /\ at = "start" /\ next = 1 /\ matchIndex = 0
    /\ keyValue = <<>>

Next == NoPattern \/ Begin \/ Visit \/ Return \/ Finished

Spec == Init /\ [][Next]_vars

-----------------------------------------------------------------------------
(* Properties.                                                             *)

\* Every variable keeps to the values its Go counterpart can have.
TypeOK ==
    /\ pat \in Seq(Segment) /\ WellFormed(pat)
    /\ at \in {"start", "nil", "visiting", "returned", "panicked"}
    /\ next \in 1 .. Len(pat) + 1
    /\ matchIndex \in 0 .. Cardinality(Wildcards(pat))
    /\ DOMAIN keyValue \subseteq Names

\* No index is outside of the matches (request.matches[matchIndex]).
NeverPanics == at # "panicked"

\* The values never run out, and in the end each wildcard's name has the value
\* of that wildcard and no other name has one, wherever literals, equal names
\* of literals and a trailing slash stand (getPathValues' comment: all named
\* wildcard values).
ValuesFollowNames ==
    /\ NeverPanics
    /\ at = "returned" =>
          /\ DOMAIN keyValue = {pat[i].s : i \in Wildcards(pat)}
          /\ \A i \in Wildcards(pat) : keyValue[pat[i].s] = i

-----------------------------------------------------------------------------

\* The same of the segments visited so far, and the index beside them.
LoopInv ==
    /\ matches = MatchesOf(pat)
    /\ matchIndex = Cardinality(Before(pat, next))
    /\ DOMAIN keyValue = {pat[i].s : i \in Before(pat, next)}
    /\ \A i \in Before(pat, next) : keyValue[pat[i].s] = i
    /\ at = "returned" => next = Len(pat) + 1

IInv == TypeOK /\ NeverPanics /\ LoopInv

=============================================================================
