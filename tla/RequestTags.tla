----------------------------- MODULE RequestTags -----------------------------
(***************************************************************************)
(* The compiler and the cache of request tags (request_tags.go):           *)
(* createTags, called by the goroutines that build parsers, its mutex, its *)
(* process-wide cache, and checkRecursively's walk over the fields of a    *)
(* request type and of the structs embedded in it.                         *)
(*                                                                         *)
(* A request type is the tree of its fields, a function from their index   *)
(* paths: a field of a struct is one index below the struct.  A field is a *)
(* record of what the walk looks at: exported, anonymous, its type, its    *)
(* tags (from sources to values), and the media types its body tag lists.  *)
(***************************************************************************)
EXTENDS Naturals, Sequences, GoSlices

CONSTANTS
    Goroutines,    \* each builds one parser
    RequestTypes   \* the types parsers are built for

\* The fields of a struct are numbered from one without gaps, and lie in a
\* struct that is itself a field, or is the type.
IsTree(fields) ==
    \A p \in DOMAIN fields :
        /\ p \in Seq(Nat \ {0}) /\ p # <<>>
        /\ \A n \in 1 .. Len(p) - 1 : SubSeq(p, 1, n) \in DOMAIN fields
        /\ \A i \in 1 .. p[Len(p)] : [p EXCEPT ![Len(p)] = i] \in DOMAIN fields

ASSUME TypesAssumption == \A t \in RequestTypes : IsTree(t.fields)

VARIABLES
    pc,         \* where each goroutine is in createTags
    arg,        \* the type it was called with
    result,     \* the tags it returns
    panicking,  \* the goroutines that a panic is unwinding
    holders,    \* who holds globalTagsMutex: nobody or one goroutine
    cache,      \* globalTags
    walk        \* per goroutine, the walk under way: stack, tags, heap

vars == <<pc, arg, result, panicking, holders, cache, walk>>

-----------------------------------------------------------------------------

KeyedSources == {"header", "cookie", "query", "url", "form", "json"}

\* The type a field must have to take a whole source; json takes any.
WholeType == [header |-> "http.Header", cookie |-> "KeyValues",
              query |-> "KeyValues", url |-> "KeyValue", form |-> "KeyValues",
              multipart |-> "*multipart.Reader", body |-> "io.ReadCloser"]

\* A field that takes its whole source, which its tag then does not name.
IsWhole(s, field) == s \notin KeyedSources \/ field.tags[s] = ""

NoTags == [flags |-> {}, index |-> <<>>, accepts |-> {}]

\* The checks on one tag of a field, given what was found before it.
Rejects(tags, s, field) ==
    \/ /\ s = "multipart"
       /\ field.tags[s] # ""
    \/ /\ ~IsWhole(s, field)
       /\ s \in DOMAIN tags.index
    \/ /\ IsWhole(s, field)
       /\ s \in tags.flags \/ (s # "json" /\ field.type # WholeType[s])

-----------------------------------------------------------------------------
(* The index paths: slices of ints.                                        *)

\* append(slice, x), which doubles a capacity that does not suffice.
Extend(heap, slice, x) ==
    AppendTo(heap, slice, <<x>>, [i \in 1 .. slice.len - 1 |-> 0])

\* Mutant of Copy: the field's index is appended to the shared slice.
ExtendShared(heap, slice, x) == Extend(heap, slice, x)

\* append(append([]int(nil), slice...), x)
Copy(heap, slice, x) ==
    LET c == AppendTo(heap, Nil, Elements(heap, slice), <<>>) IN
    AppendTo(c.heap, c.slice, <<x>>, [i \in 1 .. slice.len - 1 |-> 0])

-----------------------------------------------------------------------------
(* createTags.                                                             *)

Goto(g, label) == pc' = [pc EXCEPT ![g] = label]

\* A panic inside the mutex: the deferred Unlock runs next.
Fail(g) ==
    /\ panicking' = panicking \cup {g}
    /\ Goto(g, "unlock")
    /\ UNCHANGED <<arg, result, holders, cache, walk>>

NotStruct(g) ==
    /\ pc[g] = "start" /\ ~arg[g].isStruct
    /\ panicking' = panicking \cup {g}
    /\ Goto(g, "panicked")
    /\ UNCHANGED <<arg, result, holders, cache, walk>>

\* Mutants of Lock: a shared lock in its place, and a look at the cache
\* without it that decides to compile.
LockShared(g) ==
    /\ pc[g] = "start" /\ arg[g].isStruct
    /\ holders' = holders \cup {g}
    /\ Goto(g, "lookup")
    /\ UNCHANGED <<arg, result, panicking, cache, walk>>

LockAfterLookup(g) ==
    /\ pc[g] = "start" /\ arg[g].isStruct
    /\ IF arg[g] \in DOMAIN cache
       THEN holders = {} /\ holders' = {g} /\ Goto(g, "lookup") /\ UNCHANGED walk
       ELSE /\ walk' = [walk EXCEPT ![g].stack =
                            <<[at |-> <<>>, next |-> 1, path |-> Nil]>>]
            /\ Goto(g, "walk") /\ UNCHANGED holders
    /\ UNCHANGED <<arg, result, panicking, cache>>

Lock(g) ==
    /\ pc[g] = "start" /\ arg[g].isStruct
    /\ holders = {} /\ holders' = {g}
    /\ Goto(g, "lookup")
    /\ UNCHANGED <<arg, result, panicking, cache, walk>>

\* Mutant of Hit: the variable returned is not the one that was looked up.
HitReturnsZero(g) ==
    /\ pc[g] = "lookup" /\ arg[g] \in DOMAIN cache
    /\ result' = [result EXCEPT ![g] = NoTags]
    /\ Goto(g, "unlock")
    /\ UNCHANGED <<arg, panicking, holders, cache, walk>>

Hit(g) ==
    /\ pc[g] = "lookup" /\ arg[g] \in DOMAIN cache
    /\ result' = [result EXCEPT ![g] = cache[arg[g]]]
    /\ Goto(g, "unlock")
    /\ UNCHANGED <<arg, panicking, holders, cache, walk>>

\* ApplyDefaults refuses a default tag of the type.
BadDefaults(g) ==
    /\ pc[g] = "lookup" /\ arg[g] \notin DOMAIN cache
    /\ ~arg[g].defaultsOK
    /\ Fail(g)

BeginWalk(g) ==
    /\ pc[g] = "lookup" /\ arg[g] \notin DOMAIN cache
    /\ arg[g].defaultsOK
    /\ walk' = [walk EXCEPT ![g].stack =
                    <<[at |-> <<>>, next |-> 1, path |-> Nil]>>]
    /\ Goto(g, "walk")
    /\ UNCHANGED <<arg, result, panicking, holders, cache>>

\* The media types of a body tag against the sources that own them.
Conflict(g) ==
    /\ pc[g] = "check"
    /\ walk[g].tags.accepts \cap walk[g].tags.flags # {}
    /\ Fail(g)

\* The compiled tags, with the slices read: nothing appends to them again.
Compiled(w) ==
    [w.tags EXCEPT !.index =
        [s \in DOMAIN w.tags.index |-> Elements(w.heap, w.tags.index[s])]]

Store(g) ==
    /\ pc[g] = "check"
    /\ walk[g].tags.accepts \cap walk[g].tags.flags = {}
    /\ cache' = [t \in DOMAIN cache \cup {arg[g]} |->
                    IF t = arg[g] THEN Compiled(walk[g]) ELSE cache[t]]
    /\ result' = [result EXCEPT ![g] = Compiled(walk[g])]
    /\ Goto(g, "unlock")
    /\ UNCHANGED <<arg, panicking, holders, walk>>

\* Mutant of Unlock: it is not deferred, so that a panic skips it.
UnlockUnlessPanicking(g) ==
    /\ pc[g] = "unlock"
    /\ holders' = IF g \in panicking THEN holders ELSE holders \ {g}
    /\ Goto(g, IF g \in panicking THEN "panicked" ELSE "returned")
    /\ UNCHANGED <<arg, result, panicking, cache, walk>>

Unlock(g) ==
    /\ pc[g] = "unlock"
    /\ holders' = holders \ {g}
    /\ Goto(g, IF g \in panicking THEN "panicked" ELSE "returned")
    /\ UNCHANGED <<arg, result, panicking, cache, walk>>

-----------------------------------------------------------------------------
(* checkRecursively: a stack of structs, the innermost last, each with the *)
(* path it is at, the slice that the code has for this path, and the index *)
(* of its next field.                                                      *)

Depth(g) == Len(walk[g].stack)
Frame(g) == walk[g].stack[Depth(g)]

\* The field the innermost struct is at, if it has one left.
Position(g) == Append(Frame(g).at, Frame(g).next)
Field(g) == arg[g].fields[Position(g)]

AtField(g) == pc[g] = "walk" /\ Position(g) \in DOMAIN arg[g].fields

\* The stack once the field of the innermost struct is done.
Advanced(g) == [walk[g].stack EXCEPT ![Depth(g)].next = @ + 1]

Step(g, w) ==
    /\ walk' = [walk EXCEPT ![g] = w]
    /\ UNCHANGED <<pc, arg, result, panicking, holders, cache>>

SkipUnexported(g) ==
    /\ AtField(g) /\ ~Field(g).exported
    /\ Step(g, [walk[g] EXCEPT !.stack = Advanced(g)])

RejectEmbedded(g) ==
    /\ AtField(g) /\ Field(g).exported
    /\ Field(g).anonymous /\ Field(g).type # "struct"
    /\ Fail(g)

EnterEmbedded(g) ==
    /\ AtField(g) /\ Field(g).exported
    /\ Field(g).anonymous /\ Field(g).type = "struct"
    /\ LET e == Extend(walk[g].heap, Frame(g).path, Frame(g).next) IN
       Step(g, [walk[g] EXCEPT
            !.heap = e.heap,
            !.stack = Append(Advanced(g),
                             [at |-> Position(g), next |-> 1, path |-> e.slice])])

RejectField(g) ==
    /\ AtField(g) /\ Field(g).exported /\ ~Field(g).anonymous
    /\ \E s \in DOMAIN Field(g).tags : Rejects(walk[g].tags, s, Field(g))
    /\ Fail(g)

\* All tags of the field, each source's state apart from the others'.
CompileField(g) ==
    /\ AtField(g) /\ Field(g).exported /\ ~Field(g).anonymous
    /\ \A s \in DOMAIN Field(g).tags : ~Rejects(walk[g].tags, s, Field(g))
    /\ LET tags  == walk[g].tags
           named == DOMAIN Field(g).tags
           whole == {s \in named : IsWhole(s, Field(g))}
           c     == Copy(walk[g].heap, Frame(g).path, Frame(g).next)
       IN  Step(g, [walk[g] EXCEPT
              !.heap = IF whole = {} THEN @ ELSE c.heap,
              !.stack = Advanced(g),
              !.tags = [flags   |-> tags.flags \cup named,
                        index   |-> [s \in DOMAIN tags.index \cup whole |->
                                        IF s \in whole THEN c.slice
                                                       ELSE tags.index[s]],
                        accepts |-> IF "body" \in named THEN Field(g).accepts
                                                        ELSE tags.accepts]])

LeaveStruct(g) ==
    /\ pc[g] = "walk" /\ Position(g) \notin DOMAIN arg[g].fields
    /\ walk' = [walk EXCEPT ![g].stack = SubSeq(@, 1, Depth(g) - 1)]
    /\ Goto(g, IF Depth(g) = 1 THEN "check" ELSE "walk")
    /\ UNCHANGED <<arg, result, panicking, holders, cache>>

-----------------------------------------------------------------------------

Ended(g) == pc[g] \in {"returned", "panicked"}

Finished == (\A g \in Goroutines : Ended(g)) /\ UNCHANGED vars

Init ==
    /\ pc = [g \in Goroutines |-> "start"]
    /\ arg \in [Goroutines -> RequestTypes]
    /\ result = [g \in Goroutines |-> NoTags]
    /\ panicking = {} /\ holders = {} /\ cache = <<>>
    /\ walk = [g \in Goroutines |-> [stack |-> <<>>, tags |-> NoTags, heap |-> <<>>]]

CreateTags(g) ==
    \/ NotStruct(g) \/ Lock(g) \/ Hit(g) \/ BadDefaults(g) \/ BeginWalk(g)
    \/ SkipUnexported(g) \/ RejectEmbedded(g) \/ EnterEmbedded(g)
    \/ RejectField(g) \/ CompileField(g) \/ LeaveStruct(g)
    \/ Conflict(g) \/ Store(g) \/ Unlock(g)

Next == (\E g \in Goroutines : CreateTags(g)) \/ Finished

\* Each goroutine keeps running; a free mutex goes to one that wants it, and
\* each wants it once.
Fairness == \A g \in Goroutines : WF_vars(CreateTags(g))

Spec == Init /\ [][Next]_vars /\ Fairness

-----------------------------------------------------------------------------
(* The rules the package doc gives for request tags, for a set of fields   *)
(* of a type and for the type.                                             *)

Opens(field) == field.exported /\ field.anonymous /\ field.type = "struct"

\* The exported fields of the type and of the structs embedded in it.
Visible(t) ==
    {p \in DOMAIN t.fields :
        /\ t.fields[p].exported /\ ~Opens(t.fields[p])
        /\ \A n \in 1 .. Len(p) - 1 : Opens(t.fields[SubSeq(p, 1, n)])}

Tagged(t, P, s) == {p \in P : s \in DOMAIN t.fields[p].tags}
Whole(t, P, s)  == {p \in Tagged(t, P, s) : IsWhole(s, t.fields[p])}
Sources(t, P)   == UNION {DOMAIN t.fields[p].tags : p \in P}
BodyTypes(t, P) == UNION {t.fields[p].accepts : p \in Tagged(t, P, "body")}

\* A field that takes a whole source is the only one of that source and of the
\* right type; nothing is embedded but structs.
KeepsRules(t, P) ==
    \A p \in P :
        /\ ~t.fields[p].anonymous
        /\ \A s \in DOMAIN t.fields[p].tags :
            /\ s = "multipart" => t.fields[p].tags[s] = ""
            /\ IsWhole(s, t.fields[p]) =>
                 /\ Tagged(t, P, s) = {p}
                 /\ s # "json" => t.fields[p].type = WholeType[s]

Declared(t, P) ==
    [flags   |-> Sources(t, P),
     index   |-> [s \in {s \in Sources(t, P) : Whole(t, P, s) # {}} |->
                     CHOOSE p \in Whole(t, P, s) : TRUE],
     accepts |-> BodyTypes(t, P)]

\* Good defaults, good tags, and no media type claimed twice.
WellFormed(t) ==
    /\ t.isStruct /\ t.defaultsOK
    /\ KeepsRules(t, Visible(t))
    /\ BodyTypes(t, Visible(t)) \cap Sources(t, Visible(t)) = {}

-----------------------------------------------------------------------------
(* Properties.                                                             *)

Labels == {"start", "lookup", "walk", "check", "unlock", "returned", "panicked"}

Inside(g) == pc[g] \in {"lookup", "walk", "check", "unlock"}

\* Every variable keeps to the values its Go counterpart can have.
TypeOK ==
    /\ pc \in [Goroutines -> Labels]
    /\ arg \in [Goroutines -> RequestTypes]
    /\ panicking \subseteq Goroutines
    /\ holders \in {{}} \cup {{g} : g \in Goroutines}
    /\ DOMAIN cache \subseteq RequestTypes
    /\ DOMAIN result = Goroutines
    /\ DOMAIN walk = Goroutines

\* A type is compiled by one goroutine at a time and never again once it is
\* in the cache (globalTagsMutex, which covers the lookup and the walk).
CompilesOnce ==
    /\ \A g \in Goroutines : Inside(g) => holders = {g}
    /\ \A g \in Goroutines : pc[g] \in {"walk", "check"} => arg[g] \notin DOMAIN cache

\* Parsers of one type work with the same tags, whoever compiled them, and
\* whatever is built in between (the reuse of compiled values that the comment
\* of requestTags announces).
ParsersAgree ==
    \A g, h \in Goroutines :
        pc[g] = "returned" /\ pc[h] = "returned" /\ arg[g] = arg[h] =>
            result[g] = result[h]

\* The tags a parser works with are those its type declares, each index path
\* leading to the field that bears the tag, and exactly the types that break a
\* rule panic, whatever order and depth the fields have (doc.go, Request tags;
\* createTags, checkRecursively).
TagsMatchDeclaration ==
    \A g \in Goroutines :
        /\ pc[g] = "returned" =>
             WellFormed(arg[g]) /\ result[g] = Declared(arg[g], Visible(arg[g]))
        /\ pc[g] = "panicked" => ~WellFormed(arg[g])

\* No call waits for a mutex that was left behind: whoever holds it is between
\* Lock and the deferred Unlock, also one that panics, and if a call has not
\* ended then somebody has a step to take (createTags).
MutexHolderRuns ==
    /\ \A g \in holders : Inside(g)
    /\ \A g \in Goroutines : ~Ended(g) => \E h \in Goroutines :
           Inside(h) \/ (pc[h] = "start" /\ (arg[h].isStruct => holders = {}))

\* Every call of createTags ends, those that wait behind one that panics
\* included (the deferred Unlock).
CallsEnd == \A g \in Goroutines : <>Ended(g)

-----------------------------------------------------------------------------
(* The abstract specification.                                             *)

Promise == INSTANCE TagCache WITH
    Tags    <- [t \in {t \in RequestTypes : WellFormed(t)} |-> Declared(t, Visible(t))],
    answers <- [g \in {g \in Goroutines : pc[g] = "returned"} |-> result[g]],
    refused <- {g \in Goroutines : pc[g] = "panicked"}

\* The mutex and the walks of createTags make up a cache that is filled once for
\* each well-formed type, with what the type declares, and that a panic leaves as
\* it was; each call gets what the cache has, or panics for a type that is not
\* well-formed (the comments of globalTags and createTags).
ImplementsTagCache == Promise!Spec

-----------------------------------------------------------------------------
(* The inductive invariant behind the safety properties above.             *)

\* What a goroutine that has its tags knows: they are the cached ones.
ResultInv ==
    \A g \in Goroutines :
        pc[g] = "returned" \/ (pc[g] = "unlock" /\ g \notin panicking) =>
            arg[g] \in DOMAIN cache /\ result[g] = cache[arg[g]]

IInv == TypeOK /\ CompilesOnce /\ ResultInv

=============================================================================
