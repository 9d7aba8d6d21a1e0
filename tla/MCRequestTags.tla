---------------------------- MODULE MCRequestTags ----------------------------
(***************************************************************************)
(* Request types for TLC, put together from the trees of their fields.     *)
(***************************************************************************)
EXTENDS RequestTags, TLC

\* The trees of a struct's fields, each below its index.
Below(trees) ==
    [p \in UNION {{<<i>> \o q : q \in DOMAIN trees[i]} : i \in DOMAIN trees} |->
        trees[p[1]][Tail(p)]]

Plain(type, tags) ==
    <<>> :> [exported |-> TRUE, anonymous |-> FALSE, type |-> type,
             tags |-> tags, accepts |-> {}]

BodyField(type, accepts) ==
    [Plain(type, [body |-> "listed"]) EXCEPT ![<<>>].accepts = accepts]

Embedded(type, trees) ==
    [Plain(type, <<>>) EXCEPT ![<<>>].anonymous = TRUE] @@ Below(trees)

Unexported(tree) == [tree EXCEPT ![<<>>].exported = FALSE]

WholeHeader == Plain("http.Header", [header |-> ""])
NamedHeader == Plain("string", [header |-> "name"])
WholeForm   == Plain("KeyValues", [form |-> ""])
WholeJson   == Plain("any", [json |-> ""])
NamedJson   == Plain("any", [json |-> "name"])

Fields == {
    WholeHeader, NamedHeader, Plain("string", [header |-> ""]),
    WholeForm, WholeJson, NamedJson,
    Plain("KeyValues", [query |-> "", form |-> "name"]),
    Plain("*multipart.Reader", [multipart |-> ""]),
    Plain("*multipart.Reader", [multipart |-> "name"]),
    BodyField("io.ReadCloser", {}), BodyField("io.ReadCloser", {"form", "other"}),
    BodyField("io.ReadCloser", {"json", "multipart"}), BodyField("string", {}),
    Plain("string", <<>>),
    Unexported(WholeHeader), Unexported(Embedded("struct", <<WholeJson>>)),
    Embedded("struct", <<NamedHeader, WholeForm>>),
    Embedded("struct", <<Embedded("struct", <<WholeJson>>), WholeHeader>>),
    Embedded("pointer", <<>>)}

RequestType(trees) ==
    [isStruct |-> TRUE, defaultsOK |-> TRUE, fields |-> Below(trees)]

\* Four levels down, where a slice has room to be shared.
Deep == Embedded("struct", <<NamedJson, Embedded("struct", <<Embedded("struct",
            <<WholeHeader, WholeForm, Plain("KeyValues", [query |-> ""])>>)>>)>>)

\* Every struct of at most three of the fields, in every order, and a deep one.
SmallTypes ==
    {RequestType(fs) : fs \in UNION {[1 .. n -> Fields] : n \in 0 .. 3}}
      \cup {RequestType(<<Deep>>)}

\* A few types for several goroutines: well-formed ones and one of each panic.
SharedTypes == {
    RequestType(<<WholeHeader, Embedded("struct", <<NamedJson>>)>>),
    RequestType(<<NamedHeader, WholeHeader>>),
    [RequestType(<<WholeForm>>) EXCEPT !.defaultsOK = FALSE],
    RequestType(<<WholeJson, BodyField("io.ReadCloser", {"json"})>>),
    [RequestType(<<>>) EXCEPT !.isStruct = FALSE]}

=============================================================================
