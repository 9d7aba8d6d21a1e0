--------------------------- MODULE MCRequestBinding ---------------------------
(* Request types and requests for TLC.                                      *)
EXTENDS RequestBinding

Layer(flags, accepts) == [flags |-> flags, accepts |-> accepts]

\* No tags, keyed sources in part, each kind of body, and mixes of them.
SomeLayers == {
    Layer({}, {}),
    Layer({"header", "query", "url"}, {}),
    Layer({"cookie", "form", "json"}, {}),
    Layer({"form"}, {}),
    Layer({"body"}, {}),
    Layer({"json", "multipart", "body"}, {"form", "other"})}

\* Requests that differ in one thing from a plain one with a form or a value.
Request(type) ==
    [bodyMethod |-> TRUE, length |-> "known", type |-> type, charset |-> TRUE,
     boundary |-> TRUE, present |-> {"header", "cookie", "url"}]

SomeRequests ==
    {Request(t) : t \in {"form", "json", "multipart", "other", "missing", "invalid"}}
      \cup {[Request("form") EXCEPT !.length = l] : l \in {"zero", "unknown", "tooLarge"}}
      \cup {[Request("json") EXCEPT !.charset = FALSE, !.present = {"header", "query"}],
            [Request("multipart") EXCEPT !.boundary = FALSE],
            [Request("form") EXCEPT !.bodyMethod = FALSE]}

=============================================================================
