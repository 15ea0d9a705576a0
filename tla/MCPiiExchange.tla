----------------------------- MODULE MCPiiExchange -----------------------------
(* A map of two entities and an extra one, records two deep, requests of up to *)
(* two tokens and queries of up to two options, for TLC.                        *)
EXTENDS PiiExchange

MCBuiltIn ==
    ("*" :> ("dob" :> 2)) @@ ("Job" :> <<>>)
    @@ ("Person" :> (("dob" :> 3) @@ ("mail" :> 2) @@ ("photo" :> 3)))
MCExtra == ("Person" :> ("title" :> 1)) @@ ("Custom" :> ("mail" :> 2))
MCLower ==
    ("MAIL" :> "mail") @@ [f \in {"dob", "mail", "photo", "title", "uri", "nav", "Name", "Value"} |-> f]
MCConfigs ==
    {[production |-> FALSE, tier |-> t, extra |-> x] : t \in {1, 2}, x \in {<<>>, MCExtra}}
    \union {[production |-> p, tier |-> IF p THEN Nothing ELSE 0, extra |-> <<>>] : p \in BOOLEAN}
    \union {[production |-> p, tier |-> Nothing, extra |-> MCExtra] : p \in BOOLEAN}

Text(v) == [kind |-> "text", value |-> v]
Number(v) == [kind |-> "number", value |-> v]
Given(cells) == [f \in DOMAIN MCLower |-> IF f \in DOMAIN cells THEN cells[f] ELSE Gone]
\* A record without a nested one, or with one of the type below under "nav".
Record(type, cells, below) ==
    IF below = "gone" THEN [type |-> (<<>> :> type), cells |-> (<<>> :> Given(cells))]
    ELSE [type |-> (<<>> :> type) @@ (<<"nav">> :> below),
          cells |-> (<<>> :> Given(("nav" :> [kind |-> "nested"]) @@ cells))
                    @@ (<<"nav">> :> Given(("mail" :> Text("b")) @@ ("dob" :> Number("a"))))]
Bags == {<<>>, ("Name" :> Text("dob")) @@ ("Value" :> Number("a"))}
Shapes ==
    {("mail" :> mail) @@ ("dob" :> dob) @@ bag @@ ("title" :> Text("c"))
        @@ ("photo" :> Text("c")) @@ ("uri" :> [kind |-> "link"]) :
       mail \in {Text("b"), [kind |-> "texts", value |-> "c"]}, dob \in {Text("b"), Number("a")},
       bag \in Bags}
MCPages ==
    {[record |-> Record(type, shape, below), top |-> top, v4 |-> mode[1], failClosed |-> mode[2]] :
       type \in {"none", "Person", "Job", "Other", "Custom"}, below \in {"gone", "none", "Person", "Other"}, top \in {"Person", "Job", "Other"},
       shape \in Shapes, mode \in {<<FALSE, TRUE>>, <<FALSE, FALSE>>, <<TRUE, FALSE>>}}
MCLeaves ==
    [segment : {"Person", "Job", "Other", "Envelope"}, field : {"dob", "mail"}, inside : BOOLEAN,
     value : {"a", "b"}]

MCSpelling ==
    ("a" :> <<"x">>) @@ ("b" :> <<"x", "q", "y">>) @@ ("c" :> <<"+", "e", "?">>) @@ ("dob" :> <<"d">>) @@ ("f" :> <<>>)
MCSpecial == [pct |-> {"q", "+", "e", " ", "?"}, html |-> {"q"}, json |-> {"e"}, raw |-> {}]
N == Letter("n", "raw")
Q(c) == Letter("q", c)
Texts(known) ==
    LET tokens == known \ {"dob"}
        heads == {<<N, Q("raw"), Tok(t, c), Q("raw"), N>> : c \in {"raw", "pct"}, t \in tokens}
                 \union {<<N, Q("raw"), N, Q("raw"), Tok(t, "raw"), N>> : t \in tokens}
        queries == {<<N, Q(c), N, Tok(t, c), Q(c), N>> : c \in {"raw", "pct"}, t \in tokens}
        params == {<<Q("raw"), N, Q("raw"), Q("raw"), Tok(t, "raw"), Q("raw"), N,
                     Q("raw"), Tok(u, "raw"), Q("raw")>> : t, u \in tokens}
                  \union {<<Q("raw"), N, Q("pct"), Tok(t, "raw"), Q("raw")>> : t \in tokens}
    IN  {[head |-> f[1], query |-> f[2], param |-> p] : p \in {<<>>} \union params,
          f \in ({<<>>} \union heads) \X {<<>>} \union {<<>>} \X queries}

Term(path, form, op, with) == [path |-> path, form |-> form, op |-> op, with |-> with]
Option(name, paths, terms, join, below) ==
    [name |-> name, paths |-> paths, terms |-> terms, join |-> join, below |-> below]
Filter(terms, join) == Option("filter", <<>>, terms, join, <<>>)
Expand(below) == Option("expand", <<>>, <<>>, "and", below)

Bare == {<<"mail">>, <<"MAIL">>, <<"dob">>, <<"title">>}
Through == {<<"nav", "mail">>, <<"nav", "dob">>}
Plain == Str("a", FALSE)
Terms(paths, tokens) ==
    LET named == {Str(t, TRUE) : t \in tokens} IN
    {Term(path, "compare", op, <<with>>) :
       path \in paths, op \in {"eq", "gt"}, with \in named \union {Plain, Null, Id(<<"title">>)}}
    \union {Term(path, form, "ne", <<with>>) :
       path \in paths, form \in {"reverse", "starts"}, with \in named \union {Plain}}
    \union {Term(path, form, "in", list) : path \in paths, form \in {"in", "in()"},
       list \in {<<u, w>> : u \in named, w \in named \union {Plain}}}
Options(tokens) ==
    LET one == {Term(<<"mail">>, "compare", "eq", <<Null>>)}
               \union {Term(<<"dob">>, "compare", "ne", <<Str(t, TRUE)>>) : t \in tokens}
    IN  {Filter(<<t>>, "and") : t \in Terms(Bare \union Through, tokens)}
        \union {Filter(<<t, u>>, join) : t \in one, u \in Terms({<<"mail">>}, tokens), join \in {"and", "or"}}
        \union {Filter(<<t>>, "any") : t \in Terms({<<"mail">>}, tokens)}
        \union {Option(name, <<path>>, <<>>, "and", <<>>) :
                  name \in {"orderby", "apply", "compute", "search", "select"},
                  path \in {<<"MAIL">>, <<"title">>, <<"nav", "mail">>}}
        \union {Expand(<<Option("select", <<<<"mail">>>>, <<>>, "and", <<>>), below>>) :
                  below \in {Filter(<<t>>, "and") : t \in Terms({<<"mail">>}, tokens)}
                    \union {Option(name, <<<<"dob">>>>, <<>>, "and", <<>>) : name \in {"orderby", "compute", "search"}}}
Resources ==
    {<<[name |-> "Person", keyed |-> FALSE]>>, <<[name |-> "Job", keyed |-> TRUE]>>,
     <<[name |-> "Person", keyed |-> TRUE], [name |-> "nav", keyed |-> FALSE]>>}
Asked(text, resource, inPath, inParams) ==
    text @@ [path |-> resource, inPath |-> inPath, inParams |-> inParams]
Empty == [head |-> <<>>, query |-> <<>>, param |-> <<>>]
\* Options are written while the vault holds nothing or one value.
MCRequests(known) ==
    LET tokens == known \ {Foreign}
        options == IF tokens \subseteq {"b"} THEN Options(tokens) ELSE {}
        first == CHOOSE r \in Resources : TRUE
        isNull == Filter(<<Term(<<"mail">>, "compare", "eq", <<Null>>)>>, "and")
        foreign == Filter(<<Term(<<"mail">>, "compare", "eq", <<Str(Foreign, TRUE)>>)>>, "and")
    IN  {Asked(text, first, <<>>, <<>>) : text \in Texts(known)}
        \union {Asked(Empty, r, <<o>>, <<>>) : r \in Resources, o \in options \union {foreign}}
        \union {Asked(Empty, first, <<isNull>>, <<o>>) : o \in options}

MCRows(entity) ==
    {Record(type, ("mail" :> Text(v)) @@ ("dob" :> Number("c")) @@ ("title" :> Text("c")), "Person") :
       type \in {IF entity = "none" THEN "Person" ELSE entity, "none"}, v \in {"a", "b"}}
=============================================================================
