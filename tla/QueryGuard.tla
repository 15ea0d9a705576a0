------------------------------ MODULE QueryGuard ------------------------------
(***************************************************************************)
(* Which queries are let through to a system with a PII filter               *)
(* (services/pii_query_guard.py), and what such a query can tell.  The client *)
(* writes an expression, the guard sees its scanned tokens, and the server    *)
(* evaluates the expression over its plain records.                           *)
(***************************************************************************)
EXTENDS PiiRules, PiiText

\* Scanned tokens (_SCAN): a name or path, a string, a punctuation mark.
Id(path) == [kind |-> "id", path |-> path]
Word(w) == Id(<<w>>)
Str(value, token) == [kind |-> "str", value |-> value, token |-> token]
Mark(c) == [kind |-> "punct", char |-> c]
Null == Word("null")
Comma == ","      \* between the elements of a list
Semicolon == ";"  \* between nested options

At(tokens, i, marks) == i \in DOMAIN tokens /\ tokens[i] \in {Mark(c) : c \in marks}

\* _OPS, and _AGG inside $apply and $compute.
Ops == {"and", "or", "eq", "ne", "gt", "in", "null", "asc", "desc"}
Agg == {"with", "as", "max"}
Keywords(option) == IF option \in {"apply", "compute"} THEN Ops \union Agg ELSE Ops

\* _refs: no keyword, no function name, no lambda variable's declaration.
Refs(tokens, keywords) ==
    {i \in DOMAIN tokens : /\ tokens[i].kind = "id" /\ Last(tokens[i].path) \notin keywords
                           /\ ~At(tokens, i + 1, {"(", ":"})}

\* _is_token: the whole string is one token.
IsTokenStr(tokens, i) == i \in DOMAIN tokens /\ tokens[i].kind = "str" /\ tokens[i].token

\* Mutant: of the list of an "in" the first element is looked at.
EqualityOnlyFirst(tokens, i) ==
    LET op == IF i + 1 \in DOMAIN tokens THEN tokens[i + 1] ELSE Mark("end")
        first == IF At(tokens, i + 2, {"("}) THEN i + 3 ELSE i + 2
    IN  \/ op \in {Word("eq"), Word("ne")} /\ (IsTokenStr(tokens, i + 2) \/ tokens[i + 2] = Null)
        \/ op = Word("in") /\ IsTokenStr(tokens, first)

\* _equality_only: eq or ne and a token or null, or "in" and a list of tokens.
EqualityOnly(tokens, i) ==
    LET op == IF i + 1 \in DOMAIN tokens THEN tokens[i + 1] ELSE Mark("end")
        paren == At(tokens, i + 2, {"("})
        first == IF paren THEN i + 3 ELSE i + 2
        IsList(last) ==
            /\ \A n \in first..last : IF (n - first) % 2 = 0 THEN IsTokenStr(tokens, n)
                                                             ELSE At(tokens, n, {Comma})
            /\ ~At(tokens, last + 1, {Comma})
            /\ paren => At(tokens, last + 1, {")"})
    IN  \/ /\ op \in {Word("eq"), Word("ne")}
           /\ IsTokenStr(tokens, i + 2) \/ (i + 2 \in DOMAIN tokens /\ tokens[i + 2] = Null)
        \/ /\ op = Word("in")
           /\ \E last \in first..Len(tokens) : (last - first) % 2 = 0 /\ IsList(last)

\* _check_expression: a path has no entity, its last segment is judged by all.
ExpressionRefused(pii, option, tokens, entity) ==
    \E i \in Refs(tokens, Keywords(option)) :
       LET path == tokens[i].path IN
       /\ Protects(pii, IF Len(path) = 1 THEN entity ELSE AnyEntity, Last(path))
       /\ option # "filter" \/ ~EqualityOnly(tokens, i)

Nested == {"filter", "orderby", "apply", "compute", "search"}

\* Where a nested option that starts at "from" stops: before a ")" or ";" of its depth.
StopOf(tokens, from) ==
    LET depth[j \in from..Len(tokens) + 1] ==
            IF j = from THEN 0
            ELSE IF tokens[j - 1] = Mark("(") THEN depth[j - 1] + 1
            ELSE IF tokens[j - 1] = Mark(")") THEN depth[j - 1] - 1
            ELSE depth[j - 1]
        stops == {j \in from..Len(tokens) : At(tokens, j, {")", Semicolon}) /\ depth[j] = 0}
    IN  IF stops = {} THEN Len(tokens) + 1 ELSE Least(stops)

\* _check_expand
ExpandRefused(pii, tokens) ==
    \E i \in DOMAIN tokens, name \in Nested :
       /\ tokens[i] = Word(name) /\ At(tokens, i + 1, {"="})
       /\ LET nested == SubSeq(tokens, i + 2, StopOf(tokens, i + 2) - 1) IN
          IF name = "search" THEN nested # <<>>
          ELSE ExpressionRefused(pii, name, nested, AnyEntity)

\* check_query, of one option; names are in lower case and without their "$".
OptionRefused(pii, name, tokens, entity) ==
    CASE name = "search" -> tokens # <<>>
      [] name = "expand" -> ExpandRefused(pii, tokens)
      [] name \in Nested \ {"search"} -> ExpressionRefused(pii, name, tokens, entity)
      [] OTHER -> FALSE

-----------------------------------------------------------------------------
(* The language: how the client's expressions are written, and read.          *)
(* An option is [name, paths, terms, join, below]: the paths it sorts by,      *)
(* groups by or computes with, or a $filter's terms, or what an $expand asks   *)
(* of the navigation property, no further $expand among it.                    *)

\* A path ends in no word of the language: the guard could not tell it from one.
Paths == {path \in Seq(Fields) : path # <<>> /\ Last(path) \notin Ops \union Agg}
Operands == {Null} \union [kind : {"id"}, path : Paths]
            \union [kind : {"str"}, value : DOMAIN Spelling, token : BOOLEAN]
Comparisons ==
    {t \in [path : Paths, form : {"compare", "reverse", "starts", "in", "in()"},
            op : {"eq", "ne", "gt", "in"}, with : Seq(Operands)] :
       t.form \in {"in", "in()"} \/ (t.op # "in" /\ Len(t.with) = 1)}
SimpleOptions ==
    [name : STRING \ {"expand"}, paths : Seq(Paths), terms : Seq(Comparisons),
     join : {"and", "or", "any"}, below : {<<>>}]
Expansions ==
    [name : {"expand"}, paths : {<<>>}, terms : {<<>>}, join : {"and"}, below : Seq(SimpleOptions)]

Joined(seqs, mark) ==
    FlattenSeq([i \in DOMAIN seqs |-> IF i = 1 THEN seqs[i] ELSE <<mark>> \o seqs[i]])

InParens(tokens) == <<Mark("(")>> \o tokens \o <<Mark(")")>>

Path(under, path) == Id(under \o path)

\* A term, under the variable of a lambda or none.
TermText(term, under) ==
    LET path == Path(under, term.path)
        list == Joined([i \in DOMAIN term.with |-> <<term.with[i]>>], Mark(Comma))
    IN  CASE term.form = "compare" -> <<path, Word(term.op)>> \o list
          [] term.form = "reverse" -> list \o <<Word(term.op), path>>
          [] term.form = "in" -> <<path, Word("in")>> \o list
          [] term.form = "in()" -> <<path, Word("in")>> \o InParens(list)
          [] term.form = "starts" ->
               <<Word("startswith")>> \o InParens(<<path, Mark(Comma)>> \o list)

\* An option other than $expand.
TextBelow(option) ==
    LET paths == Joined([i \in DOMAIN option.paths |-> <<Id(option.paths[i])>>], Mark(Comma))
        Terms(under) == Joined([i \in DOMAIN option.terms |-> TermText(option.terms[i], under)],
                               Word(IF option.join = "or" THEN "or" ELSE "and"))
    IN  CASE option.name = "filter" /\ option.join = "any" ->
               <<Id(<<"nav", "any">>)>> \o InParens(<<Word("e"), Mark(":")>> \o Terms(<<"e">>))
          [] option.name = "filter" /\ option.join # "any" -> Terms(<<>>)
          [] option.name = "orderby" -> paths \o <<Word("desc")>>
          [] option.name = "apply" ->
               <<Word("aggregate")>>
                  \o InParens(paths \o <<Word("with"), Word("max"), Word("as"), Word("uri")>>)
          [] option.name = "compute" ->
               <<Word("length")>> \o InParens(paths) \o <<Word("as"), Word("uri")>>
          [] OTHER -> paths

TextOf(option) ==
    LET Asked(o) == <<Word(o.name), Mark("=")>> \o TextBelow(o)
    IN  IF option.name # "expand" THEN TextBelow(option)
        ELSE <<Word("nav")>>
                \o InParens(Joined([i \in DOMAIN option.below |-> Asked(option.below[i])], Mark(Semicolon)))

\* The value a path leads to from a place in a record, field names in any case; or null.
ValueAt(record, at, path) ==
    LET place == at \o [i \in 1..Len(path) - 1 |-> Lower[path[i]]]
        field == Lower[Last(path)]
    IN  IF place \in Places(record) /\ record.cells[place][field].kind \in Scalars
        THEN record.cells[place][field].value ELSE Nothing

\* Longer strings stand for greater ones.
Greater(v, w) == v # Nothing /\ w # Nothing /\ Len(Spelling[v]) > Len(Spelling[w])

OperandAt(record, at, operand) ==
    CASE operand = Null -> Nothing
      [] operand.kind = "id" /\ operand # Null -> ValueAt(record, at, operand.path)
      [] OTHER -> operand.value

Compares(op, v, w) ==
    CASE op = "eq" -> v = w
      [] op = "ne" -> v # w
      [] op = "gt" -> Greater(v, w)

\* At a place; what it compares with is read at its record's, in a lambda too.
TermHolds(term, record, at, it) ==
    LET value == ValueAt(record, at, term.path)
        with == [i \in DOMAIN term.with |-> OperandAt(record, it, term.with[i])]
    IN  CASE term.form \in {"in", "in()"} -> \E i \in DOMAIN with : with[i] = value
          [] term.form = "starts" ->
               /\ value # Nothing /\ with[1] # Nothing
               /\ IsPrefix(Spelling[with[1]], Spelling[value])
          [] term.form = "compare" -> Compares(term.op, value, with[1])
          [] term.form = "reverse" -> Compares(term.op, with[1], value)

\* What the answer to an option tells of the record at a place: whether it is there,
\* its place in the answer, what is computed of it.
ToldAt(option, record, at) ==
    LET nav == Append(at, "nav")
        Holds(p) ==
            LET holds == {i \in DOMAIN option.terms : TermHolds(option.terms[i], record, p, at)}
            IN  IF option.join = "or" THEN holds # {} ELSE holds = DOMAIN option.terms
    IN  CASE option.name = "filter" /\ option.join = "any" ->
               <<nav \in Places(record) /\ Holds(nav)>>
          [] option.name = "filter" /\ option.join # "any" -> <<Holds(at)>>
          [] option.name \in {"orderby", "apply", "compute"} ->
               [i \in DOMAIN option.paths |-> ValueAt(record, at, option.paths[i])]
          [] option.name = "search" ->
               [i \in DOMAIN option.paths |->
                   {record.cells[p] : p \in {q \in Places(record) : IsPrefix(at, q)}}]
          [] OTHER -> <<>>

\* An $expand asks of the navigation property.
Told(option, record) ==
    IF option.name # "expand" THEN ToldAt(option, record, <<>>)
    ELSE IF <<"nav">> \notin Places(record) THEN <<>>
    ELSE FlattenSeq([i \in DOMAIN option.below |-> ToldAt(option.below[i], record, <<"nav">>)])

\* The values a query's tokens stand for.
Named(option) ==
    LET terms == UNION {ToSet(o.terms) : o \in {option} \union ToSet(option.below)}
    IN  {w.value : w \in {x \in UNION {ToSet(t.with) : t \in terms} : x.kind = "str" /\ x.token}}

\* The values in a record, those of records below excepted.
ValuesIn(record) ==
    {record.cells[<<>>][f].value : f \in {g \in Fields : record.cells[<<>>][g].kind \in Scalars}}

\* A record with w for v in each cell the walk turns into a token.
Exchanged(record, out, v, w) ==
    [record EXCEPT !.cells = [p \in Places(record) |-> [f \in Fields |->
        LET cell == record.cells[p][f] IN
        IF out.cells[p][f].kind \in {"token", "redacted"} /\ cell.value = v
        THEN [cell EXCEPT !.value = w] ELSE cell]]]
=============================================================================
