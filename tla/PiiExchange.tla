----------------------------- MODULE PiiExchange -----------------------------
(***************************************************************************)
(* What passes between an MCP client and one system through the PII filter   *)
(* (mcp_server.py: _pii_request, _pii_safe_error_body, tokenize_records at    *)
(* the end of odata_query; services/pii_filter.py, pii_query_guard.py): pages *)
(* come back with tokens, the client writes tokens into its next query, the   *)
(* guard looks at its options, the server answers it or echoes it.  The vault *)
(* is the set of the values it holds.                                         *)
(***************************************************************************)
EXTENDS QueryGuard

CONSTANTS
    Configs,       \* of the system: production, pii_filter_tier, pii_extra_fields
    Pages,         \* [record, top, v4, failClosed] that may be walked
    Leaves,        \* [segment, field, inside, value] of Compound Employee pages
    Requests(_),   \* what may be written with some tokens: text by part, and options
    Foreign,       \* a token of another system
    Answers(_)     \* records of an entity that a query may be answered with

\* SystemBase: pii_filter_tier and pii_extra_fields.
ASSUME ConfigsAssumption ==
    \A c \in Configs :
       c.production \in BOOLEAN /\ c.tier \in (0..3) \union {Nothing} /\ IsMap(c.extra)

\* Records with something nested at the places P; no page has another system's token.
Cells == {Gone, [kind |-> "link"], [kind |-> "nested"]}
         \union [kind : {"text", "texts", "number"}, value : DOMAIN Spelling \ {Foreign}]
Records(P) == [type : [P -> STRING], cells : [P -> [Fields -> Cells]]]

ASSUME PagesAssumption ==
    \A p \in Pages : p \in [record : Records(Places(p.record)), top : STRING,
                            v4 : BOOLEAN, failClosed : BOOLEAN]
ASSUME LeavesAssumption ==
    Leaves \subseteq [segment : STRING, field : STRING, inside : BOOLEAN,
                    value : DOMAIN Spelling \ {Foreign}]

\* What is written is text, whatever tokens it is written with.
ASSUME RequestsAssumption ==
    /\ Foreign \in DOMAIN Spelling
    /\ \A known \in SUBSET DOMAIN Spelling : \A r \in Requests(known) :
          {r.head, r.query, r.param} \subseteq Seq(Atoms)

Parts == {"head", "query", "param"}  \* of the path, up to and from the "?", and one of params

VARIABLES
    config, vault,
    step,
    page, shown,    \* a page or a leaf, and what the client got of it
    written, sent,  \* the request's parts, with tokens and without
    subs,           \* _substitute's substitutions
    body            \* of an error

exchangeVars == <<config, vault, step, page, shown, written, sent, subs, body>>
exchange == <<written, sent, subs, body>>

Pii == FilterOf(config)
Filtered == Pii.tier # 0     \* for_system: None at tier 0

ExchangeInit ==
    /\ config \in Configs /\ vault = {} /\ step = "idle"
    /\ page = Nothing /\ shown = Nothing
    /\ written = Nothing /\ sent = Nothing /\ subs = <<>> /\ body = Nothing

-----------------------------------------------------------------------------
\* A page is walked, its values saved, and it leaves; or the vault fails, and
\* nothing leaves.
Show(p, top, failClosed) ==
    LET out == IF Filtered THEN Visit(Pii, p.record, top, p.v4, failClosed) ELSE p.record IN
    \/ /\ page' = [p EXCEPT !.top = top, !.failClosed = failClosed] /\ shown' = out
       /\ vault' = vault \union Pending(out)
       /\ step' = "shown"
    \/ Filtered /\ step' = "idle" /\ UNCHANGED <<vault, page, shown>>

\* odata_query's results, or a page a plugin has.
ReadPage ==
    /\ step = "idle"
    /\ \E p \in Pages : Show(p, p.top, p.failClosed)
    /\ UNCHANGED <<config, exchange>>

\* compound_employee_query, of one leaf of a page.
ReadLeaf ==
    /\ step = "idle"
    /\ \E l \in Leaves :
          LET out == IF Filtered THEN Leaf(Pii, l) ELSE [kind |-> "text", value |-> l.value] IN
          /\ page' = l /\ shown' = out /\ step' = "shown"
          /\ vault' = vault \union (IF out.kind = "token" THEN {out.value} ELSE {})
    /\ UNCHANGED <<config, exchange>>

\* The client calls odata_query with tokens it has, or with one of another system.
Write ==
    /\ step = "idle"
    /\ written' \in Requests(vault \union {Foreign})
    /\ step' = "written"
    /\ UNCHANGED <<config, vault, page, shown, sent, subs, body>>

\* An entity, from the path's last resource segment; "none" behind a key predicate.
QueryEntity(path) ==
    IF \E i \in 1..Len(path) - 1 : path[i].keyed THEN "none" ELSE Last(path).name

\* _query_options: every option, of the path and of params, duplicates included.
QueryOptions(request) == request.inPath \o request.inParams

\* What is asked is an expression of the language; and what is answered is of the entity
\* asked, what is below of entities somebody has reviewed, and has no property bags.
IsRow(row, entity) ==
    /\ <<>> \in Places(row) /\ row \in Records(Places(row))
    /\ entity # "none" => row.type[<<>>] \in {"none", entity}
    /\ \A p \in Places(row) \ {<<>>} : row.type[p] \in DOMAIN BuiltIn \ {"*"}
    /\ \A p \in Places(row) : row.cells[p]["Value"] = Gone
ASSUME QueriesAssumption ==
    /\ Nothing \notin DOMAIN Spelling
    /\ \A known \in SUBSET DOMAIN Spelling : \A r \in Requests(known) :
          LET entity == QueryEntity(r.path) IN
          /\ ToSet(QueryOptions(r)) \subseteq SimpleOptions \union Expansions
          /\ entity \notin {"*", AnyEntity} /\ \A row \in Answers(entity) : IsRow(row, entity)

AllTokens(request) ==
    UNION {TokensOf(request[part]) : part \in Parts}
      \union UNION {Named(option) : option \in ToSet(QueryOptions(request))}

\* check_query, of what was written and not of what it was resolved to.
Guarded(request) ==
    \E option \in ToSet(QueryOptions(request)) :
       OptionRefused(Pii, option.name, TextOf(option), QueryEntity(request.path))

\* detokenize, of each part: a token the vault does not have aborts the request.
Unknown(request) == AllTokens(request) \ vault

\* encode=True for the half of the path that is parsed as a query string.
Encodes(part) == part = "query"

\* odata_query up to its first await: _pii_request, then the guard.
PiiRequest ==
    /\ step = "written"
    /\ IF ~Filtered
       THEN sent' = written /\ step' = "sent" /\ UNCHANGED subs
       ELSE IF Unknown(written) # {} \/ Guarded(written)
       THEN step' = "refused" /\ UNCHANGED <<sent, subs>>
       ELSE /\ sent' = [part \in Parts |-> Detokenized(written[part], Encodes(part))]
            /\ LET Of(part) == Substitutions(written[part], Encodes(part))
               IN  subs' = Updated(Updated(Of("head"), Of("query")), Of("param"))
            /\ step' = "sent"
    /\ UNCHANGED <<config, vault, page, shown, written, body>>

\* A part of the request as a server may echo it: each value as it was sent, as
\* the literal unencoded, or as the plaintext in a code, maybe in a JSON body.
EchoedAs(text, encode, how, code, i) ==
    CASE how = "sent" -> Inserted(text, i, encode)
      [] how = "literal" /\ InLiteral(text, i) -> Raw(Escaped(Spelling[text[i].token]))
      [] OTHER -> Coded(Raw(Spelling[text[i].token]), code)
Echoes(part) ==
    {Coded(Filled(written[part], LAMBDA i : EchoedAs(written[part], Encodes(part), how, code, i)), in) :
        how \in {"sent", "literal", "plain"}, code \in Codes \ {"json"}, in \in {"raw", "json"}}

\* _pii_safe_error_body of a fault: the request's tokens over what is echoed.
Fault ==
    /\ step = "sent" /\ Filtered
    /\ \E part \in Parts : \E echo \in Echoes(part) : body' = Retokenized(echo, subs)
    /\ step' = "answered"
    /\ UNCHANGED <<config, vault, page, shown, written, sent, subs>>

\* Its other half: the failed request succeeded in the second call.  The body is
\* walked like a page, without an entity; one that is no page is withheld.
Detail ==
    /\ step = "sent" /\ \A part \in Parts : written[part] = <<>>
    /\ QueryOptions(written) = <<>>
    /\ \/ \E p \in Pages : Show(p, "none", TRUE)
       \/ step' = "idle" /\ UNCHANGED <<vault, page, shown>>
    /\ UNCHANGED <<config, exchange>>

\* The exchange is over.
Done ==
    /\ step \in {"shown", "refused", "answered", "sent"}
    /\ step' = "idle" /\ page' = Nothing /\ shown' = Nothing
    /\ written' = Nothing /\ sent' = Nothing /\ subs' = <<>> /\ body' = Nothing
    /\ UNCHANGED <<config, vault>>

ExchangeNext == ReadPage \/ ReadLeaf \/ Write \/ PiiRequest \/ Fault \/ Detail \/ Done

ExchangeSpec == ExchangeInit /\ [][ExchangeNext]_exchangeVars

-----------------------------------------------------------------------------
IsRecord == step = "shown" /\ "record" \in DOMAIN page

TokenKinds == {"token", "redacted"}

\* Only values are kept, and only where the filter is on; a token always has a
\* tier the filter covers, a failed-closed one tier 1.
ExchangeTypeOK ==
    /\ config \in Configs /\ vault \subseteq DOMAIN Spelling \ {Foreign}
    /\ step \in {"idle", "shown", "written", "sent", "refused", "answered"}
    /\ ~Filtered => vault = {} /\ subs = <<>>
    /\ IsRecord => \A p \in Places(shown), f \in Fields :
          shown.cells[p][f].kind \in TokenKinds => shown.cells[p][f].tier \in 1..Pii.tier

\* The guard and the walk agree: whatever options are let through, what the
\* server's answer tells of a record does not change when a value the walk shows
\* as a token is exchanged for another, unless the query names one of the two.
\* (A property bag's Value, which the guard knows by no name, stays out of this.)
OnlyEqualityTold ==
    step = "sent" /\ Filtered =>
       \A option \in ToSet(QueryOptions(written)), row \in Answers(QueryEntity(written.path)) :
          LET out == Visit(Pii, row, QueryEntity(written.path), FALSE, TRUE)
              others == ValuesIn(row) \ Named(option)
          IN  \A v, w \in others :
                 Told(option, Exchanged(row, out, v, w)) = Told(option, row)

\* A text that is left as it was, at any depth, is in an entity somebody has
\* reviewed, by its own type or as the one asked for, and is under no rule of it.
LeftPlain(record, out, entity) ==
    \A p \in Places(record), f \in Fields :
       LET own == IF record.type[p] = "none" /\ p = <<>> THEN entity ELSE record.type[p] IN
       /\ out.cells[p][f].kind = "text" =>
             /\ own \in DOMAIN Pii.map
             /\ \A t \in Rule(Pii.map, own, f) : t > Pii.tier
       /\ out.cells[p][f].kind # "link"

\* Entities and segments nobody has reviewed fail closed: in a page walked so, no
\* text is left but what LeftPlain allows; a Compound Employee leaf keeps its text
\* only in a segment of the map, or outside a CompoundEmployee.
FailsClosed ==
    /\ IsRecord /\ Filtered /\ page.failClosed => LeftPlain(page.record, shown, page.top)
    /\ step = "shown" /\ Filtered /\ ~IsRecord /\ shown.kind = "text" =>
          \/ page.segment \in DOMAIN Pii.map
          \/ ~page.inside

\* A request means to the server what it meant to its writer: its string literals
\* hold the values their tokens stand for, a quote or a plus in a value neither
\* ends a literal nor changes it, and no token goes out.  Where that cannot be, Placed
\* says: a value goes in as it is outside of a literal, and in a path, where a ?, #, %
\* or / of it parts the request (only a token with coded brackets is encoded there);
\* and in_literal counts a %27 of a parameter, though to the server it is no quote.
SentAsMeant ==
    step = "sent" /\ Filtered =>
       \A part \in Parts :
          LET before == LiteralsOf(Decoded(written[part], part))
          IN  /\ TokensOf(sent[part]) = {}
              /\ Placed(written[part], part) =>
                    LiteralsOf(Decoded(sent[part], part))
                       = [i \in DOMAIN before |-> Meant(before[i])]

\* Of a form that retokenize looks for nothing is left in an error body, and the tokens
\* it shows are the request's own.
FormsHidden ==
    step = "answered" =>
       /\ TokensOf(body) \subseteq UNION {TokensOf(written[part]) : part \in Parts}
       /\ \A part \in Parts : \A i \in DOMAIN written[part] : IsTok(written[part][i]) =>
             \A form \in Forms(written[part], i, Encodes(part)) \ {<<>>} :
                \A k \in 0..Len(body) - Len(form) : SubSeq(body, k + 1, k + Len(form)) # form

\* An error body that echoes the request shows tokens where its values were: nothing
\* is left of a value, not a part of it either, in the codes the comments in
\* _substitute name, even where a value contains another.
EchoHidesValues ==
    /\ FormsHidden
    /\ step = "answered" =>
          \A i \in DOMAIN body : ~IsTok(body[i]) =>
             \A v \in AllTokens(written) :
                body[i].letter \notin {Spelling[v][j] : j \in DOMAIN Spelling[v]} \ {Quote}
=============================================================================
