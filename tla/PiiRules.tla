------------------------------- MODULE PiiRules -------------------------------
(***************************************************************************)
(* Which values of a page become tokens (services/pii_filter.py): the map of *)
(* entities to the tiers of their fields, the filter's judgement of a field, *)
(* and the walk over OData records and Compound Employee leaves.             *)
(* A value is a string; a token is known by the value it stands for.  A        *)
(* record, with what is nested in it, is [type, cells]: both by place, which    *)
(* is the fields that lead to a nested record, and <<>> for the record itself.  *)
(***************************************************************************)
EXTENDS Naturals, Sequences

CONSTANTS
    BuiltIn,   \* entity |-> field |-> tier, "*" being an entity too
    Binary,    \* fields whose content is redacted
    Lower,     \* field names to their lower case
    Nothing

Fields == DOMAIN Lower

AnyEntity == "any"   \* None, as the entity of a v4 record whose type is unknown

\* What a map of entities to fields gives is a tier.  A mapped "Value" could be
\* tokenized twice, by its own rule and by its Name's.  No entity is named for none.
IsMap(map) ==
    /\ \A e \in DOMAIN map : \A f \in DOMAIN map[e] : f # "Value" /\ map[e][f] \in 1..3
    /\ DOMAIN map \intersect {"none", AnyEntity} = {}

ASSUME MapAssumption ==
    IsMap(BuiltIn) /\ "*" \in DOMAIN BuiltIn /\ {"Name", "Value"} \subseteq Fields
ASSUME LowerAssumption ==
    Lower \in [Fields -> Fields] /\ \A f \in Fields : Lower[Lower[f]] = Lower[f]

\* A key a record does not have; and the cells that hold one value.
Gone == [kind |-> "gone"]
Scalars == {"text", "number"}

FieldsOf(map, e) == IF e \in DOMAIN map THEN map[e] ELSE <<>>

-----------------------------------------------------------------------------
\* __init__: the system's pii_extra_fields on top of the built-in map.
Merged(extra) ==
    [e \in DOMAIN BuiltIn \union DOMAIN extra |->
        [f \in DOMAIN FieldsOf(extra, e) \union DOMAIN FieldsOf(BuiltIn, e) |->
            IF f \in DOMAIN FieldsOf(extra, e) THEN extra[e][f] ELSE BuiltIn[e][f]]]

\* tier_for: production is tier 3, a test system's default 1, and 0 no filter.
TierFor(config) ==
    IF config.production THEN 3 ELSE IF config.tier = Nothing THEN 1 ELSE config.tier

\* A filter: its tier and its map.
FilterOf(config) == [tier |-> TierFor(config), map |-> Merged(config.extra)]

Least(S) == CHOOSE n \in S : \A m \in S : n <= m

\* _any: the most sensitive tier of a field in any entity.
Tiers(map, f) == {map[e][f] : e \in {d \in DOMAIN map : f \in DOMAIN map[d]}}

\* The tiers the map has for a field: its entity's own, else those of "*".
Rule(map, entity, f) ==
    IF entity = AnyEntity THEN Tiers(map, f)
    ELSE IF f \in DOMAIN FieldsOf(map, entity) THEN {FieldsOf(map, entity)[f]}
    ELSE IF f \in DOMAIN map["*"] THEN {map["*"][f]} ELSE {}

\* Mutant: the filter's own tier is not looked at.
TierUnbounded(pii, entity, f) ==
    LET rule == Rule(pii.map, entity, f) IN IF rule # {} THEN Least(rule) ELSE 0

\* _tier: 0 for None.
Tier(pii, entity, f) ==
    LET rule == Rule(pii.map, entity, f)
    IN  IF rule # {} /\ Least(rule) <= pii.tier THEN Least(rule) ELSE 0

\* protects: what the query guard asks of a reference to a field, in any case of
\* letters; an entity the map does not know protects everything.
Protects(pii, entity, f) ==
    \/ entity # AnyEntity /\ entity \notin DOMAIN pii.map
    \/ \E g \in Fields : Lower[g] = Lower[f] /\ \E t \in Rule(pii.map, entity, g) : t <= pii.tier

\* _token
Token(tier, f, value) ==
    IF f \in Binary THEN [kind |-> "redacted", tier |-> tier]
                    ELSE [kind |-> "token", tier |-> tier, value |-> value]

-----------------------------------------------------------------------------
\* The entity a record is judged as, and whether nobody has reviewed it: its
\* type, or "top" for an untyped record; "none" where there is neither.
Judged(pii, type, top, v4, failClosed) ==
    LET own == IF type = "none" THEN top ELSE type
        known == own \in DOMAIN pii.map /\ own # "*"
    IN  IF failClosed THEN [unknown |-> ~known, entity |-> IF known THEN own ELSE "*"]
        ELSE [unknown |-> FALSE,
              entity |-> IF v4 /\ type \notin DOMAIN pii.map THEN AnyEntity
                         ELSE IF type = "none" THEN "*" ELSE type]

\* A {Name, Value} record: the value is judged by the field its name names.
Bagged(pii, unknown, out) ==
    LET name == out["Name"]  value == out["Value"]
        tier == Tier(pii, "*", name.value)
    IN  IF ~unknown /\ name.kind = "text" /\ value.kind \in Scalars /\ tier # 0
        THEN [out EXCEPT !["Value"] = Token(tier, name.value, value.value)] ELSE out

\* Mutant: the records below are walked under the asked entity too.
BelowInherited(top) == top

\* visit(value): an untyped record below has no entity to fall back on.
Below(top) == "none"

Places(record) == DOMAIN record.type

\* tokenize_records: visit, of the record and of each one nested in it.  Links go;
\* in an entity nobody has reviewed every string and list of strings is a token;
\* elsewhere the scalars the filter's tier covers.
Visit(pii, record, top, v4, failClosed) ==
    LET JudgedAt(p) ==
            Judged(pii, record.type[p], IF p = <<>> THEN top ELSE Below(top), v4, failClosed)
        Cell(p, f) ==
            LET cell == record.cells[p][f]
                judged == JudgedAt(p)
                tier == Tier(pii, judged.entity, f) IN
            CASE cell.kind = "link" -> Gone
              [] cell.kind \in {"text", "texts"} /\ judged.unknown -> Token(1, f, cell.value)
              [] cell.kind \in Scalars /\ tier # 0 /\ ~(cell.kind = "text" /\ judged.unknown) ->
                   Token(tier, f, cell.value)
              [] OTHER -> cell
    IN  [record EXCEPT !.cells = [p \in Places(record) |->
            Bagged(pii, JudgedAt(p).unknown, [f \in Fields |-> Cell(p, f)])]]

\* What a walk leaves pending for the vault.
Pending(record) ==
    UNION {LET cell == record.cells[p][f] IN IF cell.kind = "token" THEN {cell.value} ELSE {} :
             p \in Places(record), f \in Fields}

\* tokenize_xml, of one leaf: by its segment, and by nobody's review at tier 1
\* inside a CompoundEmployee.
Leaf(pii, leaf) ==
    LET tier == IF leaf.segment \in DOMAIN pii.map THEN Tier(pii, leaf.segment, leaf.field)
                ELSE IF leaf.inside THEN 1 ELSE Tier(pii, "*", leaf.field)
    IN  IF tier = 0 THEN [kind |-> "text", value |-> leaf.value]
                    ELSE Token(tier, leaf.field, leaf.value)
=============================================================================
