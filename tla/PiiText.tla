-------------------------------- MODULE PiiText --------------------------------
(***************************************************************************)
(* Tokens in a request, and values in an error body (services/pii_filter.py: *)
(* _substitute, detokenize, retokenize).  A text is a sequence of letters,    *)
(* each raw or in one of the codes a server may use, and of tokens, each with *)
(* literal or percent-encoded brackets.                                       *)
(***************************************************************************)
EXTENDS Naturals, Sequences, SequencesExt, Functions, TLC

CONSTANTS
    Spelling,     \* of a value: its letters
    Special,      \* of a code: the letters it writes differently
    Structural,   \* what is no text in a path as it is written: ? # % /
    Quote, Plus, Blank

Codes == {"raw", "pct", "html", "json"}
Letters == STRING
Letter(l, c) == [letter |-> l, code |-> c]
Tok(v, c) == [token |-> v, code |-> c]
IsTok(atom) == "token" \in DOMAIN atom
\* _QUOTE: ' or %27
IsQuote(atom) == ~IsTok(atom) /\ atom.letter = Quote /\ atom.code \in {"raw", "pct"}
\* A "mark" is a letter that a path is parted at, read by the other end.
Atoms == [letter : Letters, code : Codes \union {"mark"}]
         \union [token : DOMAIN Spelling, code : Codes]

\* A quote, a plus and a blank are different ones; a plus is percent-encoded, and so
\* is what parts a path.
ASSUME TextAssumption ==
    /\ \A v \in DOMAIN Spelling : Spelling[v] \in Seq(Letters)
    /\ {Quote, Plus, Blank} \subseteq Letters /\ Quote \notin {Plus, Blank} \union Structural
    /\ {Plus} \union Structural \subseteq Special["pct"]

\* quote, html.escape and json.dumps, of letters that are raw.
Coded(text, code) ==
    [i \in DOMAIN text |->
        IF ~IsTok(text[i]) /\ text[i].code = "raw" /\ text[i].letter \in Special[code]
        THEN [text[i] EXCEPT !.code = code] ELSE text[i]]
Raw(letters) == [i \in DOMAIN letters |-> Letter(letters[i], "raw")]
\* value.replace("'", "''")
Escaped(letters) ==
    FlattenSeq([i \in DOMAIN letters |->
        IF letters[i] = Quote THEN <<Quote, Quote>> ELSE <<letters[i]>>])

-----------------------------------------------------------------------------
\* Mutant: a token is inside a literal when a quote stands before it.
InLiteralAfterQuote(text, i) == i > 1 /\ IsQuote(text[i - 1])

\* in_literal: an odd number of quotes, raw or encoded, stands before the token.
InLiteral(text, i) == Cardinality({j \in 1..i - 1 : IsQuote(text[j])}) % 2 = 1

\* swap: what goes in for the token at i.
Inserted(text, i, encode) ==
    LET letters == Spelling[text[i].token]
        value == Raw(IF InLiteral(text, i) THEN Escaped(letters) ELSE letters)
    IN  IF encode \/ text[i].code # "raw" THEN Coded(value, "pct") ELSE value

Filled(text, With(_)) ==
    FlattenSeq([i \in DOMAIN text |-> IF IsTok(text[i]) THEN With(i) ELSE <<text[i]>>])

Detokenized(text, encode) == Filled(text, LAMBDA i : Inserted(text, i, encode))

\* The forms retokenize looks for: as sent, the literal unencoded, the plaintext
\* in any code, and each of these in a JSON body.
Forms(text, i, encode) ==
    LET letters == Spelling[text[i].token]
        plain == {Raw(letters), Coded(Raw(letters), "pct"), Coded(Raw(letters), "html"),
                  Inserted(text, i, encode)}
                 \union (IF InLiteral(text, i) THEN {Raw(Escaped(letters))} ELSE {})
    IN  plain \union {Coded(form, "json") : form \in plain}

\* substitutions: the form's token, that of the last one it is a form of.
Substitutions(text, encode) ==
    LET With(form) == {i \in DOMAIN text : IsTok(text[i]) /\ form \in Forms(text, i, encode)}
        forms == UNION {Forms(text, i, encode) : i \in {j \in DOMAIN text : IsTok(text[j])}}
    IN  [form \in forms |-> text[Max(With(form))]]

\* dict.update
Updated(old, new) ==
    [form \in DOMAIN old \union DOMAIN new |-> IF form \in DOMAIN new THEN new[form] ELSE old[form]]

TokensOf(text) == {text[i].token : i \in {j \in DOMAIN text : IsTok(text[j])}}

-----------------------------------------------------------------------------
\* str.replace: every occurrence from the left.
Replaced(text, plain, token) ==
    LET n == Len(plain)
        from[i \in 1..Len(text) + 1] ==
            IF i + n > Len(text) + 1 THEN SubSeq(text, i, Len(text))
            ELSE IF SubSeq(text, i, i + n - 1) = plain THEN <<token>> \o from[i + n]
            ELSE <<text[i]>> \o from[i + 1]
    IN  from[1]

\* Mutant: the longest last.
FinalLongest(forms) == CHOOSE form \in forms : \A other \in forms : Len(form) >= Len(other)

\* sorted(substitutions, key=len, reverse=True), of which the last.
Final(forms) == CHOOSE form \in forms : \A other \in forms : Len(form) <= Len(other)

\* retokenize
Retokenized(text, subs) ==
    LET after[forms \in SUBSET (DOMAIN subs \ {<<>>})] ==
            IF forms = {} THEN text
            ELSE LET plain == Final(forms) IN Replaced(after[forms \ {plain}], plain, subs[plain])
    IN  after[DOMAIN subs \ {<<>>}]

-----------------------------------------------------------------------------
(* The other end: how a server reads a request. *)

\* Of a query (parse_qsl) and of a path percent-codes are decoded, once; in a query a raw
\* plus is a blank, and a path ("head?query" again, split and parsed as a URL) is parted
\* at each raw ?, # and /, and a raw % may begin a code.  A parameter is sent as it is.
DecodedAtom(a, part) ==
    IF IsTok(a) THEN Tok(a.token, "raw")
    ELSE IF part # "param" /\ a.code = "pct" THEN Letter(a.letter, "raw")
    ELSE IF part = "query" /\ a = Letter(Plus, "raw") THEN Letter(Blank, "raw")
    ELSE IF part = "head" /\ a.code = "raw" /\ a.letter \in Structural THEN Letter(a.letter, "mark")
    ELSE a
Decoded(text, part) == [i \in DOMAIN text |-> DecodedAtom(text[i], part)]

\* A reader of OData expressions, '' being a quote inside a string literal: whether it
\* is in one or has perhaps come to its end, its text so far, and those read before.
Ends(atom) == atom = Letter(Quote, "raw")
Start == [at |-> "out", now |-> <<>>, done |-> <<>>]
Read(s, atom) ==
    CASE s.at = "out" /\ Ends(atom) -> [s EXCEPT !.at = "in", !.now = <<>>]
      [] s.at = "in" /\ Ends(atom) -> [s EXCEPT !.at = "end"]
      [] s.at = "in" /\ ~Ends(atom) -> [s EXCEPT !.now = Append(@, atom)]
      [] s.at = "end" /\ Ends(atom) -> [s EXCEPT !.at = "in", !.now = Append(@, atom)]
      [] s.at = "end" /\ ~Ends(atom) -> [s EXCEPT !.at = "out", !.done = Append(@, s.now)]
      [] OTHER -> s
Reading(text) ==
    LET after[n \in 0..Len(text)] == IF n = 0 THEN Start ELSE Read(after[n - 1], text[n])
    IN  after[Len(text)]

\* The string literals of an expression; the last may be open.
LiteralsOf(text) ==
    LET last == Read(Reading(text), Letter(Blank, "raw"))
    IN  IF last.at = "out" THEN last.done ELSE Append(last.done, <<Letter(Blank, "open")>>)

\* Every token stands where its value may: outside a literal a value is not empty, and
\* has no quote to begin one with; written as it is, it does not part a path; and a
\* parameter, which nobody decodes, has neither a token nor a quote in code.
Placed(text, part) ==
    \A i \in DOMAIN text :
       /\ part = "param" /\ (IsTok(text[i]) \/ IsQuote(text[i])) => text[i].code = "raw"
       /\ IsTok(text[i]) =>
             LET letters == Range(Spelling[text[i].token]) IN
             /\ part = "head" /\ text[i].code = "raw" => letters \intersect Structural = {}
             /\ Reading(Decoded(SubSeq(text, 1, i - 1), part)).at # "in" =>
                   Spelling[text[i].token] # <<>> /\ Quote \notin letters

\* A literal with its tokens read as the values they stand for.
Meant(literal) == Filled(literal, LAMBDA i : Raw(Spelling[literal[i].token]))
=============================================================================
