------------------------------- MODULE FilterIn -------------------------------
(***************************************************************************)
(* ODataClient.extract_by_filter_in (services/odata_client.py): the values  *)
(* of an IN filter are deduplicated and cut into chunks small enough for    *)
(* SuccessFactors and for the URL, and extract_all runs once per chunk, all *)
(* of them on one budget.                                                   *)
(***************************************************************************)
EXTENDS Integers, Sequences, SequencesExt

CONSTANTS
    Values,
    Inputs,         \* the value lists a caller may pass
    ChunkSizes,     \* the chunk_size arguments
    InLimit,        \* 1000: the values one $filter may hold
    MaxValues,      \* MAX_FILTER_VALUES
    Width,          \* encoded length of each value, its quotes included
    Around,         \* encoded length of the rest of the filter, an AND included
    Comma,          \* encoded length of a comma
    MaxLen,         \* _MAX_FILTER_ENCODED_LEN
    Allowance,      \* MAX_EXTRACT_BYTES
    MaxBytes        \* bound: bytes of one chunk's pages

ASSUME InputsAssumption == Inputs \subseteq Seq(Values) /\ Width \in [Values -> Nat]
ASSUME LimitsAssumption ==
    /\ {InLimit, MaxValues, Around, Comma, MaxLen, Allowance, MaxBytes} \subseteq Nat
    /\ ChunkSizes \subseteq Nat \ {0}

VARIABLES
    pc,         \* "start", "dedupe", "chunk", "fetch", "returned" or "raised"
    asked,      \* values, as the caller passed them
    values,     \* deduped
    chunkSize,
    next,       \* where the loop over asked, then the one over values, is
    first,      \* current = values[first..next-1]
    chunks,     \* the chunks closed so far: their first and last value
    spent,      \* bytes spent of the budget
    diagnostics \* stopped_reason of each chunk fetched

filterVars == <<pc, asked, values, chunkSize, next, first, chunks, spent, diagnostics>>

Reasons == {"exhausted", "max_pages", "http_error", "parse_error"}
Chunk == [first : Nat \ {0}, last : Nat \ {0}]

\* _encoded_len(_combined_filter(...)) of the values list[a..b]: the column, an
\* AND with the caller's own filter, the values and the commas between them.
EncodedLen(list, a, b) ==
    Around + Comma * (b - a) + MapThenSumSet(LAMBDA i : Width[list[i]], a..b)

Fits(list, a, b) == EncodedLen(list, a, b) <= MaxLen

-----------------------------------------------------------------------------
FilterInit ==
    /\ pc = "start"
    /\ asked \in Inputs /\ values = <<>>
    /\ chunkSize \in ChunkSizes
    /\ next = 1 /\ first = 1 /\ chunks = <<>>
    /\ spent = 0 /\ diagnostics = <<>>

\* The checks before the loops: chunk_size, and nothing to look up.
Begin ==
    /\ pc = "start"
    /\ pc' = IF chunkSize > InLimit THEN "raised"
             ELSE IF asked = <<>> THEN "returned" ELSE "dedupe"
    /\ UNCHANGED <<asked, values, chunkSize, next, first, chunks, spent, diagnostics>>

\* Mutant: a value is compared with the one before it only.
DedupeNeighbours ==
    /\ pc = "dedupe" /\ next <= Len(asked)
    /\ values' = IF values # <<>> /\ values[Len(values)] = asked[next]
                 THEN values ELSE Append(values, asked[next])
    /\ next' = next + 1
    /\ UNCHANGED <<pc, asked, chunkSize, first, chunks, spent, diagnostics>>

\* "Deduplicate while preserving order."
Dedupe ==
    /\ pc = "dedupe" /\ next <= Len(asked)
    /\ values' = IF \E i \in 1..Len(values) : values[i] = asked[next]
                 THEN values ELSE Append(values, asked[next])
    /\ next' = next + 1
    /\ UNCHANGED <<pc, asked, chunkSize, first, chunks, spent, diagnostics>>

\* max_filter_values
EndDedupe ==
    /\ pc = "dedupe" /\ next > Len(asked)
    /\ pc' = IF Len(values) > MaxValues THEN "raised" ELSE "chunk"
    /\ next' = 1
    /\ UNCHANGED <<asked, values, chunkSize, first, chunks, spent, diagnostics>>

\* Mutant: the length is looked at once it is passed.
FullLate ==
    first < next /\ (next - first + 1 > chunkSize \/ ~Fits(values, first, next - 1))

\* Mutant: a full chunk is closed with its last place still free.
FullEarly ==
    first < next /\ (next - first + 1 >= chunkSize \/ ~Fits(values, first, next))

\* over_count or over_length, with a non-empty current chunk.
Full ==
    first < next /\ (next - first + 1 > chunkSize \/ ~Fits(values, first, next))

\* The next value joins the current chunk, or closes it and opens the next.
Take ==
    /\ pc = "chunk" /\ next <= Len(values)
    /\ IF Full
       THEN /\ chunks' = Append(chunks, [first |-> first, last |-> next - 1])
            /\ first' = next
       ELSE UNCHANGED <<chunks, first>>
    /\ next' = next + 1
    /\ UNCHANGED <<pc, asked, values, chunkSize, spent, diagnostics>>

CloseLast ==
    /\ pc = "chunk" /\ next > Len(values)
    /\ chunks' = IF first < next
                 THEN Append(chunks, [first |-> first, last |-> next - 1])
                 ELSE chunks
    /\ pc' = "fetch"
    /\ UNCHANGED <<asked, values, chunkSize, next, first, spent, diagnostics>>

\* extract_all of the next chunk returns, whatever its stopped_reason.
Fetch(reason, bytes) ==
    /\ pc = "fetch" /\ Len(diagnostics) < Len(chunks)
    /\ spent + bytes <= Allowance
    /\ spent' = spent + bytes
    /\ diagnostics' = Append(diagnostics, reason)
    /\ UNCHANGED <<pc, asked, values, chunkSize, next, first, chunks>>

\* extract_all raises: over the budget, out of time, or its request does.
RaiseChunk ==
    /\ pc = "fetch" /\ Len(diagnostics) < Len(chunks)
    /\ pc' = "raised"
    /\ UNCHANGED <<asked, values, chunkSize, next, first, chunks, spent, diagnostics>>

Return ==
    /\ pc = "fetch" /\ Len(diagnostics) = Len(chunks)
    /\ pc' = "returned"
    /\ UNCHANGED <<asked, values, chunkSize, next, first, chunks, spent, diagnostics>>

FilterNext ==
    \/ Begin \/ Dedupe \/ EndDedupe \/ Take \/ CloseLast \/ RaiseChunk \/ Return
    \/ \E reason \in Reasons, bytes \in 0..MaxBytes : Fetch(reason, bytes)

FilterSpec == FilterInit /\ [][FilterNext]_filterVars

-----------------------------------------------------------------------------
\* Types of the lookup's lists, chunks and budget.
FilterTypeOK ==
    /\ pc \in {"start", "dedupe", "chunk", "fetch", "returned", "raised"}
    /\ values \in Seq(Values) /\ asked \in Inputs
    /\ chunkSize \in ChunkSizes
    /\ next \in Nat \ {0} /\ first \in 1..next
    /\ chunks \in Seq(Chunk)
    /\ spent \in Nat
    /\ diagnostics \in Seq(Reasons)

\* Chunks follow each other without a gap or an overlap, from the first value
\* to the last: no value is lost at a chunk boundary and none is sent twice.
ChunksTile ==
    /\ \A c \in 1..Len(chunks) :
          chunks[c].first = IF c = 1 THEN 1 ELSE chunks[c - 1].last + 1
    /\ pc \in {"fetch", "returned"} /\ chunks # <<>> => chunks[Len(chunks)].last = Len(values)
    /\ pc = "fetch" /\ values # <<>> => chunks # <<>>

\* What the caller asked for is what the chunks hold, each value once.
EachValueOnce ==
    pc \in {"chunk", "fetch"} =>
        /\ ToSet(values) = ToSet(asked)
        /\ \A i, j \in 1..Len(values) : values[i] = values[j] => i = j

\* A chunk is within SuccessFactors' value limit, and its filter, the caller's own
\* included, within the URL budget; only a single value too long for any URL is sent
\* anyway.  This is the filter the code sends, "column in 'a','b'" (_in_clause), cut by
\* its encoded length.  docs/ODATA.md:73-77 tells of another one, "col eq 'a' or col eq
\* 'b' or ..." without "in", whose length only chunk_size bounds: there a large
\* chunk_size may pass 8 KB and be answered with 414, here it only means that the
\* length decides.  The rest of the query string has what the budget leaves of the
\* URL, and is not counted.
ChunksFit ==
    \A c \in 1..Len(chunks) :
        LET a == chunks[c].first  b == chunks[c].last IN
        /\ a <= b /\ b - a + 1 <= InLimit
        /\ a = b \/ Fits(values, a, b)

\* No chunk ends before it must: the value behind it did not fit any more.
ChunksMaximal ==
    \A c \in 1..(Len(chunks) - 1) :
        LET a == chunks[c].first  b == chunks[c].last IN
        b - a + 1 = chunkSize \/ ~Fits(values, a, b + 1)

\* MAX_EXTRACT_BYTES bounds the whole call, not each chunk ("share one
\* allowance across its chunks").
OneBudget == spent <= Allowance

\* A caller sees one diagnostic per chunk: a chunk that failed is reported and
\* does not hide the ones after it.
EveryChunkReported == pc = "returned" => Len(diagnostics) = Len(chunks)

\* Nothing is left out between the caller's list and the report: the values are
\* those asked for, each once, the chunks hold all of them, and a lookup that
\* returns has a diagnostic for every chunk.
NothingLeftOut == EachValueOnce /\ ChunksTile /\ EveryChunkReported
=============================================================================
