---------------------------- MODULE ExtractProofs ----------------------------
(***************************************************************************)
(* Proofs about the extracts: about ExtractAll, for any number of records,  *)
(* page size, page and byte limits and number of resumed calls, and about   *)
(* FilterIn, for any values, widths, limits and lists.  The invariant of    *)
(* the first says that the next request starts at the record after the last *)
(* one delivered.  What a filter's encoded length is does not matter to the *)
(* proofs of the second: Fits is any property of a stretch of the list.     *)
(***************************************************************************)
EXTENDS ExtractAll, FilterIn, SequenceTheorems, TLAPS

-----------------------------------------------------------------------------
(* The paging of one extract *)

\* Where the extract is, and the $skip that goes with its requests: on v2 the caller's
\* own, if any.
OnTrack ==
    /\ version = "v2" => params.skip \in {0, start}
    /\ Straight =>
          /\ start + Len(delivered) <= Total
          /\ stopped = "running" => Position(params) = start + Len(delivered)

\* A v2 extract that may be resumed has its token: no other v2 link is followed.
TokenOnV2 == stopped = "max_pages" /\ version = "v2" => nextToken # None

IInv ==
    /\ TypeOK /\ NoGapNoRepeat /\ OnTrack /\ TokenOnV2
    /\ ResumesAtNextRecord /\ ExhaustedIsComplete

\* Appending the next n numbers to the numbers behind start keeps them in order.
LEMMA Extend ==
    ASSUME NEW s \in Nat, NEW n \in Nat, NEW d \in Seq(Nat),
           d = [i \in 1..Len(d) |-> s + i],
           NEW more, more = [i \in 1..n |-> s + Len(d) + i]
    PROVE  /\ d \o more \in Seq(Nat)
           /\ Len(d \o more) = Len(d) + n
           /\ d \o more = [i \in 1..Len(d \o more) |-> s + i]
<1>1. more \in Seq(Nat) /\ Len(more) = n
  OBVIOUS
<1>2. /\ d \o more \in Seq(Nat)
      /\ Len(d \o more) = Len(d) + n
      /\ \A i \in 1..(Len(d) + n) :
            (d \o more)[i] = IF i <= Len(d) THEN d[i] ELSE more[i - Len(d)]
  BY <1>1, ConcatProperties
<1>3. \A i \in 1..(Len(d) + n) : (d \o more)[i] = s + i
  <2> SUFFICES ASSUME NEW i \in 1..(Len(d) + n) PROVE (d \o more)[i] = s + i
    OBVIOUS
  <2>1. CASE i <= Len(d)
    BY <1>2, <2>1
  <2>2. CASE ~(i <= Len(d))
    <3>1. (d \o more)[i] = more[i - Len(d)] /\ i - Len(d) \in 1..n
      BY <1>2, <2>2
    <3> QED BY <3>1
  <2> QED BY <2>1, <2>2
<1>4. d \o more = [i \in 1..(Len(d) + n) |-> (d \o more)[i]]
  BY <1>2, SeqDef
<1> QED BY <1>2, <1>3, <1>4

LEMMA IInvInit == Init => IInv
<1> USE BoundsAssumption, FormsAssumption, NoneAssumption
<1> SUFFICES ASSUME Init PROVE IInv
  OBVIOUS
<1> USE DEF Init
<1>1. TypeOK
  BY DEF TypeOK, Options
<1>2. NoGapNoRepeat /\ ResumesAtNextRecord /\ ExhaustedIsComplete
  BY DEF NoGapNoRepeat, ResumesAtNextRecord, ExhaustedIsComplete
<1>3. OnTrack /\ TokenOnV2
  BY DEF OnTrack, Position, TokenOnV2
<1> QED BY <1>1, <1>2, <1>3 DEF IInv

\* What a link may be.
LEMMA LinkTypes ==
    ASSUME TypeOK, NEW n \in Sizes, NEW link \in Links(n)
    PROVE  /\ n \in 0..MaxSize /\ Position(params) \in Nat
           /\ link.form \in {"token", "skip", "other", "none"} /\ link.at \in Nat
           /\ link.form = "none" =>
                 Position(params) + n >= Total \/ n = MaxSize
           /\ link.form # "none" =>
                 link.at = Position(params) + n /\ link.at < Total
<1> USE BoundsAssumption, FormsAssumption, NoneAssumption
<1>1. n \in 0..MaxSize /\ n \in Nat /\ Total \in Nat
  BY DEF Sizes
<1>2. Position(params) \in Nat
  BY DEF Position, TypeOK, Options
<1>3. LinkForms[version] \subseteq {"token", "skip", "other"}
  BY DEF TypeOK
<1> DEFINE at == Position(params) + n
<1>4. at \in Nat
  BY <1>1, <1>2
<1>5. \/ at < Total /\ link \in [form : LinkForms[version], at : {at}]
      \/ (~(at < Total) \/ n = MaxSize) /\ link = [form |-> "none", at |-> 0]
  BY DEF Links
<1> HIDE DEF at
<1>6. CASE at < Total /\ link \in [form : LinkForms[version], at : {at}]
  <2>1. link.form \in {"token", "skip", "other"} /\ link.at = at
    BY <1>3, <1>6
  <2> QED BY <1>1, <1>2, <1>4, <1>6, <2>1 DEF at
<1>7. CASE (~(at < Total) \/ n = MaxSize) /\ link = [form |-> "none", at |-> 0]
  <2>1. link.form = "none" /\ link.at = 0
    BY <1>7
  <2>2. at >= Total \/ n = MaxSize
    BY <1>1, <1>4, <1>7
  <2> QED BY <1>1, <1>2, <2>1, <2>2 DEF at
<1> QED BY <1>5, <1>6, <1>7

\* What a page adds to the records of a caller that finds its way, and where its link
\* points.
LEMMA PageEnd ==
    ASSUME IInv, NEW n \in Sizes, NEW link \in Links(n), Page(n, link), Straight
    PROVE  /\ Len(delivered') = Len(delivered) + n
           /\ delivered' = [i \in 1..Len(delivered') |-> start + i]
           /\ start + Len(delivered') <= Total
           /\ link.form = "none" =>
                 start + Len(delivered') >= Total \/ n = MaxSize
           /\ link.form # "none" =>
                 link.at = start + Len(delivered') /\ link.at < Total
<1> USE BoundsAssumption, FormsAssumption, NoneAssumption
<1> USE DEF IInv, Running
<1>1. /\ n \in Nat /\ start + Len(delivered) + n <= Total /\ start \in Nat
      /\ Len(delivered) \in Nat /\ Position(params) = start + Len(delivered)
  BY DEF Page, Sizes, OnTrack, TypeOK
<1>2. /\ delivered' \in Seq(Nat)
      /\ Len(delivered') = Len(delivered) + n
      /\ delivered' = [i \in 1..Len(delivered') |-> start + i]
  <2>1. delivered' = delivered \o [i \in 1..n |-> start + Len(delivered) + i]
    BY <1>1 DEF Page
  <2> QED BY <1>1, <2>1, Extend DEF TypeOK, NoGapNoRepeat
<1>3. Position(params) + n = start + Len(delivered')
  BY <1>1, <1>2
<1> QED BY <1>1, <1>2, <1>3, LinkTypes

\* The types after a page, whatever the caller does.
LEMMA PageTypes ==
    ASSUME TypeOK, NEW n \in Sizes, NEW link \in Links(n), Page(n, link)
    PROVE  TypeOK'
<1> USE BoundsAssumption, FormsAssumption, NoneAssumption
<1>1. /\ n \in 0..MaxSize /\ Position(params) \in Nat /\ link.at \in Nat
      /\ link.form \in {"token", "skip", "other", "none"}
  BY LinkTypes
<1>2. /\ UNCHANGED <<version, addsSkip, caller, start, calls>>
      /\ pages' = pages + 1 /\ pages < MaxPages
  BY DEF Page, Running, inputs
<1>3. left' \in Int /\ left' >= 0
  BY DEF Page, Paid, TypeOK
<1>4. stopped' \in {"running", "exhausted", "max_pages"}
  BY DEF Page, Verdict
<1>5. nextToken' \in Options
  BY <1>1 DEF Page, Options
<1>6. params' \in [skip : Nat, token : Options]
  <2>1. Moved(link) \in [skip : Nat, token : Options]
    BY <1>1 DEF Moved, TypeOK, Options
  <2> QED BY <2>1 DEF Page, TypeOK
<1>7. delivered' \in Seq(Nat)
  <2>1. [i \in 1..n |-> Position(params) + i] \in Seq(Nat)
    BY <1>1
  <2> QED BY <2>1, ConcatProperties DEF Page, TypeOK
<1>8. last' \in [size : 0..MaxSize, form : {"token", "skip", "other", "none"}]
  BY <1>1 DEF Page
<1> QED BY <1>2, <1>3, <1>4, <1>5, <1>6, <1>7, <1>8 DEF TypeOK

\* A page brings the extract to the record behind it.
LEMMA PageStep ==
    ASSUME IInv, NEW n \in Sizes, NEW link \in Links(n), Page(n, link)
    PROVE  IInv'
<1> USE BoundsAssumption, FormsAssumption, NoneAssumption
<1>1. /\ UNCHANGED <<version, addsSkip, caller, start>> /\ last' = [size |-> n, form |-> link.form]
      /\ stopped' = Verdict(link, pages + 1)
      /\ nextToken' = IF stopped' = "max_pages" /\ link.form = "token" THEN link.at ELSE None
      /\ params' = IF stopped' = "running" THEN Moved(link) ELSE params
  BY DEF Page, inputs
<1>2. Straight' <=> Straight
  BY <1>1 DEF Straight
<1>3. TypeOK'
  BY PageTypes DEF IInv
<1>4. /\ version \in {"v2", "v4"} /\ start \in Nat /\ Len(delivered') \in Nat
      /\ addsSkip \in BOOLEAN /\ params \in [skip : Nat, token : Options] /\ link.at \in Nat
      /\ link.form \in {"token", "skip", "other", "none"}
  BY <1>1, <1>3, LinkTypes DEF IInv, TypeOK
<1>5. version = "v2" => params'.skip = params.skip
  BY <1>1, <1>4 DEF Moved
<1>6. stopped' \in {"running", "max_pages"} => Followable(link)
  BY <1>1 DEF Verdict
<1>7. stopped' = "exhausted" => ~Followable(link)
  BY <1>1 DEF Verdict
<1>10. TokenOnV2'
  BY <1>1, <1>4, <1>6 DEF TokenOnV2, Followable
<1>8. CASE ~Straight
  BY <1>1, <1>2, <1>3, <1>4, <1>5, <1>8, <1>10
     DEF IInv, OnTrack, NoGapNoRepeat, ResumesAtNextRecord, ExhaustedIsComplete
<1>9. CASE Straight
  <2>1. /\ delivered' = [i \in 1..Len(delivered') |-> start + i]
        /\ start + Len(delivered') <= Total
        /\ link.form = "none" => start + Len(delivered') >= Total \/ n = MaxSize
        /\ link.form # "none" => link.at = start + Len(delivered') /\ link.at < Total
    BY <1>9, PageEnd
  <2>2. ASSUME stopped' = "running" PROVE Position(params)' = start' + Len(delivered')
    <3>1. Followable(link) /\ params' = Moved(link)
      BY <1>1, <1>6, <2>2
    <3>2. link.at = start + Len(delivered') /\ link.at # None
      BY <1>4, <2>1, <3>1 DEF Followable
    <3>3. CASE version = "v2"
      <4>1. params' = [params EXCEPT !.token = link.at]
        BY <3>1, <3>3 DEF Moved
      <4>2. params'.token = link.at /\ params'.skip = params.skip
        BY <1>4, <4>1
      <4>3. addsSkip => params.skip = 0
        <5>1. params.skip \in {0, start}
          BY <3>3 DEF IInv, OnTrack
        <5> QED BY <1>9, <3>3, <5>1 DEF Straight
      <4> QED BY <1>1, <1>4, <3>2, <4>2, <4>3 DEF Position
    <3>4. CASE version = "v4" /\ link.form = "token"
      <4>1. params' = [skip |-> 0, token |-> link.at]
        BY <3>1, <3>4 DEF Moved
      <4> QED BY <1>1, <1>4, <3>2, <4>1 DEF Position
    <3>5. CASE version = "v4" /\ link.form = "skip"
      <4>1. params' = [skip |-> link.at, token |-> None]
        BY <3>1, <3>5 DEF Moved
      <4> QED BY <1>1, <1>4, <3>2, <4>1 DEF Position
    <3> QED BY <1>4, <3>1, <3>3, <3>4, <3>5 DEF Followable
  <2>3. NoGapNoRepeat' /\ OnTrack'
    BY <1>1, <1>5, <2>1, <2>2 DEF NoGapNoRepeat, OnTrack, IInv
  <2>4. ResumesAtNextRecord'
    BY <1>1, <1>4, <1>6, <2>1 DEF ResumesAtNextRecord, Followable
  <2>5. ExhaustedIsComplete'
    BY <1>1, <1>4, <1>7, <2>1 DEF ExhaustedIsComplete, Followable
  <2> QED BY <1>3, <1>10, <2>3, <2>4, <2>5 DEF IInv
<1> QED BY <1>8, <1>9

\* A resumed call begins at the record behind the last one delivered.
LEMMA ResumeStep == IInv /\ Resume => IInv'
<1> USE BoundsAssumption, FormsAssumption, NoneAssumption
<1> SUFFICES ASSUME IInv, Resume PROVE IInv'
  OBVIOUS
<1>1. /\ UNCHANGED <<version, addsSkip, caller, start, delivered, last>>
      /\ stopped = "max_pages" /\ stopped' = "running" /\ nextToken' = None
      /\ calls' = calls + 1 /\ calls < MaxCalls /\ pages' = 0 /\ left' = Budget
  BY DEF Resume, inputs
<1>2. /\ version \in {"v2", "v4"} /\ start \in Nat /\ Len(delivered) \in Nat
      /\ nextToken \in Options /\ caller.counts \in {"records", "position"}
      /\ addsSkip \in BOOLEAN /\ caller.keeps \in BOOLEAN
  BY DEF IInv, TypeOK
<1>3. CASE nextToken # None
  <2>1. params' = [skip |-> IF caller.keeps THEN start ELSE 0, token |-> nextToken]
    BY <1>3 DEF Resume
  <2>2. params'.skip \in {0, start} /\ params'.token = nextToken
    BY <2>1
  <2>3. Straight => (addsSkip => params'.skip = 0)
    BY <1>2, <2>1 DEF Straight
  <2>4. Straight => nextToken = start + Len(delivered)
    BY <1>1, <1>3 DEF IInv, ResumesAtNextRecord
  <2>5. Straight' => Position(params)' = start + Len(delivered)
    BY <1>1, <1>2, <1>3, <2>2, <2>3, <2>4 DEF Position, Straight
  <2>6. TypeOK'
    BY <1>1, <1>2, <2>1 DEF IInv, TypeOK, Options
  <2>7. OnTrack'
    BY <1>1, <2>2, <2>5 DEF IInv, OnTrack, Straight
  <2> QED BY <1>1, <2>6, <2>7
          DEF IInv, NoGapNoRepeat, ResumesAtNextRecord, ExhaustedIsComplete, TokenOnV2, Straight
<1>4. CASE nextToken = None
  <2>1. params' = [skip |-> Len(delivered) + (IF caller.counts = "position" THEN start ELSE 0),
                   token |-> None]
    BY <1>4 DEF Resume
  <2>2. params'.skip = Len(delivered) + (IF caller.counts = "position" THEN start ELSE 0)
        /\ params'.token = None
    BY <2>1
  <2>3. TypeOK'
    <3>1. params'.skip \in Nat
      BY <1>2, <2>2
    <3>2. params' \in [skip : Nat, token : Options]
      BY <2>1, <2>2, <3>1 DEF Options
    <3> QED BY <1>1, <3>2 DEF IInv, TypeOK, Options
  <2>4. Straight => params'.skip = start + Len(delivered)
    <3>1. Straight => version = "v4"
      BY <1>1, <1>4 DEF IInv, ResumesAtNextRecord
    <3> QED BY <1>2, <2>2, <3>1 DEF Straight
  <2>5. Straight' => Position(params)' = start + Len(delivered)
    BY <1>1, <2>2, <2>4 DEF Position, Straight
  <2>6. version = "v2" => params'.skip \in {0, start}
    BY <2>2, <1>4, <1>1 DEF IInv, TokenOnV2
  <2>7. OnTrack'
    BY <1>1, <2>5, <2>6 DEF IInv, OnTrack, Straight
  <2> QED BY <1>1, <2>3, <2>7
          DEF IInv, NoGapNoRepeat, ResumesAtNextRecord, ExhaustedIsComplete, TokenOnV2, Straight
<1> QED BY <1>3, <1>4

LEMMA IInvStep == IInv /\ [Next]_vars => IInv'
<1> USE BoundsAssumption, FormsAssumption, NoneAssumption
<1> SUFFICES ASSUME IInv, [Next]_vars PROVE IInv'
  OBVIOUS
<1> USE DEF IInv, TypeOK, Options, NoGapNoRepeat, OnTrack, ResumesAtNextRecord,
            ExhaustedIsComplete, TokenOnV2, Straight, Position, inputs
<1>1. CASE OutOfBytes
  BY <1>1 DEF OutOfBytes, Running
<1>2. CASE Raise
  BY <1>2 DEF Raise, Running
<1>3. ASSUME NEW reason \in {"http_error", "parse_error"}, Fail(reason) PROVE IInv'
  BY <1>3 DEF Fail, Paid, Running
<1>4. CASE UNCHANGED vars
  BY <1>4 DEF vars
<1> QED BY <1>1, <1>2, <1>3, <1>4, PageStep, ResumeStep DEF Next, Step

LEMMA IInvHolds == Spec => []IInv
  BY IInvInit, IInvStep, PTL DEF Spec

\* Types of the extract's state.
THEOREM TypeCorrect == Spec => []TypeOK
  BY IInvHolds, PTL DEF IInv

\* extract_all and its resumed calls deliver every record behind start in turn, to every
\* caller that starts at the first record, and to one that does not under what Straight
\* asks of the server and of its resuming.
THEOREM Contiguous == Spec => []NoGapNoRepeat
  BY IInvHolds, PTL DEF IInv

\* After max_pages there is more, and next_skiptoken is where; without one, the last
\* link was a v4 link by $skip.
THEOREM ResumePoint == Spec => []ResumesAtNextRecord
  BY IInvHolds, PTL DEF IInv

\* "exhausted" means complete, but for a link that is not followed and for a full page
\* without one.
THEOREM Complete == Spec => []ExhaustedIsComplete
  BY IInvHolds, PTL DEF IInv

-----------------------------------------------------------------------------
(* An extract by the values of a filter *)

Chunking == {"chunk", "fetch", "returned"}

\* The duplicates are gone from the part of the caller's list gone through.
DedupedSoFar ==
    /\ pc = "dedupe" =>
          /\ next <= Len(asked) + 1
          /\ \A i \in 1..(next - 1) : \E j \in 1..Len(values) : values[j] = asked[i]
          /\ \A j \in 1..Len(values) : \E i \in 1..(next - 1) : values[j] = asked[i]
    /\ pc \in {"chunk", "fetch"} =>
          /\ \A i \in 1..Len(asked) : \E j \in 1..Len(values) : values[j] = asked[i]
          /\ \A j \in 1..Len(values) : \E i \in 1..Len(asked) : values[j] = asked[i]
    /\ \A i, j \in 1..Len(values) : values[i] = values[j] => i = j

\* Before the chunk loop there is no chunk, before the fetches no diagnostic.
NothingEarly ==
    /\ pc \in {"start", "dedupe"} => chunks = <<>> /\ first = 1
    /\ pc \in {"start", "dedupe", "chunk"} => diagnostics = <<>>
    /\ pc \in {"dedupe", "chunk", "fetch"} => chunkSize <= InLimit
    /\ pc = "start" => values = <<>> /\ next = 1
    /\ pc \in {"dedupe", "chunk", "fetch"} => asked # <<>>
    /\ Len(diagnostics) <= Len(chunks)

\* The current chunk begins where the last one ended, and fits.
CurrentChunk ==
    pc = "chunk" =>
        /\ next <= Len(values) + 1
        /\ first = IF chunks = <<>> THEN 1 ELSE chunks[Len(chunks)].last + 1
        /\ first < next =>
              /\ next - first <= chunkSize
              /\ next - first = 1 \/ Fits(values, first, next - 1)
        /\ first = next => first = 1 /\ chunks = <<>>
        /\ chunks # <<>> =>
              LET a == chunks[Len(chunks)].first  b == chunks[Len(chunks)].last IN
              b - a + 1 = chunkSize \/ ~Fits(values, a, b + 1)

FilterIInv ==
    /\ FilterTypeOK /\ DedupedSoFar /\ NothingEarly /\ CurrentChunk
    /\ ChunksTile /\ ChunksFit /\ ChunksMaximal /\ OneBudget /\ EveryChunkReported

USE InputsAssumption, LimitsAssumption

\* A sequence with one element more.
LEMMA Appended ==
    ASSUME NEW S, NEW s \in Seq(S), NEW e \in S
    PROVE  /\ Append(s, e) \in Seq(S) /\ Len(Append(s, e)) = Len(s) + 1
           /\ \A i \in 1..Len(s) : Append(s, e)[i] = s[i]
           /\ Append(s, e)[Len(s) + 1] = e
           /\ Append(s, e) # <<>>
  OBVIOUS

LEMMA FilterIInvInit == FilterInit => FilterIInv
<1> SUFFICES ASSUME FilterInit PROVE FilterIInv
  OBVIOUS
<1> USE DEF FilterInit
<1>1. FilterTypeOK
  BY DEF FilterTypeOK, Reasons, Chunk
<1>2. DedupedSoFar /\ NothingEarly /\ CurrentChunk
  BY DEF DedupedSoFar, NothingEarly, CurrentChunk
<1>3. ChunksTile /\ ChunksFit /\ ChunksMaximal /\ OneBudget /\ EveryChunkReported
  BY DEF ChunksTile, ChunksFit, ChunksMaximal, OneBudget, EveryChunkReported
<1> QED BY <1>1, <1>2, <1>3 DEF FilterIInv

LEMMA BeginStep == FilterIInv /\ Begin => FilterIInv'
<1> SUFFICES ASSUME FilterIInv, Begin PROVE FilterIInv'
  OBVIOUS
<1> USE DEF FilterIInv, Begin, FilterTypeOK, NothingEarly
<1>1. chunks = <<>> /\ diagnostics = <<>> /\ Len(chunks) = 0 /\ values = <<>>
  OBVIOUS
<1>2. FilterTypeOK' /\ NothingEarly'
  BY <1>1
<1>3. CurrentChunk'
  <2>1. pc' # "chunk"
    OBVIOUS
  <2> QED BY <2>1 DEF CurrentChunk
<1>4. DedupedSoFar'
  BY <1>1 DEF DedupedSoFar
<1>5. (ChunksTile /\ ChunksFit /\ ChunksMaximal /\ OneBudget /\ EveryChunkReported)'
  BY <1>1 DEF ChunksTile, ChunksFit, ChunksMaximal, OneBudget, EveryChunkReported
<1> QED BY <1>2, <1>3, <1>4, <1>5

LEMMA DedupeStep == FilterIInv /\ Dedupe => FilterIInv'
<1> SUFFICES ASSUME FilterIInv, Dedupe PROVE FilterIInv'
  OBVIOUS
<1>1. /\ FilterTypeOK /\ OneBudget
      /\ chunks = <<>> /\ diagnostics = <<>> /\ first = 1
      /\ chunkSize <= InLimit /\ asked # <<>> /\ pc = "dedupe"
  BY DEF FilterIInv, Dedupe, NothingEarly
<1>2. /\ asked \in Seq(Values) /\ values \in Seq(Values)
      /\ next \in Nat \ {0} /\ next <= Len(asked) /\ asked[next] \in Values
  BY <1>1 DEF FilterTypeOK, Dedupe
<1>3. next' = next + 1 /\ UNCHANGED <<pc, asked, chunkSize, first, chunks, spent, diagnostics>>
  BY DEF Dedupe
<1>4. /\ \A i \in 1..(next - 1) : \E j \in 1..Len(values) : values[j] = asked[i]
      /\ \A j \in 1..Len(values) : \E i \in 1..(next - 1) : values[j] = asked[i]
      /\ \A i, j \in 1..Len(values) : values[i] = values[j] => i = j
  BY <1>1 DEF FilterIInv, DedupedSoFar
<1>5. /\ values' \in Seq(Values)
      /\ \A i \in 1..next : \E j \in 1..Len(values') : values'[j] = asked[i]
      /\ \A j \in 1..Len(values') : \E i \in 1..next : values'[j] = asked[i]
      /\ \A i, j \in 1..Len(values') : values'[i] = values'[j] => i = j
  <2>1. CASE \E i \in 1..Len(values) : values[i] = asked[next]
    <3>1. values' = values
      BY <2>1 DEF Dedupe
    <3>2. \A i \in 1..next : i = next \/ i \in 1..(next - 1)
      BY <1>2
    <3>3. 1..(next - 1) \subseteq 1..next
      BY <1>2
    <3>4. ASSUME NEW i \in 1..next PROVE \E j \in 1..Len(values) : values[j] = asked[i]
      <4>1. CASE i = next
        BY <2>1, <4>1
      <4>2. CASE i \in 1..(next - 1)
        BY <1>4, <4>2
      <4> QED BY <3>2, <4>1, <4>2
    <3>5. ASSUME NEW j \in 1..Len(values) PROVE \E i \in 1..next : values[j] = asked[i]
      <4>1. PICK i \in 1..(next - 1) : values[j] = asked[i]
        BY <1>4
      <4> QED BY <3>3, <4>1
    <3> QED BY <1>2, <1>4, <3>1, <3>4, <3>5
  <2>2. CASE ~\E i \in 1..Len(values) : values[i] = asked[next]
    <3> DEFINE n == Len(values)
    <3>1. values' = Append(values, asked[next])
      BY <2>2 DEF Dedupe
    <3>2. /\ values' \in Seq(Values) /\ Len(values') = n + 1
          /\ \A i \in 1..n : values'[i] = values[i]
          /\ values'[n + 1] = asked[next]
      BY <1>2, <3>1, Appended
    <3>0. n \in Nat /\ next \in Nat \ {0}
      BY <1>2
    <3> HIDE DEF n
    <3>3. /\ n \in Nat /\ n + 1 \in 1..(n + 1) /\ next \in 1..next
          /\ \A i \in 1..(n + 1) : i = n + 1 \/ i \in 1..n
          /\ \A i \in 1..next : i = next \/ i \in 1..(next - 1)
          /\ 1..n \subseteq 1..(n + 1) /\ 1..(next - 1) \subseteq 1..next
      BY <3>0
    <3>4. ASSUME NEW i \in 1..next PROVE \E j \in 1..(n + 1) : values'[j] = asked[i]
      <4>1. CASE i = next
        BY <3>2, <3>3, <4>1
      <4>2. CASE i \in 1..(next - 1)
        <5>1. PICK j \in 1..n : values[j] = asked[i]
          BY <1>4, <4>2 DEF n
        <5> QED BY <3>2, <3>3, <5>1
      <4> QED BY <3>3, <4>1, <4>2
    <3>5. ASSUME NEW j \in 1..(n + 1) PROVE \E i \in 1..next : values'[j] = asked[i]
      <4>1. CASE j = n + 1
        BY <3>2, <3>3, <4>1
      <4>2. CASE j \in 1..n
        <5>1. PICK i \in 1..(next - 1) : values[j] = asked[i]
          BY <1>4, <4>2 DEF n
        <5> QED BY <3>2, <3>3, <4>2, <5>1
      <4> QED BY <3>3, <4>1, <4>2
    <3>6. ASSUME NEW i \in 1..(n + 1), NEW j \in 1..(n + 1), values'[i] = values'[j]
          PROVE  i = j
      <4>1. \A k \in 1..n : values[k] # asked[next]
        BY <2>2 DEF n
      <4>2. CASE i \in 1..n /\ j \in 1..n
        BY <1>4, <3>2, <3>6, <4>2 DEF n
      <4>3. CASE i = n + 1 \/ j = n + 1
        BY <3>2, <3>3, <3>6, <4>1, <4>3
      <4> QED BY <3>3, <4>2, <4>3
    <3> QED BY <3>2, <3>4, <3>5, <3>6
  <2> QED BY <2>1, <2>2
<1>6. DedupedSoFar'
  <2>1. next' - 1 = next /\ next' <= Len(asked') + 1
    BY <1>2, <1>3
  <2> QED BY <1>1, <1>3, <1>5, <2>1 DEF DedupedSoFar
<1> QED BY <1>1, <1>2, <1>3, <1>5, <1>6 DEF FilterIInv, FilterTypeOK, NothingEarly, CurrentChunk, ChunksTile,
           ChunksFit, ChunksMaximal, OneBudget, EveryChunkReported

LEMMA EndDedupeStep == FilterIInv /\ EndDedupe => FilterIInv'
<1> SUFFICES ASSUME FilterIInv, EndDedupe PROVE FilterIInv'
  OBVIOUS
<1>1. /\ FilterTypeOK /\ OneBudget /\ DedupedSoFar
      /\ chunks = <<>> /\ diagnostics = <<>> /\ first = 1
      /\ chunkSize <= InLimit /\ asked # <<>> /\ pc = "dedupe"
  BY DEF FilterIInv, EndDedupe, NothingEarly
<1>2. /\ asked \in Seq(Values) /\ values \in Seq(Values)
      /\ next \in Nat \ {0} /\ next = Len(asked) + 1
  BY <1>1 DEF FilterTypeOK, EndDedupe, DedupedSoFar
<1>3. /\ UNCHANGED <<asked, values, chunkSize, first, chunks, spent, diagnostics>>
      /\ next' = 1 /\ pc' \in {"raised", "chunk"}
  BY DEF EndDedupe
<1>4. Len(asked) = next - 1
  BY <1>2
<1>5. DedupedSoFar'
  BY <1>1, <1>3, <1>4 DEF DedupedSoFar
<1>6. FilterTypeOK' /\ NothingEarly' /\ CurrentChunk'
  BY <1>1, <1>2, <1>3 DEF FilterTypeOK, NothingEarly, CurrentChunk
<1>7. (ChunksTile /\ ChunksFit /\ ChunksMaximal /\ OneBudget /\ EveryChunkReported)'
  BY <1>1, <1>3 DEF ChunksTile, ChunksFit, ChunksMaximal, OneBudget, EveryChunkReported
<1> QED BY <1>5, <1>6, <1>7 DEF FilterIInv

\* What closing the current chunk keeps, in the loop and behind it.
LEMMA Closing ==
    ASSUME FilterIInv, pc = "chunk", first < next,
           chunks' = Append(chunks, [first |-> first, last |-> next - 1]),
           chunkSize' = chunkSize, values' = values
    PROVE  /\ chunks' \in Seq(Chunk) /\ Len(chunks') = Len(chunks) + 1
           /\ chunks'[Len(chunks')] = [first |-> first, last |-> next - 1]
           /\ \A c \in 1..Len(chunks') :
                 chunks'[c].first = IF c = 1 THEN 1 ELSE chunks'[c - 1].last + 1
           /\ ChunksFit' /\ ChunksMaximal'
<1> DEFINE e == [first |-> first, last |-> next - 1]
           n == Len(chunks)
<1>1. /\ next \in Nat \ {0} /\ first \in 1..next /\ chunks \in Seq(Chunk)
      /\ n \in Nat /\ chunkSize <= InLimit /\ chunkSize \in Nat
  BY LimitsAssumption DEF FilterIInv, FilterTypeOK, NothingEarly
<1>2. e \in Chunk /\ e.first = first /\ e.last = next - 1
  BY <1>1 DEF Chunk
<1>3. /\ first = IF chunks = <<>> THEN 1 ELSE chunks[n].last + 1
      /\ next - first <= chunkSize
      /\ next - first = 1 \/ Fits(values, first, next - 1)
      /\ chunks # <<>> =>
            LET a == chunks[n].first  b == chunks[n].last IN
            b - a + 1 = chunkSize \/ ~Fits(values, a, b + 1)
  BY DEF FilterIInv, CurrentChunk
<1>4. /\ \A c \in 1..n : chunks[c].first = IF c = 1 THEN 1 ELSE chunks[c - 1].last + 1
      /\ \A c \in 1..n :
            LET a == chunks[c].first  b == chunks[c].last IN
            /\ a <= b /\ b - a + 1 <= InLimit
            /\ a = b \/ Fits(values, a, b)
      /\ \A c \in 1..(n - 1) :
            LET a == chunks[c].first  b == chunks[c].last IN
            b - a + 1 = chunkSize \/ ~Fits(values, a, b + 1)
  BY DEF FilterIInv, ChunksTile, ChunksFit, ChunksMaximal
<1>5. /\ chunks' \in Seq(Chunk) /\ Len(chunks') = n + 1
      /\ \A i \in 1..n : chunks'[i] = chunks[i]
      /\ chunks'[n + 1] = e
  <2> HIDE DEF e
  <2> QED BY <1>1, <1>2, Appended DEF e
<1>6. \A c \in 1..(n + 1) : c = n + 1 \/ c \in 1..n
  BY <1>1
<1>7. chunks = <<>> <=> n = 0
  BY <1>1
<1> HIDE DEF n, e
<1>8. ASSUME NEW c \in 1..(n + 1)
      PROVE  chunks'[c].first = IF c = 1 THEN 1 ELSE chunks'[c - 1].last + 1
  <2>1. CASE c = n + 1
    <3>1. CASE n = 0
      BY <1>2, <1>3, <1>5, <1>7, <2>1, <3>1
    <3>2. CASE n # 0
      <4>1. n \in 1..n /\ c - 1 = n /\ c # 1
        BY <1>1, <2>1, <3>2
      <4> QED BY <1>2, <1>3, <1>5, <1>7, <2>1, <3>2, <4>1
    <3> QED BY <3>1, <3>2
  <2>2. CASE c \in 1..n
    <3>1. c = 1 \/ c - 1 \in 1..n
      BY <1>1, <2>2
    <3> QED BY <1>4, <1>5, <2>2, <3>1
  <2> QED BY <1>6, <2>1, <2>2
<1>9. ChunksFit'
  <2> SUFFICES ASSUME NEW c \in 1..(n + 1)
      PROVE  /\ chunks'[c].first <= chunks'[c].last
             /\ chunks'[c].last - chunks'[c].first + 1 <= InLimit
             /\ \/ chunks'[c].first = chunks'[c].last
                \/ Fits(values, chunks'[c].first, chunks'[c].last)
    BY <1>5 DEF ChunksFit
  <2>1. CASE c = n + 1
    <3>1. chunks'[c].first = first /\ chunks'[c].last = next - 1
      BY <1>2, <1>5, <2>1
    <3>2. next - 1 - first + 1 <= InLimit
      <4>1. InLimit \in Nat
        BY LimitsAssumption
      <4>2. next - first <= chunkSize
        BY <1>3
      <4>3. next \in Nat /\ first \in Nat /\ chunkSize \in Nat /\ chunkSize <= InLimit
        BY <1>1
      <4> QED BY <4>1, <4>2, <4>3
    <3>3. first = next - 1 \/ Fits(values, first, next - 1)
      <4>1. next - first = 1 => first = next - 1
        BY <1>1
      <4> QED BY <1>3, <4>1
    <3>4. first <= next - 1
      BY <1>1
    <3> QED BY <3>1, <3>2, <3>3, <3>4
  <2>2. CASE c \in 1..n
    <3>1. chunks'[c] = chunks[c]
      BY <1>5, <2>2
    <3> QED BY <1>4, <2>2, <3>1
  <2> QED BY <1>6, <2>1, <2>2
<1>10. ChunksMaximal'
  <2> SUFFICES ASSUME NEW c \in 1..n
      PROVE  \/ chunks'[c].last - chunks'[c].first + 1 = chunkSize
             \/ ~Fits(values, chunks'[c].first, chunks'[c].last + 1)
    <3>1. Len(chunks') - 1 = n
      BY <1>1, <1>5
    <3> QED BY <3>1 DEF ChunksMaximal
  <2>1. CASE c = n
    <3>1. chunks'[c] = chunks[n] /\ chunks # <<>>
      BY <1>1, <1>5, <1>7, <2>1
    <3> QED BY <1>3, <3>1
  <2>2. CASE c \in 1..(n - 1)
    <3>1. chunks'[c] = chunks[c]
      BY <1>5
    <3> QED BY <1>4, <2>2, <3>1
  <2>3. c = n \/ c \in 1..(n - 1)
    BY <1>1
  <2> QED BY <2>1, <2>2, <2>3
<1> QED BY <1>5, <1>8, <1>9, <1>10 DEF e

LEMMA TakeStep == FilterIInv /\ Take => FilterIInv'
<1> SUFFICES ASSUME FilterIInv, Take PROVE FilterIInv'
  OBVIOUS
<1>1. /\ pc = "chunk" /\ diagnostics = <<>> /\ chunkSize <= InLimit /\ asked # <<>>
      /\ UNCHANGED <<pc, asked, values, chunkSize, spent, diagnostics>>
      /\ next' = next + 1 /\ next <= Len(values)
  BY DEF FilterIInv, NothingEarly, Take
<1>2. /\ next \in Nat \ {0} /\ first \in 1..next /\ values \in Seq(Values)
      /\ chunkSize \in Nat \ {0} /\ chunks \in Seq(Chunk) /\ Len(chunks) \in Nat
  BY LimitsAssumption DEF FilterIInv, FilterTypeOK
<1>3. DedupedSoFar'
  BY <1>1 DEF FilterIInv, DedupedSoFar
<1>4. (OneBudget /\ EveryChunkReported)'
  BY <1>1 DEF FilterIInv, OneBudget, EveryChunkReported
<1>5. CASE Full
  <2>1. /\ first < next /\ first' = next
        /\ chunks' = Append(chunks, [first |-> first, last |-> next - 1])
        /\ next - first + 1 > chunkSize \/ ~Fits(values, first, next)
    BY <1>5 DEF Take, Full
  <2>2. /\ chunks' \in Seq(Chunk) /\ Len(chunks') = Len(chunks) + 1
        /\ chunks'[Len(chunks')] = [first |-> first, last |-> next - 1]
        /\ \A c \in 1..Len(chunks') :
              chunks'[c].first = IF c = 1 THEN 1 ELSE chunks'[c - 1].last + 1
        /\ ChunksFit' /\ ChunksMaximal'
    BY <1>1, <2>1, Closing
  <2>3. chunks' # <<>> /\ Len(chunks') \in Nat \ {0}
    BY <1>2, <2>2
  <2>4. FilterTypeOK'
    BY <1>1, <1>2, <2>1, <2>2 DEF FilterIInv, FilterTypeOK
  <2>5. NothingEarly' /\ ChunksTile'
    BY <1>1, <2>2, <2>3 DEF NothingEarly, ChunksTile
  <2>6. CurrentChunk'
    <3> DEFINE l == chunks'[Len(chunks')]
    <3>1. l.first = first /\ l.last = next - 1
      BY <2>2
    <3>2. next - first <= chunkSize
      BY <2>1, <1>1 DEF FilterIInv, CurrentChunk
    <3>3. \/ l.last - l.first + 1 = chunkSize
          \/ ~Fits(values, l.first, l.last + 1)
      <4>1. CASE next - first + 1 > chunkSize
        BY <1>2, <3>1, <3>2, <4>1
      <4>2. CASE ~Fits(values, first, next)
        <5>1. l.last + 1 = next
          BY <1>2, <3>1
        <5> QED BY <3>1, <4>2, <5>1
      <4> QED BY <2>1, <4>1, <4>2
    <3>4. first' = l.last + 1 /\ next' - first' = 1 /\ first' < next' /\ 1 <= chunkSize
      BY <1>1, <1>2, <2>1, <3>1
    <3>5. next' <= Len(values) + 1 /\ first' # next'
      BY <1>1, <1>2, <2>1
    <3> HIDE DEF l
    <3>6. values' = values /\ chunkSize' = chunkSize
      BY <1>1
    <3> QED BY <2>3, <3>3, <3>4, <3>5, <3>6 DEF CurrentChunk, l
  <2> QED BY <1>3, <1>4, <2>2, <2>4, <2>5, <2>6 DEF FilterIInv
<1>6. CASE ~Full
  <2>1. chunks' = chunks /\ first' = first
    BY <1>6 DEF Take
  <2>2. FilterTypeOK' /\ NothingEarly'
    <3>1. first \in 1..(next + 1)
      BY <1>2
    <3> QED BY <1>1, <1>2, <2>1, <3>1 DEF FilterIInv, FilterTypeOK, NothingEarly
  <2>3. (ChunksTile /\ ChunksFit /\ ChunksMaximal)'
    BY <1>1, <2>1 DEF FilterIInv, ChunksTile, ChunksFit, ChunksMaximal
  <2>4. CurrentChunk'
    <3>1. next' - first' <= chunkSize /\ (next' - first' = 1 \/ Fits(values, first', next' - 1))
      <4>1. CASE first = next
        BY <1>1, <1>2, <2>1, <4>1
      <4>2. CASE first < next
        <5>1. ~(next - first + 1 > chunkSize) /\ Fits(values, first, next)
          BY <1>6, <4>2 DEF Full
        <5>2. next' - 1 = next /\ first' = first /\ next' - first' <= chunkSize
          BY <1>1, <1>2, <2>1, <5>1
        <5> QED BY <5>1, <5>2
      <4> QED BY <1>2, <4>1, <4>2
    <3>2. first' < next' /\ first' # next' /\ next' <= Len(values) + 1
      <4>1. next' = next + 1 /\ first' = first /\ first <= next /\ first \in Nat
        BY <1>1, <1>2, <2>1
      <4>2. Len(values) \in Nat /\ next <= Len(values) /\ next \in Nat /\ values' = values
        BY <1>1, <1>2
      <4> QED BY <4>1, <4>2
    <3>3. /\ first = IF chunks = <<>> THEN 1 ELSE chunks[Len(chunks)].last + 1
          /\ chunks # <<>> =>
                LET a == chunks[Len(chunks)].first  b == chunks[Len(chunks)].last IN
                b - a + 1 = chunkSize \/ ~Fits(values, a, b + 1)
      BY <1>1 DEF FilterIInv, CurrentChunk
    <3>4. UNCHANGED <<values, chunkSize, chunks, first>>
      BY <1>1, <2>1
    <3> QED BY <3>1, <3>2, <3>3, <3>4 DEF CurrentChunk
  <2> QED BY <1>3, <1>4, <2>2, <2>3, <2>4 DEF FilterIInv
<1> QED BY <1>5, <1>6

LEMMA CloseLastStep == FilterIInv /\ CloseLast => FilterIInv'
<1> SUFFICES ASSUME FilterIInv, CloseLast PROVE FilterIInv'
  OBVIOUS
<1>1. /\ pc = "chunk" /\ pc' = "fetch" /\ diagnostics = <<>> /\ chunkSize <= InLimit
      /\ asked # <<>>
      /\ UNCHANGED <<asked, values, chunkSize, next, first, spent, diagnostics>>
      /\ next > Len(values)
  BY DEF FilterIInv, NothingEarly, CloseLast
<1>2. /\ next \in Nat \ {0} /\ first \in 1..next /\ values \in Seq(Values)
      /\ chunks \in Seq(Chunk) /\ Len(chunks) \in Nat
  BY DEF FilterIInv, FilterTypeOK
<1>3. next <= Len(values) + 1
  BY <1>1 DEF FilterIInv, CurrentChunk
<1>4. next - 1 = Len(values)
  BY <1>1, <1>2, <1>3
<1>5. DedupedSoFar' /\ CurrentChunk'
  BY <1>1 DEF FilterIInv, DedupedSoFar, CurrentChunk
<1>6. (OneBudget /\ EveryChunkReported)'
  BY <1>1 DEF FilterIInv, OneBudget, EveryChunkReported
<1>7. CASE first < next
  <2>1. chunks' = Append(chunks, [first |-> first, last |-> next - 1])
    BY <1>7 DEF CloseLast
  <2>2. /\ chunks' \in Seq(Chunk) /\ Len(chunks') = Len(chunks) + 1
        /\ chunks'[Len(chunks')] = [first |-> first, last |-> next - 1]
        /\ \A c \in 1..Len(chunks') :
              chunks'[c].first = IF c = 1 THEN 1 ELSE chunks'[c - 1].last + 1
        /\ ChunksFit' /\ ChunksMaximal'
    BY <1>1, <1>7, <2>1, Closing
  <2>3. chunks' # <<>> /\ Len(chunks') \in Nat /\ chunks'[Len(chunks')].last = Len(values)
    BY <1>2, <1>4, <2>2
  <2>4. FilterTypeOK' /\ NothingEarly'
    BY <1>1, <1>2, <2>2, <2>3 DEF FilterIInv, FilterTypeOK, NothingEarly
  <2>5. ChunksTile'
    BY <1>1, <2>2, <2>3 DEF ChunksTile
  <2> QED BY <1>5, <1>6, <2>2, <2>4, <2>5 DEF FilterIInv
<1>8. CASE first = next
  <2>1. chunks' = chunks /\ chunks = <<>> /\ first = 1
    BY <1>1, <1>8 DEF FilterIInv, CurrentChunk, CloseLast
  <2>2. values = <<>>
    BY <1>2, <1>4, <1>8, <2>1
  <2>3. FilterTypeOK' /\ NothingEarly'
    BY <1>1, <1>2, <2>1 DEF FilterIInv, FilterTypeOK, NothingEarly
  <2>4. (ChunksTile /\ ChunksFit /\ ChunksMaximal)'
    BY <1>1, <2>1, <2>2 DEF ChunksTile, ChunksFit, ChunksMaximal
  <2> QED BY <1>5, <1>6, <2>3, <2>4 DEF FilterIInv
<1> QED BY <1>2, <1>7, <1>8

LEMMA FetchStep ==
    ASSUME FilterIInv, NEW reason \in Reasons, NEW bytes \in 0..MaxBytes, Fetch(reason, bytes)
    PROVE  FilterIInv'
<1>1. /\ pc = "fetch" /\ Len(diagnostics) < Len(chunks)
      /\ spent + bytes <= Allowance /\ spent' = spent + bytes
      /\ diagnostics' = Append(diagnostics, reason)
      /\ UNCHANGED <<pc, asked, values, chunkSize, next, first, chunks>>
  BY DEF Fetch
<1>2. /\ diagnostics \in Seq(Reasons) /\ spent \in Nat /\ chunks \in Seq(Chunk)
  BY DEF FilterIInv, FilterTypeOK
<1>3. bytes \in Nat
  BY LimitsAssumption
<1>4. /\ diagnostics' \in Seq(Reasons) /\ spent' \in Nat /\ spent' <= Allowance
      /\ Len(diagnostics') = Len(diagnostics) + 1
  BY <1>1, <1>2, <1>3
<1>5. Len(diagnostics') <= Len(chunks')
  BY <1>1, <1>2, <1>4
<1>6. FilterTypeOK' /\ NothingEarly' /\ OneBudget' /\ EveryChunkReported'
  BY <1>1, <1>4, <1>5 DEF FilterIInv, FilterTypeOK, NothingEarly, OneBudget, EveryChunkReported
<1>7. DedupedSoFar' /\ CurrentChunk'
  BY <1>1 DEF FilterIInv, DedupedSoFar, CurrentChunk
<1>8. (ChunksTile /\ ChunksFit /\ ChunksMaximal)'
  BY <1>1 DEF FilterIInv, ChunksTile, ChunksFit, ChunksMaximal
<1> QED BY <1>6, <1>7, <1>8 DEF FilterIInv

LEMMA EndStep == FilterIInv /\ (RaiseChunk \/ Return) => FilterIInv'
<1> SUFFICES ASSUME FilterIInv, RaiseChunk \/ Return PROVE FilterIInv'
  OBVIOUS
<1>1. /\ pc = "fetch" /\ pc' \in {"raised", "returned"}
      /\ UNCHANGED <<asked, values, chunkSize, next, first, chunks, spent, diagnostics>>
      /\ pc' = "returned" => Len(diagnostics) = Len(chunks)
  BY DEF RaiseChunk, Return
<1>2. FilterTypeOK' /\ NothingEarly' /\ OneBudget' /\ EveryChunkReported'
  BY <1>1 DEF FilterIInv, FilterTypeOK, NothingEarly, OneBudget, EveryChunkReported
<1>3. DedupedSoFar' /\ CurrentChunk'
  BY <1>1 DEF FilterIInv, DedupedSoFar, CurrentChunk
<1>4. (ChunksTile /\ ChunksFit /\ ChunksMaximal)'
  BY <1>1 DEF FilterIInv, ChunksTile, ChunksFit, ChunksMaximal
<1> QED BY <1>2, <1>3, <1>4 DEF FilterIInv

LEMMA StutterStep == FilterIInv /\ UNCHANGED filterVars => FilterIInv'
<1> SUFFICES ASSUME FilterIInv, UNCHANGED filterVars PROVE FilterIInv'
  OBVIOUS
<1>1. UNCHANGED <<pc, asked, values, chunkSize, next, first, chunks, spent, diagnostics>>
  BY DEF filterVars
<1>2. FilterTypeOK' /\ NothingEarly' /\ OneBudget' /\ EveryChunkReported'
  BY <1>1 DEF FilterIInv, FilterTypeOK, NothingEarly, OneBudget, EveryChunkReported
<1>3. DedupedSoFar' /\ CurrentChunk'
  BY <1>1 DEF FilterIInv, DedupedSoFar, CurrentChunk
<1>4. (ChunksTile /\ ChunksFit /\ ChunksMaximal)'
  BY <1>1 DEF FilterIInv, ChunksTile, ChunksFit, ChunksMaximal
<1> QED BY <1>2, <1>3, <1>4 DEF FilterIInv

LEMMA Inductive == FilterSpec => []FilterIInv
<1>1. FilterIInv /\ [FilterNext]_filterVars => FilterIInv'
  BY BeginStep, DedupeStep, EndDedupeStep, TakeStep, CloseLastStep, FetchStep,
     EndStep, StutterStep DEF FilterNext
<1> QED BY FilterIInvInit, <1>1, PTL DEF FilterSpec

-----------------------------------------------------------------------------
\* Every reachable state of the lookup is well typed.
THEOREM FilterTypeCorrect == FilterSpec => []FilterTypeOK
  BY Inductive, PTL DEF FilterIInv

\* A chunk is within the IN limit and, unless it is one value, the URL budget.
THEOREM Fitting == FilterSpec => []ChunksFit
  BY Inductive, PTL DEF FilterIInv

\* No request more than greedy chunking needs is sent.
THEOREM Maximal == FilterSpec => []ChunksMaximal
  BY Inductive, PTL DEF FilterIInv

\* All chunks together stay within MAX_EXTRACT_BYTES.
THEOREM Budgeted == FilterSpec => []OneBudget
  BY Inductive, PTL DEF FilterIInv

\* The lookup loses no value of the caller's list, repeats none, and reports the
\* chunk of each.
THEOREM Accounted == FilterSpec => []NothingLeftOut
<1>1. FilterIInv => EachValueOnce
  <2> SUFFICES ASSUME FilterIInv, pc \in {"chunk", "fetch"} PROVE EachValueOnce
    BY DEF EachValueOnce
  <2>1. ToSet(values) = ToSet(asked)
    <3>1. /\ \A i \in 1..Len(asked) : \E j \in 1..Len(values) : values[j] = asked[i]
          /\ \A j \in 1..Len(values) : \E i \in 1..Len(asked) : values[j] = asked[i]
      BY DEF FilterIInv, DedupedSoFar
    <3>2. DOMAIN values = 1..Len(values) /\ DOMAIN asked = 1..Len(asked)
      BY InputsAssumption DEF FilterIInv, FilterTypeOK
    <3> QED BY <3>1, <3>2 DEF ToSet
  <2> QED BY <2>1 DEF FilterIInv, DedupedSoFar, EachValueOnce
<1>2. FilterIInv => NothingLeftOut
  BY <1>1 DEF FilterIInv, NothingLeftOut
<1> QED BY Inductive, <1>2, PTL
=============================================================================
