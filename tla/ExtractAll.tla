------------------------------ MODULE ExtractAll ------------------------------
(***************************************************************************)
(* ODataClient.extract_all (services/odata_client.py): next links are       *)
(* followed page by page until the server has no more, max_pages is hit or  *)
(* a request goes wrong; the caller may then resume where it stopped.       *)
(*                                                                          *)
(* The records a query matches are numbered 1..Total and a paging option is *)
(* the position it stands for, so that $skip=2 and a $skiptoken pointing    *)
(* behind the second record are both 2; no $skip is $skip=0.  Everything    *)
(* but the position (path, $filter, $select) is left out: no step changes   *)
(* it.  What a server does with a $skip beside a $skiptoken, where it puts   *)
(* no link, and how the caller resumes are open.                            *)
(***************************************************************************)
EXTENDS Integers, Sequences

CONSTANTS
    Total,          \* records the query matches
    MaxSize,        \* records on a full page: $top, or what the server sends at most
    MaxPages,       \* max_pages
    Budget,         \* MAX_EXTRACT_BYTES
    MaxBody,        \* bound: bytes of one body
    LinkForms,      \* per version: what the server pages by in its links
    MaxCalls,       \* bound: calls of extract_all by one caller
    None

ASSUME BoundsAssumption ==
    /\ {Total, MaxSize, Budget} \subseteq Nat
    /\ {MaxPages, MaxBody, MaxCalls} \subseteq Nat \ {0}
ASSUME FormsAssumption == LinkForms \in [{"v2", "v4"} -> SUBSET {"token", "skip", "other"}]
ASSUME NoneAssumption == None \notin Nat

VARIABLES
    version,    \* the resolved odata_version
    addsSkip,   \* the server: does a $skip count behind a $skiptoken?
    caller,     \* how it resumes: by what it counts, and whether its $skip stays
    start,      \* the $skip of the caller's first call
    params,     \* current_params: its $skip and $skiptoken
    pages,      \* pages fetched by this call
    left,       \* _bytes_left of the budget
    stopped,    \* stopped_reason, "running" before and "raised" when it raises
    nextToken,  \* next_skiptoken
    delivered,  \* the records returned so far, over the calls of this caller
    last,       \* the last good page: last_page_size, the form of its link
    calls

inputs == <<version, addsSkip, caller, start>>
vars == <<inputs, params, pages, left, stopped, nextToken, delivered, last, calls>>

Options == Nat \union {None}

-----------------------------------------------------------------------------
(* The server *)

\* Where a request starts: behind the $skiptoken if it has one, and then behind as
\* many records more as $skip says ("would skip twice") or not.
Position(p) ==
    IF p.token = None THEN p.skip ELSE p.token + (IF addsSkip THEN p.skip ELSE 0)

\* The sizes a page may have; a server may also send short and empty pages.
Sizes == {n \in 0..MaxSize : Position(params) + n <= Total \/ n = 0}

\* No link at the end, but also behind a full page somewhere before it.
Links(n) ==
    LET more == Position(params) + n < Total IN
    (IF more THEN [form : LinkForms[version], at : {Position(params) + n}] ELSE {})
    \union (IF ~more \/ n = MaxSize THEN {[form |-> "none", at |-> 0]} ELSE {})

-----------------------------------------------------------------------------
\* The first call: the caller may have its own $skip, in params or in the path.
Init ==
    /\ version \in {"v2", "v4"} /\ addsSkip \in BOOLEAN
    /\ caller \in [counts : {"records", "position"}, keeps : BOOLEAN]
    /\ start \in 0..Total
    /\ params = [skip |-> start, token |-> None]
    /\ pages = 0 /\ left = Budget
    /\ stopped = "running" /\ nextToken = None
    /\ delivered = <<>> /\ last = [size |-> 0, form |-> "none"] /\ calls = 1

Running == stopped = "running" /\ pages < MaxPages

\* budget.spend: the bytes of a body, whatever its status, are still there.
Paid == \E bytes \in 1..MaxBody : left' = left - bytes /\ left' >= 0

\* LimitExceededError out of spend: nothing of the extract is returned.
OutOfBytes ==
    /\ Running
    /\ \E bytes \in 1..MaxBody : left' = left - bytes
    /\ left' < 0
    /\ stopped' = "raised" /\ delivered' = <<>>
    /\ UNCHANGED <<inputs, params, pages, nextToken, last, calls>>

\* check_time raises, or the request does (request limit, response too large,
\* transport error, cancellation).
Raise ==
    /\ Running
    /\ stopped' = "raised" /\ delivered' = <<>>
    /\ UNCHANGED <<inputs, params, pages, left, nextToken, last, calls>>

\* A status of 400 or more, or a body that is not JSON.
Fail(reason) ==
    /\ Running
    /\ Paid
    /\ stopped' = reason
    /\ UNCHANGED <<inputs, params, pages, nextToken, delivered, last, calls>>

\* Does the code follow the link?  v2 needs a $skiptoken, v4 that or a $skip.
Followable(link) == link.form = "token" \/ (version = "v4" /\ link.form = "skip")

\* Mutant: v4 takes $skip and $skiptoken out after the link's have been put in.
MovedThenPopped(link) ==
    IF version = "v2" THEN [params EXCEPT !.token = link.at] ELSE [skip |-> 0, token |-> None]

\* current_params for the next page: only v4 takes the caller's $skip out.
Moved(link) ==
    CASE version = "v2" -> [params EXCEPT !.token = link.at]
      [] version = "v4" /\ link.form = "token" -> [skip |-> 0, token |-> link.at]
      [] OTHER -> [skip |-> link.at, token |-> None]

\* Mutant: the page limit ends the extract like a last page.
VerdictLimitIsEnd(link, fetched) ==
    IF Followable(link) /\ fetched < MaxPages THEN "running" ELSE "exhausted"

\* Mutant: the page limit is looked at before the link.
VerdictLimitFirst(link, fetched) ==
    IF fetched >= MaxPages THEN "max_pages"
    ELSE IF Followable(link) THEN "running" ELSE "exhausted"

\* stopped_reason after so many pages, the last one with this link.
Verdict(link, fetched) ==
    IF ~Followable(link) THEN "exhausted"
    ELSE IF fetched >= MaxPages THEN "max_pages" ELSE "running"

\* One good page: its records are added, then its link decides.
Page(n, link) ==
    /\ Running
    /\ Paid
    /\ delivered' = delivered \o [i \in 1..n |-> Position(params) + i]
    /\ pages' = pages + 1
    /\ stopped' = Verdict(link, pages + 1)
    /\ nextToken' = IF stopped' = "max_pages" /\ link.form = "token" THEN link.at ELSE None
    /\ params' = IF stopped' = "running" THEN Moved(link) ELSE params
    /\ last' = [size |-> n, form |-> link.form]
    /\ UNCHANGED <<inputs, calls>>

\* The caller resumes: with next_skiptoken "in params", where its own $skip may still
\* be, or without one ($skip-form link) with "$skip = records fetched so far", as the
\* docstring has it, or with the position these come to behind its own $skip.
Resume ==
    /\ stopped = "max_pages" /\ calls < MaxCalls
    /\ params' = IF nextToken # None
                 THEN [skip |-> IF caller.keeps THEN start ELSE 0, token |-> nextToken]
                 ELSE [skip |-> Len(delivered) + (IF caller.counts = "position" THEN start ELSE 0),
                       token |-> None]
    /\ pages' = 0 /\ left' = Budget
    /\ stopped' = "running" /\ nextToken' = None
    /\ calls' = calls + 1
    /\ UNCHANGED <<inputs, delivered, last>>

Step ==
    \/ OutOfBytes \/ Raise
    \/ \E reason \in {"http_error", "parse_error"} : Fail(reason)
    \/ \E n \in Sizes : \E link \in Links(n) : Page(n, link)

Next == Step \/ Resume

Spec == Init /\ [][Next]_vars

-----------------------------------------------------------------------------
\* Types of extract_all's position, counters and answer, within its limits.
TypeOK ==
    /\ version \in {"v2", "v4"} /\ addsSkip \in BOOLEAN
    /\ caller \in [counts : {"records", "position"}, keeps : BOOLEAN]
    /\ start \in Nat
    /\ params \in [skip : Nat, token : Options]
    /\ pages \in 0..MaxPages
    /\ left \in Int /\ (stopped # "raised" => left >= 0)
    /\ stopped \in {"running", "exhausted", "max_pages", "http_error", "parse_error", "raised"}
    /\ nextToken \in Options
    /\ delivered \in Seq(Nat)
    /\ last \in [size : 0..MaxSize, form : {"token", "skip", "other", "none"}]
    /\ calls \in 1..MaxCalls

\* The calls that find their way: those that begin at the first record.  One with a
\* $skip of its own does only if the server takes a $skiptoken alone for the position
\* (the v2 code sends both on the next page, and so does, in v2 and v4, a caller who
\* resumes by adding next_skiptoken to its params) and if it does not resume from a
\* v4 $skip link the way the docstring and docs/ODATA.md say: "$skip = records fetched
\* so far" (odata_client.py:469-471, ODATA.md:99-100) falls short of the position by its
\* own $skip, and those records come twice.
Straight ==
    start # 0 =>
        /\ ~addsSkip \/ (version = "v4" /\ ~caller.keeps)
        /\ version = "v2" \/ caller.counts = "position"

\* No record is returned twice and none is left out in between, whatever form the
\* links take from page to page and over resumed calls, of the calls named above.
NoGapNoRepeat == Straight => delivered = [i \in 1..Len(delivered) |-> start + i]

\* "check that OData stopped_reason is exhausted" (docs/MCP_SERVER.md): an extract that
\* says so is complete, or its last page had a link the code does not follow (any v2
\* link by $skip, though the docstring has v2 page that way by default,
\* odata_client.py:448-451), or no link behind a full page, which is what
\* last_page_size is for.  Nothing in the answer tells the former from the end.
ExhaustedIsComplete ==
    (stopped = "exhausted" /\ Straight) =>
        \/ start + Len(delivered) >= Total
        \/ last.form = "other" \/ (version = "v2" /\ last.form = "skip")
        \/ last.form = "none" /\ last.size = MaxSize

\* "max_pages" is said only where more is to be had, with a next_skiptoken that points
\* behind the last record delivered; only a v4 extract with a $skip link leaves the
\* caller without one, to resume by what it counts.
ResumesAtNextRecord ==
    (stopped = "max_pages" /\ Straight) =>
        /\ start + Len(delivered) < Total
        /\ IF nextToken = None THEN version = "v4" /\ last.form = "skip"
           ELSE nextToken = start + Len(delivered)
=============================================================================
