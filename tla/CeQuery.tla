-------------------------------- MODULE CeQuery --------------------------------
(***************************************************************************)
(* Compound Employee paging: ce_query_all of the REST router                *)
(* (routers/sfapi.py) and ce_query of the MCP server (mcp_server.py), two   *)
(* loops over query / queryMore that judge each page with parse_page        *)
(* (services/ce_response.py).  REST keeps the pages in memory and returns   *)
(* them; MCP writes each to a file, tokenized when the system has a PII     *)
(* filter (see ResultFiles).  The server hands out Total records behind a    *)
(* query session.                                                           *)
(***************************************************************************)
EXTENDS ResultFiles, Sequences

CONSTANTS
    Total,          \* records that match the query
    PageLimits,     \* the max_pages arguments
    MaxBytes,       \* MAX_EXTRACT_BYTES
    Sizes,          \* body sizes of a page
    None

\* What parse_page reports, and why a call stopped.
Errors == {"http_error", "parse_error", "soap_fault", "missing_query_session"}
Reasons == Errors \union {"exhausted", "max_pages", "vault_unavailable"}
Contents == {"plain", "tokens"}

ASSUME ConstantsAssumption ==
    /\ Total \in Nat /\ MaxBytes \in Nat
    /\ PageLimits \subseteq Nat \ {0} /\ Sizes \subseteq Nat
    /\ None \notin Nat /\ None \notin Reasons \union Contents

VARIABLES
    caller,     \* "rest" or "mcp"
    filter,     \* the MCP call runs with a PII filter
    maxPages,
    pc,         \* "asked" (a request is out), "returned" or "raised"
    session,    \* the query session asked for, by the records before it;
                \* None for the first query
    received,   \* the records of the pages taken, in order
    pages,      \* pages taken
    spent,      \* bytes spent (REST)
    files,      \* the content of each file written (MCP): "plain" or "tokens"
    shown,      \* the error body handed on (MCP): None, "plain" or "tokens"
    lastPage,   \* the features of the page answered last
    stopped     \* what the result says: None before, "exhausted", "max_pages",
                \* or the error

vars == <<caller, filter, maxPages, pc, session, received, pages, spent, files,
          shown, lastPage, stopped, now, sentAt, disk>>

-----------------------------------------------------------------------------
(* The server *)

From == IF session = None THEN 0 ELSE session

\* A page that tells the truth: n records, and whether more follow.
Sound(n) == [xml |-> TRUE, doctype |-> FALSE, fault |-> FALSE, refused |-> FALSE,
             count |-> n, more |-> From + n < Total, session |-> From + n]

\* What a page may be: sound; without its query session or its records; or broken
\* in one of the ways parse_page looks for.
Answers ==
    UNION {{p, [p EXCEPT !.session = None], [p EXCEPT !.count = None],
            [p EXCEPT !.refused = TRUE]}
           \union {[p EXCEPT !.fault = TRUE, !.refused = b] : b \in BOOLEAN}
           \union {[p EXCEPT !.doctype = TRUE, !.refused = b] : b \in BOOLEAN}
           \union {[p EXCEPT !.xml = FALSE, !.refused = b] : b \in BOOLEAN} :
               p \in {Sound(n) : n \in 0..(Total - From)}}

\* The records of an answer that is a page.
RecordsOf(p) == [i \in 1..p.count |-> From + i]

-----------------------------------------------------------------------------
(* parse_page: the error it reports, None for a page to go on with *)

\* Mutant: a page that promises more without saying where is taken.
PageErrorNoSession(p) ==
    IF ~p.xml THEN IF p.refused THEN "http_error" ELSE "parse_error"
    ELSE IF p.doctype THEN "parse_error"
    ELSE IF p.fault THEN "soap_fault"
    ELSE IF p.refused THEN "http_error"
    ELSE IF p.count = None THEN "parse_error" ELSE None

PageError(p) ==
    IF ~p.xml THEN IF p.refused THEN "http_error" ELSE "parse_error"
    ELSE IF p.doctype THEN "parse_error"
    ELSE IF p.fault THEN "soap_fault"
    ELSE IF p.refused THEN "http_error"
    ELSE IF p.count = None THEN "parse_error"
    ELSE IF p.more /\ p.session = None THEN "missing_query_session"
    ELSE None

-----------------------------------------------------------------------------
Init ==
    /\ caller \in {"rest", "mcp"} /\ filter \in BOOLEAN
    /\ caller = "rest" => ~filter
    /\ maxPages \in PageLimits
    /\ pc = "asked" /\ session = None
    /\ received = <<>> /\ pages = 0 /\ spent = 0 /\ files = <<>>
    /\ shown = None /\ lastPage = None /\ stopped = None /\ InitFiles

\* The page joins the result.
Keep(p) ==
    /\ pages' = pages + 1
    /\ received' = IF PageError(p) = None THEN received \o RecordsOf(p) ELSE received

Give(reason) == pc' = "returned" /\ stopped' = reason /\ UNCHANGED <<session, clock>>

Raised == pc' = "raised" /\ UNCHANGED <<session, stopped, clock>>

\* Mutant: without check_time.
AskMoreAnyTime(p) == pc' = "asked" /\ session' = p.session /\ Send /\ UNCHANGED stopped

\* check_time, then queryMore with the session of this page.
AskMore(p) ==
    IF Late THEN Raised
    ELSE pc' = "asked" /\ session' = p.session /\ Send /\ UNCHANGED stopped

\* Mutant: the page limit is looked at before hasMore.
AfterLimitFirst(p, kept) ==
    IF kept >= maxPages THEN Give("max_pages")
    ELSE IF ~p.more THEN Give("exhausted")
    ELSE AskMore(p)

\* What follows a good page, the same in both loops: MCP's "truncated" is
\* has_more with the page limit reached, REST's "max_pages".
After(p, kept) ==
    IF ~p.more THEN Give("exhausted")
    ELSE IF kept >= maxPages THEN Give("max_pages")
    ELSE AskMore(p)

\* One round of ce_query_all: an error page is kept too and ends the loop.
RestPage(p, size) ==
    /\ pc = "asked" /\ caller = "rest"
    /\ lastPage' = p
    /\ IF spent + size > MaxBytes
       THEN Raised /\ UNCHANGED <<received, pages, spent>>
       ELSE /\ spent' = spent + size
            /\ Keep(p)
            /\ IF PageError(p) # None THEN Give(PageError(p))
               ELSE After(p, pages + 1)
    /\ UNCHANGED <<caller, filter, maxPages, files, shown, disk>>

\* Mutant: a page the tokenizer cannot read is shown as it is.
ErrorBodyRaw(p) == IF filter /\ p.xml /\ ~p.doctype THEN "tokens" ELSE "plain"

\* The body handed on with an error: tokenized, or withheld when it cannot be
\* and might be a page; an unreadable answer above 399 holds nothing of ours.
ErrorBody(p) ==
    IF ~filter THEN "plain"
    ELSE IF p.xml /\ ~p.doctype THEN "tokens"
    ELSE IF p.refused THEN "plain" ELSE None

\* ce_query: an error page, or the vault failing on one.
McpError(p) ==
    /\ pc = "asked" /\ caller = "mcp" /\ PageError(p) # None
    /\ lastPage' = p
    /\ \/ shown' = ErrorBody(p) /\ Give(PageError(p))
       \/ filter /\ p.xml /\ ~p.doctype /\ Give("vault_unavailable") /\ UNCHANGED shown
    /\ UNCHANGED <<caller, filter, maxPages, received, pages, spent, files, disk>>

\* ce_query: a good page becomes a file, and the loop goes on or ends.
McpPage(p) ==
    /\ pc = "asked" /\ caller = "mcp" /\ PageError(p) = None
    /\ lastPage' = p
    /\ files' = Append(files, IF filter THEN "tokens" ELSE "plain") /\ Write(pages + 1)
    /\ Keep(p)
    /\ After(p, pages + 1)
    /\ UNCHANGED <<caller, filter, maxPages, spent, shown>>

\* The vault fails on a good page: the call answers with the files so far.
McpVaultFails(p) ==
    /\ pc = "asked" /\ caller = "mcp" /\ PageError(p) = None /\ filter
    /\ lastPage' = p
    /\ Give("vault_unavailable")
    /\ UNCHANGED <<caller, filter, maxPages, received, pages, spent, files, shown, disk>>

\* client.query, query_more or _write raises; files written stay where they are.
Raise ==
    /\ pc = "asked" /\ Raised
    /\ UNCHANGED <<caller, filter, maxPages, received, pages, spent, files, shown, lastPage,
                   disk>>

\* While the request is under way: time passes, others write their files.
Wait ==
    /\ pc = "asked" /\ (Tick \/ (caller = "mcp" /\ OthersWrite))
    /\ UNCHANGED <<caller, filter, maxPages, pc, session, received, pages, spent, files,
                   shown, lastPage, stopped>>

Next ==
    \/ \E p \in Answers : McpError(p) \/ McpVaultFails(p) \/ McpPage(p)
    \/ \E p \in Answers, size \in Sizes : RestPage(p, size)
    \/ Raise \/ Wait

Spec == Init /\ [][Next]_vars

-----------------------------------------------------------------------------
\* Types; both loops stay within their page limit and the byte budget, and a call has
\* a reason to have stopped exactly when it has returned.
TypeOK ==
    /\ caller \in {"rest", "mcp"} /\ filter \in BOOLEAN /\ maxPages \in PageLimits
    /\ pc \in {"asked", "returned", "raised"}
    /\ session \in 0..Total \union {None}
    /\ received \in Seq(1..Total)
    /\ pages \in 0..maxPages /\ spent \in 0..MaxBytes
    /\ files \in Seq(Contents) /\ shown \in Contents \union {None}
    /\ stopped \in Reasons \union {None}
    /\ pc = "returned" <=> stopped # None
    /\ now \in Nat /\ sentAt \in 0..now
    /\ disk \subseteq [page : 1..Len(files), at : 0..now]

\* The pages taken are the records in order, none left out and none twice.
NoGapNoRepeat == \A i \in 1..Len(received) : received[i] = i

\* A result that does not say it was cut off holds every record, and one cut off
\* at the page limit really left some out.
CompleteSaysComplete ==
    /\ stopped = "exhausted" => Len(received) = Total
    /\ stopped = "max_pages" => Len(received) < Total

\* With a PII filter no page reaches a file, and no body the result, untokenized;
\* the one thing shown as it came is an unreadable answer with an error status.
NothingPlain ==
    filter => /\ \A i \in DOMAIN files : files[i] = "tokens"
              /\ shown = "plain" => lastPage.refused /\ (~lastPage.xml \/ lastPage.doctype)

\* Every file a call names when it answers is there, however slow its pages were and
\* whoever wrote others meanwhile: the time budget, looked at between two pages,
\* ends a call before the prune of a later page, or of another call, takes one of its
\* first.
FilesThere ==
    pc = "returned" => \A i \in DOMAIN files : \E file \in disk : file.page = i

=============================================================================
