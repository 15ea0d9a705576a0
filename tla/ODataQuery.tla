------------------------------ MODULE ODataQuery ------------------------------
(***************************************************************************)
(* The MCP tool odata_query (mcp_server.py): the $orderby and paging        *)
(* options it adds to a multi-page query, the extracts it repeats without   *)
(* them, and the warnings and errors it answers with.  An extract           *)
(* (extract_all, see ExtractAll) is one step here, and so is one request.   *)
(* Other calls look $metadata up at the same time (see MetadataCache).      *)
(***************************************************************************)
EXTENDS MetadataCache, FiniteSets

CONSTANT Calls  \* what may be asked

VARIABLES
    asked,      \* what the caller passed and the system is
    server,     \* what SuccessFactors does with this entity
    queryPc,         \* the await the call is in, or "done", "error", "refused", "raised"
    order,      \* $orderby in query_params: Nothing, "caller" or "added"
    paging,     \* paging in query_params, in the same way
    orderAdded, \* orderby_added
    pagingAdded,\* paging_added
    result,     \* r: its stopped_reason and the options it was sent with
    warnings,
    failed,     \* history: the options of the extracts that ended in an http_error
    body        \* the error answer: whether the request for it succeeded, the
                \* options it was sent with, its text

queryVars == <<asked, server, queryPc, order, paging, orderAdded, pagingAdded,
               result, warnings, failed, body, keyCache, navCache, awaits, early>>

-----------------------------------------------------------------------------
AllCalls == [paged : BOOLEAN,      \* max_pages > 1
             orders : BOOLEAN,     \* the caller passes $orderby
             pages : BOOLEAN,      \* the caller passes paging
             top : BOOLEAN,        \* the caller passes $top or $skip
             v4 : BOOLEAN,
             pii : BOOLEAN]        \* the system has a PII filter

ASSUME CallsAssumption == Calls \subseteq AllCalls

Servers == [rejectsOrder : BOOLEAN, rejectsPaging : BOOLEAN,
            keys : {"unknown", "unsortable", "sortable", "protected"}]

Failures == {"http_error", "parse_error"}
Reasons == Failures \union {"exhausted", "max_pages"}

Given(b) == IF b THEN "caller" ELSE Nothing

QueryInit ==
    /\ asked \in Calls /\ server \in Servers
    /\ queryPc = "start" /\ InitMetadata
    /\ order = Given(asked.orders) /\ paging = Given(asked.pages)
    /\ orderAdded = FALSE /\ pagingAdded = FALSE
    /\ result = Nothing /\ warnings = {} /\ failed = {} /\ body = Nothing

\* $orderby by the keys, unless the caller orders, the keys are tokenized here,
\* or $metadata does not give sortable ones: then a warning.
Ordering(found) ==
    IF asked.orders THEN UNCHANGED <<order, orderAdded, warnings>>
    ELSE IF found = "sortable" \/ (found = "protected" /\ ~asked.pii)
         THEN order' = "added" /\ orderAdded' = TRUE /\ UNCHANGED warnings
         ELSE warnings' = warnings \union {found} /\ UNCHANGED <<order, orderAdded>>

\* paging=snapshot, on v2 and without $top, $skip or the caller's own.
Paging ==
    IF ~asked.v4 /\ ~asked.pages /\ ~asked.top
    THEN paging' = "added" /\ pagingAdded' = TRUE
    ELSE UNCHANGED <<paging, pagingAdded>>

\* The paged pull goes on with the keys it found.
OrderAndPage(found) == Ordering(found) /\ Paging /\ queryPc' = "extract"

\* _select, _pii_request and check_query: refused, or on to the keys of a paged
\* pull, cached or not.  None of them awaits.
Begin ==
    /\ queryPc = "start"
    /\ \/ /\ queryPc' = "refused" \/ (~asked.paged /\ queryPc' = "extract")
          /\ UNCHANGED <<metadata, order, paging, orderAdded, pagingAdded, warnings>>
       \/ /\ asked.paged /\ ~Miss(keyCache) /\ OrderAndPage(keyCache)
          /\ UNCHANGED metadata
       \/ /\ asked.paged /\ Miss(keyCache) /\ Ask(Query, "keys", keyCache) /\ queryPc' = "keys"
          /\ UNCHANGED <<caches, order, paging, orderAdded, pagingAdded, warnings>>
    /\ UNCHANGED <<asked, server, result, failed, body>>

\* _entity_key_properties answers.
KeysKnown ==
    /\ queryPc = "keys"
    /\ \E found \in {server.keys, "unknown"} : StoreKeys(Query, found) /\ OrderAndPage(found)
    /\ UNCHANGED <<asked, server, result, failed, body>>

\* The client cancels the call while it awaits the keys.
Cancel ==
    /\ queryPc = "keys" /\ Cancelled(Query) /\ queryPc' = "raised"
    /\ UNCHANGED <<asked, server, order, paging, orderAdded, pagingAdded, result, warnings,
                   failed, body>>

-----------------------------------------------------------------------------
Rejected == (order # Nothing /\ server.rejectsOrder) \/ (paging # Nothing /\ server.rejectsPaging)

\* How an extract may end: a rejected option is an http_error, and any extract
\* may meet an error of its own after some pages.
Outcomes == IF Rejected THEN {"http_error"} ELSE Reasons

Received(reason) ==
    /\ result' = [stopped |-> reason, order |-> order, paging |-> paging]
    /\ failed' = IF reason = "http_error" THEN failed \union {<<order, paging>>} ELSE failed

\* Where the code goes with r, "tried" being the options it may still drop.
Onward(reason, tried) ==
    queryPc' = IF reason = "http_error" /\ "paging" \in tried /\ pagingAdded THEN "why"
          ELSE IF reason = "http_error" /\ orderAdded THEN "reorder"
          ELSE IF reason \in Failures THEN "detail" ELSE "answer"

Extract ==
    /\ queryPc = "extract"
    /\ \E reason \in Outcomes : Received(reason) /\ Onward(reason, {"paging"})
    /\ UNCHANGED <<metadata, asked, server, order, paging, orderAdded, pagingAdded,
                   warnings, body>>

\* The failing request again, for its body: paging goes if the body says something
\* of paging and "not supported".  It may, whatever the status of this second answer
\* and the reason of the first failure, and it need not.
Why ==
    /\ queryPc = "why"
    /\ \/ queryPc' = "repage" /\ paging' = Nothing /\ pagingAdded' = FALSE
       \/ /\ queryPc' = IF orderAdded THEN "reorder" ELSE "detail"
          /\ UNCHANGED <<paging, pagingAdded>>
    /\ UNCHANGED <<metadata, asked, server, order, orderAdded, result, warnings, failed, body>>

\* Mutant: the option is dropped without a word.
WarnedSilent(option, reason) == UNCHANGED warnings

\* Mutant: "no warning" is appended too.
WarnedNothing(option, reason) ==
    warnings' = warnings \union {IF reason \in Failures THEN Nothing ELSE option}

\* _retry_extract_dropping warns only if the retry did not fail too.
Warned(option, reason) ==
    warnings' = IF reason \in Failures THEN warnings ELSE warnings \union {option}

\* The extract without paging.
Repage ==
    /\ queryPc = "repage"
    /\ \E reason \in Outcomes :
          Received(reason) /\ Warned("paging_dropped", reason) /\ Onward(reason, {})
    /\ UNCHANGED <<metadata, asked, server, order, paging, orderAdded, pagingAdded, body>>

\* Mutant: orderby_added still names the rejected order.
ReorderStillAdded ==
    /\ queryPc = "reorder" /\ order' = Nothing
    /\ queryPc' = "unordered"
    /\ UNCHANGED <<metadata, asked, server, paging, orderAdded, pagingAdded, result, warnings,
                   failed, body>>

\* $orderby is taken out, whatever the failure was.
Reorder ==
    /\ queryPc = "reorder"
    /\ order' = Nothing /\ orderAdded' = FALSE
    /\ queryPc' = "unordered"
    /\ UNCHANGED <<metadata, asked, server, paging, pagingAdded, result, warnings, failed, body>>

\* The extract without $orderby.
Unordered ==
    /\ queryPc = "unordered"
    /\ \E reason \in Outcomes :
          /\ Received(reason) /\ Warned("order_dropped", reason)
          /\ queryPc' = IF reason \in Failures THEN "detail" ELSE "answer"
    /\ UNCHANGED <<metadata, asked, server, order, paging, orderAdded, pagingAdded, body>>

\* _pii_safe_error_body: a request repeated for its error may succeed, and its
\* body is then a page like any other, tokenized or withheld.
ErrorBody(ok, readable) ==
    IF ~asked.pii THEN "raw"
    ELSE IF ~ok THEN "retokenized" ELSE IF readable THEN "tokens" ELSE "withheld"

\* The request again for its body; the vault may fail on it.
Detail ==
    /\ queryPc = "detail"
    /\ \E ok, readable \in BOOLEAN :
          /\ ok => ~Rejected
          /\ \/ /\ queryPc' = "error"
                /\ body' = [ok |-> ok, order |-> order, paging |-> paging,
                            text |-> ErrorBody(ok, readable)]
             \/ asked.pii /\ queryPc' = "refused" /\ UNCHANGED body
    /\ UNCHANGED <<metadata, asked, server, order, paging, orderAdded, pagingAdded, result, warnings,
                   failed>>

\* The records are tokenized, written and reported, unless the vault fails.
Answer ==
    /\ queryPc = "answer" /\ (queryPc' = "done" \/ (asked.pii /\ queryPc' = "refused"))
    /\ UNCHANGED <<metadata, asked, server, order, paging, orderAdded, pagingAdded,
                   result, warnings, failed, body>>

\* A limit, the connection policy or the transport raises in one of the awaits, or
\* the client cancels the call there.
RaiseFault ==
    /\ queryPc \in {"extract", "why", "repage", "unordered", "detail"}
    /\ queryPc' = "raised"
    /\ UNCHANGED <<metadata, asked, server, order, paging, orderAdded, pagingAdded,
                   result, warnings, failed, body>>

\* The process goes on: another call of the entity, with the caches as they are.
Again ==
    /\ queryPc \in {"done", "error", "refused", "raised"} /\ asked' \in Calls
    /\ queryPc' = "start" /\ order' = Given(asked'.orders) /\ paging' = Given(asked'.pages)
    /\ orderAdded' = FALSE /\ pagingAdded' = FALSE
    /\ result' = Nothing /\ warnings' = {} /\ failed' = {} /\ body' = Nothing
    /\ UNCHANGED <<metadata, server>>

Other(c) ==
    /\ ToolStep(c, server.keys)
    /\ UNCHANGED <<asked, server, queryPc, order, paging, orderAdded, pagingAdded, result,
                   warnings, failed, body>>

QueryNext ==
    \/ Begin \/ KeysKnown \/ Cancel \/ Extract \/ Why \/ Repage \/ Reorder \/ Unordered
    \/ Detail \/ Answer \/ RaiseFault \/ Again
    \/ \E c \in Tools : Other(c)

QuerySpec == QueryInit /\ [][QueryNext]_queryVars

-----------------------------------------------------------------------------
Options == {Nothing, "caller", "added"}

\* The values of every variable.
QueryTypeOK ==
    /\ asked \in Calls /\ server \in Servers
    /\ queryPc \in {"start", "keys", "extract", "why", "repage", "reorder", "unordered", "detail",
                    "answer", "done", "error", "refused", "raised"}
    /\ keyCache \in {Nothing, "unknown", server.keys} /\ navCache \in {Nothing, "navs", "warning"}
    /\ \A c \in Tools : awaits[c] \in {Nothing, "keys", "fields", "navs"}
    /\ awaits[Query] = "keys" <=> queryPc = "keys"
    /\ early \subseteq Tools \union {Query}
    /\ order \in Options /\ paging \in Options
    /\ orderAdded \in BOOLEAN /\ pagingAdded \in BOOLEAN
    /\ result \in {Nothing} \union [stopped : Reasons, order : Options, paging : Options]
    /\ warnings \subseteq {"unknown", "unsortable", "protected", "paging_dropped", "order_dropped"}
    /\ failed \subseteq Options \X Options
    /\ body \in {Nothing} \union
          [ok : BOOLEAN, order : Options, paging : Options,
           text : {"raw", "retokenized", "tokens", "withheld"}]

\* An option the tool added to the query of two extracts, one that failed with an
\* http_error and one, without it, that did not.
Backed(with) == with \in failed /\ result.stopped \notin Failures

\* Nothing is lost without a word, whichever way it was lost (never added, or added and
\* dropped by one of two retries): a paged answer whose records were not sorted says
\* so, and one that was to be read under paging=snapshot and was not has a warning.
\* Each warning is about an option without which the records came, after an extract
\* that differed in this option alone had failed.  That is all it says: the texts go
\* on that SuccessFactors rejected the option ("was rejected by SuccessFactors",
\* mcp_server.py:989-992 and 1010-1013), which the code does not know.  The order goes
\* after any http_error, paging after a body with the right words in it, and when
\* the retry without paging fails too and the one without the order does not, the
\* only warning is "order_dropped", though "the retry drops it and warns" (:899-900).
WarningsTrue ==
    /\ (queryPc = "done" /\ asked.paged /\ result.order = Nothing) =>
          warnings \intersect {"unknown", "unsortable", "protected", "order_dropped"} # {}
    /\ (queryPc = "done" /\ asked.paged /\ result.paging = Nothing /\ ~(asked.v4 \/ asked.top)) =>
          warnings \intersect {"paging_dropped", "order_dropped"} # {}
    /\ "paging_dropped" \in warnings =>
          result.paging = Nothing /\ Backed(<<result.order, "added">>)
    /\ "order_dropped" \in warnings =>
          result.order = Nothing /\ Backed(<<"added", result.paging>>)

\* orderby_added and paging_added name the options of the extract the records came
\* from, not of one that was given up, and an error shows the body of a request with
\* the options of the extract that failed last.
ReportedAsSent ==
    /\ queryPc = "done" => /\ orderAdded <=> (result.order = "added")
                           /\ pagingAdded <=> (result.paging = "added")
    /\ queryPc = "error" => body.order = result.order /\ body.paging = result.paging

=============================================================================
