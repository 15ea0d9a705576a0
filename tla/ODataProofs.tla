----------------------------- MODULE ODataProofs -----------------------------
(***************************************************************************)
(* Proofs about how an OData call is made: about the request loop            *)
(* (RequestRetry) for any retry, wait and sleep limits, and, behind it,      *)
(* about the tool odata_query and the $metadata caches (ODataQuery) for any  *)
(* calls asked and any number of tool calls beside it.                       *)
(***************************************************************************)
EXTENDS RequestRetry, ODataQuery, TLAPS

-----------------------------------------------------------------------------
(* The request loop *)

Running == {"csrf", "send", "sleep"}

\* Which tokens the request has used and lost, phase by phase.
TokenHistory ==
    /\ pc = "token" => token = 0 /\ rejected = {} /\ ~refreshed
    /\ pc = "refresh" => token = 1 /\ rejected = {1} /\ ~refreshed /\ status = "401"
    /\ pc \in Running /\ ~refreshed => token = 1 /\ rejected = {}
    /\ pc \in Running /\ refreshed => token = 2 /\ rejected = {1}

\* A mutating request has not been carried out while it is still in the loop.
NotYetApplied ==
    method \in Mutating =>
        /\ applied <= 1
        /\ pc \notin {"returned", "raised"} => applied = 0

\* Every attempt but the first follows a wait or the refresh.
AttemptsCounted ==
    /\ pc \in {"token", "csrf", "send"} => attempt = retries + Refreshes
    /\ pc = "refresh" => attempt = retries
    /\ pc = "sleep" => attempt + 1 = retries + Refreshes /\ attempt < MaxRetries

\* What has been waited, after how many waits, and within which budget: as long
\* as no wait was NaN the sum is known, and after one it was not waited for.
MaxWait == MaxRetryAfter + MaxJitter
WaitsCounted ==
    /\ slept # NaN => waited = slept /\ waited <= MaxRetrySleep + MaxJitter
    /\ waited <= retries * MaxWait
    /\ slept = NaN => retries >= 1 /\ waited <= (retries - 1) * MaxWait

IInv == /\ TypeOK /\ TokenHistory /\ NotYetApplied /\ CsrfMatchesToken
        /\ AttemptsCounted /\ WaitsCounted

LEMMA WaitType ==
    \A h \in RetryAfters \union {NoHeader} : Wait(h) \in 0..MaxRetryAfter \union {NaN}
  BY LimitsAssumption DEF Wait

LEMMA ToSendType == ToSend \in {"csrf", "send"} /\
                    (ToSend = "send" => ~(method \in Mutating /\ csrfProtected))
  BY DEF ToSend

LEMMA IInvInit == Init => IInv
<1> SUFFICES ASSUME Init PROVE IInv
  OBVIOUS
<1>1. TypeOK
  <2>1. 0 \in 0..MaxRetries
    BY LimitsAssumption
  <2>2. {} \subseteq 1..2
    OBVIOUS
  <2>3. /\ csrfProtected \in BOOLEAN /\ refreshed \in BOOLEAN
        /\ method \in Methods /\ status \in Statuses
    BY Zenon DEF Init, Statuses
  <2>4. /\ attempt \in 0..MaxRetries /\ rejected \subseteq 1..2
        /\ token \in 0..2 /\ csrfFor \in 0..2 /\ applied \in Nat
        /\ slept \in Nat \union {NaN} /\ waited \in Nat /\ retries \in 0..MaxRetries
    BY <2>1, <2>2 DEF Init
  <2>5. pc \in {"token", "csrf", "send", "refresh", "sleep", "returned", "raised"}
    BY DEF Init
  <2> QED BY <2>3, <2>4, <2>5 DEF TypeOK
<1>2. TokenHistory /\ NotYetApplied /\ CsrfMatchesToken
  BY DEF Init, TokenHistory, Running, NotYetApplied, CsrfMatchesToken
<1>3. AttemptsCounted
  BY DEF Init, AttemptsCounted, Refreshes
<1>4. WaitsCounted
  BY LimitsAssumption DEF Init, WaitsCounted, MaxWait
<1> QED BY <1>1, <1>2, <1>3, <1>4 DEF IInv

\* One more wait, after a 429.
LEMMA PauseStep ==
    ASSUME TypeOK, WaitsCounted, NEW h \in RetryAfters \union {NoHeader},
           NEW j \in 0..MaxJitter, Pause(h, j), retries < MaxRetries,
           ~Exceeds(Plus(slept, Wait(h)), MaxRetrySleep)
    PROVE  /\ slept' \in Nat \union {NaN} /\ waited' \in Nat /\ retries' \in 0..MaxRetries
           /\ WaitsCounted'
<1>1. /\ slept \in Nat \union {NaN} /\ waited \in Nat /\ retries \in 0..MaxRetries
      /\ MaxRetries \in Nat /\ MaxRetrySleep \in Nat /\ MaxJitter \in Nat /\ NaN \notin Int
      /\ MaxRetryAfter \in Nat /\ MaxWait = MaxRetryAfter + MaxJitter /\ MaxWait \in Nat
  BY LimitsAssumption DEF TypeOK, MaxWait
<1>2. retries' = retries + 1 /\ retries' \in 0..MaxRetries /\ retries \in Nat
  BY <1>1 DEF Pause
<1>3. /\ retries * MaxWait \in Nat
      /\ retries' * MaxWait = retries * MaxWait + MaxWait
      /\ (retries' - 1) * MaxWait = retries * MaxWait
      /\ (retries - 1) * MaxWait + MaxWait = retries * MaxWait
  BY <1>1, <1>2
<1>4. CASE Wait(h) = NaN
  <2>1. slept' = NaN /\ waited' = waited
    BY <1>4 DEF Pause, Plus
  <2> QED BY <1>1, <1>2, <1>3, <2>1 DEF WaitsCounted
<1>5. CASE Wait(h) # NaN
  <2>1. Wait(h) \in 0..MaxRetryAfter
    BY <1>5, WaitType
  <2>2. waited' = waited + (Wait(h) + j) /\ Wait(h) + j \in Nat /\ Wait(h) + j <= MaxWait
    BY <1>1, <1>5, <2>1 DEF Pause
  <2>3. Plus(Wait(h), j) = Wait(h) + j
    BY <1>1, <2>1 DEF Plus
  <2>4. CASE slept = NaN
    <3>1. slept' = NaN
      BY <2>4 DEF Pause, Plus
    <3>2. waited <= (retries - 1) * MaxWait
      BY <2>4 DEF WaitsCounted
    <3> QED BY <1>1, <1>2, <1>3, <2>2, <3>1, <3>2 DEF WaitsCounted
  <2>5. CASE slept # NaN
    <3>1. slept' = slept + (Wait(h) + j)
      BY <1>1, <2>2, <2>3, <2>5 DEF Pause, Plus
    <3>2. slept + Wait(h) <= MaxRetrySleep
      BY <1>1, <2>1, <2>5 DEF Exceeds, Plus
    <3>3. waited = slept /\ waited <= retries * MaxWait
      BY <2>5 DEF WaitsCounted
    <3>4. slept' # NaN /\ slept' \in Nat /\ waited' = slept'
      BY <1>1, <2>2, <2>5, <3>1, <3>3
    <3>5. waited' <= MaxRetrySleep + MaxJitter
      BY <1>1, <2>1, <2>2, <2>5, <3>2, <3>3
    <3>6. waited' <= retries' * MaxWait
      BY <1>1, <1>3, <2>2, <3>3
    <3> QED BY <1>2, <3>4, <3>5, <3>6 DEF WaitsCounted
  <2> QED BY <2>4, <2>5
<1> QED BY <1>4, <1>5

\* One more wait, after a 5xx: it is not counted against the sleep budget.
LEMMA BackoffStep ==
    ASSUME TypeOK, WaitsCounted, retries' = retries + 1, UNCHANGED <<slept, waited>>
    PROVE  WaitsCounted'
<1>1. /\ waited \in Nat /\ retries \in Nat /\ retries' = retries + 1
      /\ MaxWait = MaxRetryAfter + MaxJitter /\ MaxWait \in Nat
  BY LimitsAssumption DEF TypeOK, MaxWait
<1>2. /\ retries' * MaxWait = retries * MaxWait + MaxWait
      /\ (retries' - 1) * MaxWait = retries * MaxWait
      /\ (retries - 1) * MaxWait + MaxWait = retries * MaxWait
      /\ retries * MaxWait \in Nat /\ (retries - 1) * MaxWait \in Int
  BY <1>1
<1> QED BY <1>1, <1>2 DEF WaitsCounted

LEMMA SameWaits == WaitsCounted /\ UNCHANGED waits => WaitsCounted'
  BY DEF WaitsCounted, waits

LEMMA IInvStep == IInv /\ [Next]_vars => IInv'
<1> SUFFICES ASSUME IInv, [Next]_vars PROVE IInv'
  OBVIOUS
<1> USE LimitsAssumption, MethodsAssumption
    DEF IInv, TypeOK, TokenHistory, Running, NotYetApplied, CsrfMatchesToken, Statuses,
        request, AttemptsCounted, Refreshes
<1>1. CASE GetToken
  BY <1>1, ToSendType, SameWaits DEF GetToken, waits
<1>2. CASE FetchCsrf
  BY <1>2, SameWaits DEF FetchCsrf, waits
<1>3. CASE Unauthorized
  BY <1>3, SameWaits DEF Unauthorized, Answered, waits
<1>4. CASE RateLimited
  <2>1. retries < MaxRetries
    BY <1>4 DEF RateLimited, Answered
  <2>2. /\ retries' = retries + 1 /\ WaitsCounted' /\ waited' \in Nat
        /\ slept' \in Nat \union {NaN} /\ retries' \in 0..MaxRetries
    BY <1>4, <2>1, PauseStep DEF RateLimited, Pause
  <2> QED BY <1>4, <2>2 DEF RateLimited, Answered
<1>5. CASE ServerError
  <2>1. retries < MaxRetries
    BY <1>5 DEF ServerError, Answered
  <2>2. WaitsCounted'
    BY <1>5, BackoffStep DEF ServerError
  <2> QED BY <1>5, <2>1, <2>2 DEF ServerError, Answered
<1>6. ASSUME NEW s \in Statuses \ {"none"}, Return(s) PROVE IInv'
  BY <1>6, SameWaits DEF Return, Answered, waits
<1>7. CASE Refresh
  BY <1>7, ToSendType, SameWaits DEF Refresh, NextAttempt, waits
<1>8. CASE EndSleep
  BY <1>8, ToSendType, SameWaits DEF EndSleep, NextAttempt, waits
<1>9. CASE Raise
  BY <1>9, SameWaits DEF Raise, waits
<1>10. CASE UNCHANGED vars
  BY <1>10, SameWaits DEF vars, waits
<1> QED BY <1>1, <1>2, <1>3, <1>4, <1>5, <1>6, <1>7, <1>8, <1>9, <1>10 DEF Next

LEMMA IInvHolds == Spec => []IInv
  BY IInvInit, IInvStep, PTL DEF Spec

\* Types of the request's state, for any limits.
THEOREM TypeCorrect == Spec => []TypeOK
  BY IInvHolds, PTL DEF IInv

\* POST, PATCH, PUT and DELETE are carried out at most once.
THEOREM MutationOnce == Spec => []AppliedAtMostOnce
<1>1. IInv => AppliedAtMostOnce
  BY DEF IInv, NotYetApplied, AppliedAtMostOnce
<1> QED BY <1>1, IInvHolds, PTL

\* Whatever Retry-After says, the 429 waits stay within the sleep budget; and
\* where it says "nan", which the check of the budget never catches again, within
\* what the cap of one wait and the number of attempts allow.
THEOREM SleepBounded == Spec => []SleepWithinBudget
<1>1. IInv => SleepWithinBudget
  <2> SUFFICES ASSUME IInv, slept = NaN
               PROVE  waited <= (MaxRetries - 1) * (MaxRetryAfter + MaxJitter)
    BY DEF IInv, WaitsCounted, SleepWithinBudget
  <2>1. /\ retries \in Nat /\ retries <= MaxRetries /\ waited \in Nat /\ MaxRetries \in Nat
        /\ MaxWait = MaxRetryAfter + MaxJitter /\ MaxWait \in Nat
        /\ retries >= 1 /\ waited <= (retries - 1) * MaxWait
    BY LimitsAssumption DEF IInv, TypeOK, WaitsCounted, MaxWait
  <2>2. /\ MaxRetries - retries \in Nat
        /\ (MaxRetries - retries) * MaxWait \in Nat
        /\ (MaxRetries - 1) * MaxWait = (retries - 1) * MaxWait + (MaxRetries - retries) * MaxWait
        /\ (retries - 1) * MaxWait \in Int
    BY <2>1
  <2> QED BY <2>1, <2>2
<1> QED BY <1>1, IInvHolds, PTL

\* No attempt uses a rejected token, or a CSRF token of another access token.
THEOREM NoStaleCredentials == Spec => []CredentialsCurrent
<1>1. IInv => RejectedTokenNotResent
  BY DEF IInv, TypeOK, TokenHistory, Running, RejectedTokenNotResent
<1>2. IInv => CredentialsCurrent
  BY <1>1 DEF IInv, CredentialsCurrent
<1> QED BY <1>2, IInvHolds, PTL

\* An answer the loop retries is handed to the caller only when no attempt is left
\* for it, the refresh of the token having used one up like a retry; and a 401
\* only if the refreshed token was rejected too, or retries alone used them all.
THEOREM RetriedBeforeGivenUp == Spec => []GivenUpOnlyWhenSpent
<1>1. Init => GivenUpOnlyWhenSpent
  BY DEF Init, GivenUpOnlyWhenSpent
<1>2. IInv /\ GivenUpOnlyWhenSpent /\ [Next]_vars => GivenUpOnlyWhenSpent'
  <2> SUFFICES ASSUME IInv, GivenUpOnlyWhenSpent, [Next]_vars
               PROVE  GivenUpOnlyWhenSpent'
    OBVIOUS
  <2> USE LimitsAssumption DEF IInv, TypeOK, GivenUpOnlyWhenSpent, AttemptsCounted, Refreshes
  <2>1. CASE GetToken
    BY <2>1, ToSendType DEF GetToken
  <2>2. CASE FetchCsrf \/ Unauthorized \/ RateLimited \/ ServerError \/ Raise
    BY <2>2 DEF FetchCsrf, Unauthorized, RateLimited, ServerError, Raise
  <2>3. ASSUME NEW s \in Statuses \ {"none"}, Return(s) PROVE GivenUpOnlyWhenSpent'
    <3>1. CASE s = "401"
      <4>1. token = 2 /\ rejected = {1}
        <5>1. refreshed /\ pc = "send"
          BY <2>3, <3>1 DEF Return, Answered
        <5> QED BY <5>1 DEF TokenHistory, Running
      <4> QED BY <2>3, <3>1, <4>1 DEF Return, Answered
    <3>2. CASE s = "5xx"
      <4>1. /\ pc = "send" /\ status' = "5xx" /\ UNCHANGED <<method, refreshed, retries>>
            /\ attempt >= MaxRetries \/ method \notin Idempotent
        BY <2>3, <3>2 DEF Return, Answered, request, waits
      <4>2. attempt = retries + Refreshes
        BY <4>1
      <4> QED BY <4>1, <4>2
    <3>3. CASE s \notin {"401", "5xx"}
      BY <2>3, <3>3 DEF Return, Answered
    <3> QED BY <3>1, <3>2, <3>3
  <2>4. CASE EndSleep
    <3>1. attempt < MaxRetries
      BY <2>4 DEF EndSleep
    <3> QED BY <2>4, <3>1, ToSendType DEF EndSleep, NextAttempt
  <2>5. CASE Refresh
    <3>1. attempt = retries /\ attempt \in 0..MaxRetries /\ UNCHANGED <<status, retries>>
      BY <2>5 DEF Refresh, waits
    <3>2. status = "401"
      BY <2>5 DEF Refresh, TokenHistory
    <3>3. CASE attempt < MaxRetries
      BY <2>5, <3>3, ToSendType DEF Refresh, NextAttempt
    <3>4. CASE ~(attempt < MaxRetries)
      <4>1. retries' = MaxRetries
        BY <3>1, <3>4
      <4> QED BY <3>1, <3>2, <4>1
    <3> QED BY <3>3, <3>4
  <2>6. CASE UNCHANGED vars
    BY <2>6 DEF vars, request, waits
  <2> QED BY <2>1, <2>2, <2>3, <2>4, <2>5, <2>6 DEF Next
<1> QED BY <1>1, <1>2, IInvHolds, PTL DEF Spec

-----------------------------------------------------------------------------
(* The tool odata_query, with the metadata caches.                            *)

\* Where a lookup is under way, it began before there was an entry.
LookupsEarly ==
    /\ awaits \in [Tools \union {Query} -> {Nothing, "keys", "fields", "navs"}]
    /\ \A c \in Tools \union {Query} : awaits[c] \in {"keys", "navs"} => c \in early

\* Nothing has been said of a query before its first extract, nor added to it.
Untouched ==
    queryPc \in {"start", "keys"} =>
        /\ warnings = {} /\ orderAdded = FALSE /\ pagingAdded = FALSE
        /\ order = Given(asked.orders) /\ paging = Given(asked.pages)

\* The flags say what is in query_params, and the answer is the last extract's.
FlagsTrue ==
    /\ orderAdded <=> (order = "added")
    /\ pagingAdded <=> (paging = "added")
    /\ queryPc \in {"answer", "done"} => result.order = order /\ result.paging = paging

Unsorted == warnings \intersect {"unknown", "unsortable", "protected", "order_dropped"} # {}

\* A paged query without an order has its warning, or is about to get one or to fail.
UnsortedTold ==
    (asked.paged /\ order = Nothing /\
     queryPc \in {"extract", "why", "repage", "reorder", "answer", "done"}) => Unsorted

\* What an answer may say of paging that the tool would have added.
Unpaged == warnings \intersect {"paging_dropped", "order_dropped"} # {}

\* A paged query is under paging=snapshot until the retry without it, and where it goes
\* on from there it has its warning, or loses the order, or fails.
UnpagedTold ==
    (asked.paged /\ paging = Nothing /\ ~(asked.v4 \/ asked.top)) =>
        /\ queryPc \notin {"extract", "why"}
        /\ queryPc \in {"answer", "done"} => Unpaged

\* The extract behind each retry, and behind each warning of one.
DropsBacked ==
    /\ queryPc = "why" => paging = "added" /\ <<order, "added">> \in failed
    /\ queryPc = "repage" => paging = Nothing /\ <<order, "added">> \in failed
    /\ queryPc = "reorder" => <<"added", paging>> \in failed
    /\ queryPc = "unordered" => order = Nothing /\ <<"added", paging>> \in failed
    /\ {"paging_dropped", "order_dropped"} \intersect warnings # {} =>
          queryPc \in {"answer", "done", "refused"} /\ result.stopped \notin Failures
    /\ "paging_dropped" \in warnings =>
          result.paging = Nothing /\ <<result.order, "added">> \in failed
    /\ "order_dropped" \in warnings =>
          result.order = Nothing /\ <<"added", result.paging>> \in failed

\* The error shows the request that repeated the extract that failed.
BodyOfResult ==
    /\ queryPc \in {"why", "detail"} => result.order = order /\ result.paging = paging
    /\ queryPc = "error" => body.order = result.order /\ body.paging = result.paging

QueryIInv ==
    /\ QueryTypeOK /\ LookupsEarly /\ Untouched /\ FlagsTrue
    /\ UnsortedTold /\ UnpagedTold /\ DropsBacked /\ BodyOfResult

LEMMA QueryIInvInit ==
    ASSUME QueryInit
    PROVE  QueryIInv
<1> USE NamesAssumption DEF QueryInit, InitMetadata, Given
<1>1. QueryTypeOK
  <2>1. order \in Options /\ paging \in Options
    BY DEF Options
  <2> QED BY <2>1 DEF QueryTypeOK
<1>2. LookupsEarly
  BY DEF LookupsEarly
<1>3. Untouched /\ FlagsTrue
  BY DEF Untouched, FlagsTrue
<1>4. UnsortedTold /\ UnpagedTold
  BY DEF UnsortedTold, UnpagedTold
<1>5. DropsBacked /\ BodyOfResult
  BY DEF DropsBacked, BodyOfResult
<1> QED BY <1>1, <1>2, <1>3, <1>4, <1>5 DEF QueryIInv

\* What a step of the other calls does to the caches: the documents they await keep
\* their names, and a lookup begins only where there is no entry.
LEMMA ToolKeepsCaches ==
    ASSUME QueryTypeOK, LookupsEarly,
           NEW c \in Tools, ToolStep(c, server.keys)
    PROVE  /\ keyCache' \in {Nothing, "unknown", server.keys}
           /\ navCache' \in {Nothing, "navs", "warning"}
           /\ awaits'[Query] = awaits[Query]
           /\ early' \subseteq Tools \union {Query}
           /\ LookupsEarly'
<1> USE NamesAssumption DEF QueryTypeOK, LookupsEarly, Await, Ask, Miss, caches
<1>1. CASE AskKeys(c)
  BY <1>1 DEF AskKeys
<1>2. CASE AskFields(c)
  BY <1>2 DEF AskFields
<1>3. CASE FieldsCome(c)
  BY <1>3 DEF FieldsCome
<1>4. CASE StoreNavs(c)
  BY <1>4 DEF StoreNavs
<1>5. CASE Cancelled(c)
  BY <1>5 DEF Cancelled
<1>6. ASSUME NEW found \in {server.keys, "unknown"}, StoreKeys(c, found)
      PROVE  /\ keyCache' \in {Nothing, "unknown", server.keys}
             /\ navCache' \in {Nothing, "navs", "warning"}
             /\ awaits'[Query] = awaits[Query]
             /\ early' \subseteq Tools \union {Query}
             /\ LookupsEarly'
  BY <1>6 DEF StoreKeys
<1> QED BY <1>1, <1>2, <1>3, <1>4, <1>5, <1>6 DEF ToolStep

\* The options and warnings of a paged pull that goes on with the keys it found.
LEMMA OrderAndPageTypes ==
    ASSUME QueryTypeOK, NEW found \in {"unknown", server.keys},
           OrderAndPage(found)
    PROVE  /\ queryPc' = "extract"
           /\ order' \in Options /\ paging' \in Options
           /\ orderAdded' \in BOOLEAN /\ pagingAdded' \in BOOLEAN
           /\ warnings' \subseteq warnings \union {"unknown", "unsortable", "protected"}
<1>1. found \in {"unknown", "unsortable", "sortable", "protected"}
  BY DEF QueryTypeOK, Servers
<1>2. /\ order' \in Options /\ orderAdded' \in BOOLEAN
      /\ warnings' \subseteq warnings \union {"unknown", "unsortable", "protected"}
  <2>1. CASE asked.orders
    BY <2>1 DEF OrderAndPage, Ordering, QueryTypeOK
  <2>2. CASE ~asked.orders /\ (found = "sortable" \/ (found = "protected" /\ ~asked.pii))
    BY <2>2 DEF OrderAndPage, Ordering, Options
  <2>3. CASE ~asked.orders /\ ~(found = "sortable" \/ (found = "protected" /\ ~asked.pii))
    BY <1>1, <2>3 DEF OrderAndPage, Ordering, QueryTypeOK
  <2> QED BY <2>1, <2>2, <2>3
<1>3. paging' \in Options /\ pagingAdded' \in BOOLEAN
  BY DEF OrderAndPage, Paging, QueryTypeOK, Options
<1> QED BY <1>2, <1>3 DEF OrderAndPage

LEMMA OutcomesAreReasons == Outcomes \subseteq Reasons
  BY DEF Outcomes, Reasons, Failures

LEMMA QueryTypeStep ==
    ASSUME QueryTypeOK, LookupsEarly, [QueryNext]_queryVars
    PROVE  QueryTypeOK' /\ LookupsEarly'
<1> USE NamesAssumption DEF metadata, caches
<1>1. CASE Begin
  <2> USE <1>1 DEF Begin
  <2>1. CASE UNCHANGED <<metadata, order, paging, orderAdded, pagingAdded, warnings>>
    BY <2>1 DEF QueryTypeOK, LookupsEarly, Ask, Await, OrderAndPage
  <2>2. CASE ~Miss(keyCache) /\ OrderAndPage(keyCache) /\ UNCHANGED metadata
    BY <2>2, OrderAndPageTypes DEF QueryTypeOK, LookupsEarly, Miss
  <2>3. CASE Miss(keyCache) /\ Ask(Query, "keys", keyCache) /\ queryPc' = "keys"
    BY <2>3 DEF QueryTypeOK, LookupsEarly, Ask, Await, Miss
  <2> QED BY <2>1, <2>2, <2>3
<1>2. CASE KeysKnown
  <2>1. PICK found \in {server.keys, "unknown"} :
            StoreKeys(Query, found) /\ OrderAndPage(found)
    BY <1>2 DEF KeysKnown
  <2>2. /\ awaits' = [awaits EXCEPT ![Query] = Nothing] /\ early' = early \ {Query}
        /\ keyCache' = found /\ navCache' = navCache
    BY <2>1 DEF StoreKeys, Await
  <2> QED BY <1>2, <2>1, <2>2, OrderAndPageTypes DEF KeysKnown, QueryTypeOK, LookupsEarly
<1>3. CASE Cancel
  BY <1>3 DEF Cancel, Cancelled, Await, QueryTypeOK, LookupsEarly
<1>4. CASE Extract
  BY <1>4, OutcomesAreReasons DEF Extract, Received, Onward, QueryTypeOK, LookupsEarly
<1>5. CASE Why
  <2>1. paging' \in Options /\ pagingAdded' \in BOOLEAN
    BY <1>5 DEF Why, QueryTypeOK, Options
  <2>2. queryPc' \in {"repage", "reorder", "detail"} /\ queryPc = "why"
    BY <1>5 DEF Why
  <2>3. UNCHANGED <<metadata, asked, server, order, orderAdded, result, warnings, failed, body>>
    BY <1>5 DEF Why
  <2> QED BY <2>1, <2>2, <2>3 DEF QueryTypeOK, LookupsEarly
<1>6. CASE Repage
  BY <1>6, OutcomesAreReasons
     DEF Repage, Received, Onward, Warned, QueryTypeOK, LookupsEarly
<1>7. CASE Reorder
  <2>1. order' \in Options /\ orderAdded' \in BOOLEAN
    BY <1>7 DEF Reorder, Options
  <2> QED BY <1>7, <2>1 DEF Reorder, QueryTypeOK, LookupsEarly
<1>8. CASE Unordered
  BY <1>8, OutcomesAreReasons
     DEF Unordered, Received, Warned, QueryTypeOK, LookupsEarly
<1>9. CASE Detail
  BY <1>9 DEF Detail, ErrorBody, QueryTypeOK, LookupsEarly
<1>10. CASE Answer \/ RaiseFault
  BY <1>10 DEF Answer, RaiseFault, QueryTypeOK, LookupsEarly
<1>11. CASE Again
  <2>1. order' \in Options /\ paging' \in Options
    BY <1>11 DEF Again, Given, Options
  <2> QED BY <1>11, <2>1 DEF Again, QueryTypeOK, LookupsEarly
<1>12. ASSUME NEW c \in Tools, Other(c) PROVE QueryTypeOK' /\ LookupsEarly'
  <2>1. ToolStep(c, server.keys)
    BY <1>12 DEF Other
  <2>2. UNCHANGED <<asked, server, queryPc, order, paging, orderAdded, pagingAdded, result,
                    warnings, failed, body>>
    BY <1>12 DEF Other
  <2>3. /\ keyCache' \in {Nothing, "unknown", server.keys}
        /\ navCache' \in {Nothing, "navs", "warning"}
        /\ awaits'[Query] = awaits[Query]
        /\ early' \subseteq Tools \union {Query}
        /\ LookupsEarly'
    BY <2>1, ToolKeepsCaches
  <2> QED BY <2>2, <2>3 DEF QueryTypeOK, LookupsEarly
<1>13. CASE UNCHANGED queryVars
  BY <1>13 DEF queryVars, QueryTypeOK, LookupsEarly
<1> QED BY <1>1, <1>2, <1>3, <1>4, <1>5, <1>6, <1>7, <1>8, <1>9, <1>10, <1>11, <1>12, <1>13
        DEF QueryNext

\* Before the first extract there is nothing to be kept: only the call itself gets there.
LEMMA UntouchedStep ==
    ASSUME QueryIInv, [QueryNext]_queryVars
    PROVE  Untouched'
<1> USE DEF QueryIInv, Untouched
<1>1. CASE Begin
  BY <1>1 DEF Begin, OrderAndPage
<1>2. CASE KeysKnown
  BY <1>2 DEF KeysKnown, OrderAndPage
<1>3. CASE Extract \/ Repage \/ Unordered
  BY <1>3 DEF Extract, Repage, Unordered, Onward
<1>4. CASE Cancel \/ Why \/ Reorder \/ Detail \/ Answer \/ RaiseFault
  BY <1>4 DEF Cancel, Why, Reorder, Detail, Answer, RaiseFault
<1>5. CASE Again
  BY <1>5 DEF Again
<1>6. ASSUME NEW c \in Tools, Other(c) PROVE Untouched'
  BY <1>6 DEF Other
<1>7. CASE UNCHANGED queryVars
  BY <1>7 DEF queryVars
<1> QED BY <1>1, <1>2, <1>3, <1>4, <1>5, <1>6, <1>7 DEF QueryNext

\* What the keys do to a query nothing has been added to: it is ordered, or the
\* answer will say why it is not.
LEMMA KeysOrderOrWarn ==
    ASSUME QueryIInv, queryPc \in {"start", "keys"},
           NEW found \in {"unknown", server.keys}, OrderAndPage(found)
    PROVE  /\ orderAdded' <=> (order' = "added")
           /\ pagingAdded' <=> (paging' = "added")
           /\ order' = Nothing => Unsorted'
           /\ paging' = Nothing => asked.v4 \/ asked.top
           /\ {"paging_dropped", "order_dropped"} \intersect warnings' = {}
<1> USE NamesAssumption DEF QueryIInv, Untouched
<1>1. found \in {"unknown", "unsortable", "sortable", "protected"}
  BY DEF QueryTypeOK, Servers
<1>2. /\ pagingAdded' <=> (paging' = "added")
      /\ paging' = Nothing => asked.v4 \/ asked.top
  BY DEF OrderAndPage, Paging, Given
<1>3. CASE asked.orders
  BY <1>2, <1>3 DEF OrderAndPage, Ordering, Given
<1>4. CASE ~asked.orders /\ (found = "sortable" \/ (found = "protected" /\ ~asked.pii))
  BY <1>2, <1>4 DEF OrderAndPage, Ordering
<1>5. CASE ~asked.orders /\ ~(found = "sortable" \/ (found = "protected" /\ ~asked.pii))
  BY <1>1, <1>2, <1>5 DEF OrderAndPage, Ordering, Given, Unsorted
<1> QED BY <1>3, <1>4, <1>5

LEMMA FlagsStep ==
    ASSUME QueryIInv, [QueryNext]_queryVars
    PROVE  FlagsTrue'
<1> USE DEF QueryIInv, FlagsTrue
<1>1. CASE Begin
  <2> USE <1>1 DEF Begin
  <2>1. CASE UNCHANGED <<order, paging, orderAdded, pagingAdded>>
    BY <2>1 DEF OrderAndPage
  <2>2. CASE ~Miss(keyCache) /\ OrderAndPage(keyCache)
    BY <2>2, KeysOrderOrWarn DEF QueryTypeOK, Miss, OrderAndPage
  <2> QED BY <2>1, <2>2
<1>2. CASE KeysKnown
  BY <1>2, KeysOrderOrWarn DEF KeysKnown, OrderAndPage
<1>3. CASE Extract \/ Repage \/ Unordered
  BY <1>3 DEF Extract, Repage, Unordered, Received
<1>4. CASE Why \/ Reorder
  BY <1>4, NamesAssumption DEF Why, Reorder
<1>5. CASE Cancel \/ Detail \/ Answer \/ RaiseFault
  BY <1>5 DEF Cancel, Detail, Answer, RaiseFault
<1>6. CASE Again
  BY <1>6, NamesAssumption DEF Again, Given
<1>7. ASSUME NEW c \in Tools, Other(c) PROVE FlagsTrue'
  BY <1>7 DEF Other
<1>8. CASE UNCHANGED queryVars
  BY <1>8 DEF queryVars
<1> QED BY <1>1, <1>2, <1>3, <1>4, <1>5, <1>6, <1>7, <1>8 DEF QueryNext

LEMMA UnsortedStep ==
    ASSUME QueryIInv, [QueryNext]_queryVars
    PROVE  UnsortedTold'
<1> USE DEF QueryIInv, UnsortedTold
<1>1. CASE Begin
  <2> USE <1>1 DEF Begin
  <2>1. CASE queryPc' = "refused" \/ (~asked.paged /\ queryPc' = "extract")
    BY <2>1
  <2>2. CASE ~Miss(keyCache) /\ OrderAndPage(keyCache)
    BY <2>2, KeysOrderOrWarn DEF QueryTypeOK, Miss
  <2>3. CASE queryPc' = "keys"
    BY <2>3
  <2> QED BY <2>1, <2>2, <2>3
<1>2. CASE KeysKnown
  BY <1>2, KeysOrderOrWarn DEF KeysKnown
<1>3. CASE Extract
  BY <1>3 DEF Extract, Onward, Unsorted
<1>4. CASE Repage
  BY <1>4 DEF Repage, Onward, Warned, Unsorted
<1>5. CASE Unordered
  BY <1>5 DEF Unordered, Warned, Unsorted
<1>6. CASE Why
  BY <1>6 DEF Why, Unsorted
<1>7. CASE Cancel \/ Reorder \/ Detail \/ RaiseFault \/ Again
  BY <1>7 DEF Cancel, Reorder, Detail, RaiseFault, Again
<1>8. CASE Answer
  BY <1>8 DEF Answer, Unsorted
<1>9. ASSUME NEW c \in Tools, Other(c) PROVE UnsortedTold'
  BY <1>9 DEF Other, Unsorted
<1>10. CASE UNCHANGED queryVars
  BY <1>10 DEF queryVars, Unsorted
<1> QED BY <1>1, <1>2, <1>3, <1>4, <1>5, <1>6, <1>7, <1>8, <1>9, <1>10 DEF QueryNext

LEMMA UnpagedStep ==
    ASSUME QueryIInv, [QueryNext]_queryVars
    PROVE  UnpagedTold'
<1> USE DEF QueryIInv, UnpagedTold
<1>1. CASE Begin
  <2> USE <1>1 DEF Begin
  <2>1. CASE queryPc' = "refused" \/ (~asked.paged /\ queryPc' = "extract")
    BY <2>1
  <2>2. CASE ~Miss(keyCache) /\ OrderAndPage(keyCache)
    BY <2>2, KeysOrderOrWarn DEF QueryTypeOK, Miss, OrderAndPage
  <2>3. CASE queryPc' = "keys"
    BY <2>3
  <2> QED BY <2>1, <2>2, <2>3
<1>2. CASE KeysKnown
  BY <1>2, KeysOrderOrWarn DEF KeysKnown, OrderAndPage
<1>3. CASE Extract
  BY <1>3 DEF Extract, Onward, Unpaged
<1>4. CASE Repage
  BY <1>4 DEF Repage, Onward, Warned, Unpaged
<1>5. CASE Unordered
  BY <1>5 DEF Unordered, Warned, Unpaged
<1>6. CASE Why
  BY <1>6 DEF Why, Unpaged
<1>7. CASE Cancel \/ Reorder \/ Detail \/ RaiseFault \/ Again
  BY <1>7 DEF Cancel, Reorder, Detail, RaiseFault, Again
<1>8. CASE Answer
  BY <1>8 DEF Answer, Unpaged
<1>9. ASSUME NEW c \in Tools, Other(c) PROVE UnpagedTold'
  BY <1>9 DEF Other, Unpaged
<1>10. CASE UNCHANGED queryVars
  BY <1>10 DEF queryVars, Unpaged
<1> QED BY <1>1, <1>2, <1>3, <1>4, <1>5, <1>6, <1>7, <1>8, <1>9, <1>10 DEF QueryNext

LEMMA DropsStep ==
    ASSUME QueryIInv, [QueryNext]_queryVars
    PROVE  DropsBacked'
<1> USE DEF QueryIInv, DropsBacked
<1>1. CASE Begin
  <2> USE <1>1 DEF Begin
  <2>1. CASE UNCHANGED warnings /\ queryPc' \in {"refused", "extract", "keys"}
    BY <2>1 DEF Untouched
  <2>2. CASE ~Miss(keyCache) /\ OrderAndPage(keyCache)
    BY <2>2, KeysOrderOrWarn DEF QueryTypeOK, Miss, OrderAndPage
  <2> QED BY <2>1, <2>2
<1>2. CASE KeysKnown
  BY <1>2, KeysOrderOrWarn DEF KeysKnown, OrderAndPage
<1>3. CASE Extract
  <2>1. PICK reason \in Outcomes : Received(reason) /\ Onward(reason, {"paging"})
    BY <1>3 DEF Extract
  <2>2. queryPc = "extract" /\ UNCHANGED <<order, paging, orderAdded, pagingAdded, warnings>>
    BY <1>3 DEF Extract
  <2>3. failed \subseteq failed' /\ (reason = "http_error" => <<order, paging>> \in failed')
    BY <2>1 DEF Received
  <2>4. queryPc' \in {"why", "reorder", "detail", "answer"}
    BY <2>1 DEF Onward
  <2>5. queryPc' = "why" => reason = "http_error" /\ pagingAdded
    BY <2>1 DEF Onward
  <2>6. queryPc' = "reorder" => reason = "http_error" /\ orderAdded
    BY <2>1 DEF Onward
  <2> QED BY <2>2, <2>3, <2>4, <2>5, <2>6 DEF FlagsTrue
<1>4. CASE Repage
  <2>1. PICK reason \in Outcomes :
            Received(reason) /\ Warned("paging_dropped", reason) /\ Onward(reason, {})
    BY <1>4 DEF Repage
  <2>2. queryPc = "repage" /\ UNCHANGED <<order, paging, orderAdded, pagingAdded>>
    BY <1>4 DEF Repage
  <2>3. failed \subseteq failed' /\ (reason = "http_error" => <<order, paging>> \in failed')
    BY <2>1 DEF Received
  <2>4. result'.stopped = reason /\ result'.order = order /\ result'.paging = paging
    BY <2>1 DEF Received
  <2>5. queryPc' \in {"reorder", "detail", "answer"}
    BY <2>1 DEF Onward
  <2>6. queryPc' = "reorder" => reason = "http_error" /\ orderAdded
    BY <2>1 DEF Onward
  <2>7. CASE reason \in Failures
    <3>1. UNCHANGED warnings
      BY <2>1, <2>7 DEF Warned
    <3> QED BY <2>2, <2>3, <2>5, <2>6, <3>1 DEF FlagsTrue
  <2>8. CASE reason \notin Failures
    <3>1. warnings' = warnings \union {"paging_dropped"} /\ queryPc' = "answer"
      BY <2>1, <2>8 DEF Warned, Onward, Failures
    <3> QED BY <2>2, <2>3, <2>4, <2>8, <3>1
  <2> QED BY <2>7, <2>8
<1>5. CASE Unordered
  <2>1. PICK reason \in Outcomes : Received(reason) /\ Warned("order_dropped", reason)
    BY <1>5 DEF Unordered
  <2>2. queryPc = "unordered" /\ UNCHANGED <<order, paging>>
    BY <1>5 DEF Unordered
  <2>3. failed \subseteq failed'
    BY <2>1 DEF Received
  <2>4. result'.stopped = reason /\ result'.order = order /\ result'.paging = paging
    BY <2>1 DEF Received
  <2>5. CASE reason \in Failures
    <3>1. UNCHANGED warnings
      BY <2>1, <2>5 DEF Warned
    <3>2. queryPc' \in {"detail", "answer"}
      BY <1>5 DEF Unordered
    <3> QED BY <2>2, <3>1, <3>2
  <2>6. CASE reason \notin Failures
    <3>1. warnings' = warnings \union {"order_dropped"}
      BY <2>1, <2>6 DEF Warned
    <3>2. queryPc' = "answer"
      <4>1. PICK r \in Outcomes : Received(r) /\ queryPc' = IF r \in Failures THEN "detail" ELSE "answer"
        BY <1>5 DEF Unordered
      <4>2. r = reason
        BY <2>4, <4>1 DEF Received
      <4> QED BY <2>6, <4>1, <4>2
    <3> QED BY <2>2, <2>3, <2>4, <2>6, <3>1, <3>2
  <2> QED BY <2>5, <2>6
<1>6. CASE Why
  <2>1. UNCHANGED <<order, orderAdded, warnings, failed, result>> /\ queryPc = "why"
    BY <1>6 DEF Why
  <2>2. CASE queryPc' = "repage" /\ paging' = Nothing
    BY <2>1, <2>2
  <2>3. CASE queryPc' \in {"reorder", "detail"} /\ UNCHANGED paging
    <3>1. queryPc' = "reorder" => <<"added", paging>> \in failed
      BY <1>6, <2>1, <2>3 DEF Why, FlagsTrue
    <3> QED BY <2>1, <2>3, <3>1
  <2> QED BY <1>6, <2>2, <2>3 DEF Why
<1>7. CASE Reorder
  BY <1>7 DEF Reorder
<1>8. CASE Cancel \/ Detail \/ Answer \/ RaiseFault \/ Again
  BY <1>8 DEF Cancel, Detail, Answer, RaiseFault, Again
<1>9. ASSUME NEW c \in Tools, Other(c) PROVE DropsBacked'
  BY <1>9 DEF Other
<1>10. CASE UNCHANGED queryVars
  BY <1>10 DEF queryVars
<1> QED BY <1>1, <1>2, <1>3, <1>4, <1>5, <1>6, <1>7, <1>8, <1>9, <1>10 DEF QueryNext

LEMMA BodyStep ==
    ASSUME QueryIInv, [QueryNext]_queryVars
    PROVE  BodyOfResult'
<1> USE DEF QueryIInv, BodyOfResult
<1>1. CASE Begin \/ KeysKnown \/ Cancel \/ Reorder \/ Answer \/ RaiseFault \/ Again
  BY <1>1 DEF Begin, KeysKnown, OrderAndPage, Cancel, Reorder, Answer, RaiseFault, Again
<1>2. CASE Extract \/ Repage \/ Unordered
  BY <1>2 DEF Extract, Repage, Unordered, Onward, Received
<1>3. CASE Why
  BY <1>3 DEF Why
<1>4. CASE Detail
  BY <1>4 DEF Detail
<1>5. ASSUME NEW c \in Tools, Other(c) PROVE BodyOfResult'
  BY <1>5 DEF Other
<1>6. CASE UNCHANGED queryVars
  BY <1>6 DEF queryVars
<1> QED BY <1>1, <1>2, <1>3, <1>4, <1>5, <1>6 DEF QueryNext

LEMMA QueryStep ==
    ASSUME QueryIInv, [QueryNext]_queryVars
    PROVE  QueryIInv'
<1>1. QueryTypeOK' /\ LookupsEarly'
  BY QueryTypeStep DEF QueryIInv
<1> QED BY <1>1, UntouchedStep, FlagsStep, UnsortedStep, UnpagedStep, DropsStep, BodyStep
        DEF QueryIInv

LEMMA QueryHolds == QuerySpec => []QueryIInv
<1>1. QueryInit => QueryIInv
  BY QueryIInvInit
<1>2. QueryIInv /\ [QueryNext]_queryVars => QueryIInv'
  BY QueryStep
<1> QED BY <1>1, <1>2, PTL DEF QuerySpec

\* Types of the query's state and of the caches, whatever the calls and the tools.
THEOREM QueryTypeCorrect == QuerySpec => []QueryTypeOK
<1>1. QueryIInv => QueryTypeOK
  BY DEF QueryIInv
<1> QED BY <1>1, QueryHolds, PTL

\* An unsorted paged answer says so, and so does one that lost its paging, however they
\* were lost; and a warning that an option was dropped stands between an extract that
\* failed with it and the one, without it, that the records came from.
THEOREM WarningsHold == QuerySpec => []WarningsTrue
<1>1. QueryIInv => WarningsTrue
  <2> SUFFICES ASSUME QueryIInv PROVE WarningsTrue
    OBVIOUS
  <2> USE DEF QueryIInv
  <2>1. queryPc = "done" => result.order = order /\ result.paging = paging
    BY DEF FlagsTrue
  <2> QED BY <2>1 DEF UnsortedTold, Unsorted, UnpagedTold, Unpaged, DropsBacked, Backed, WarningsTrue
<1> QED BY <1>1, QueryHolds, PTL

\* orderby_added and paging_added speak of the extract the records came from, and the
\* body of an error of the extract that failed.
THEOREM ReportHolds == QuerySpec => []ReportedAsSent
<1>1. QueryIInv => ReportedAsSent
  BY DEF QueryIInv, FlagsTrue, BodyOfResult, ReportedAsSent
<1> QED BY <1>1, QueryHolds, PTL

\* A lookup begins only where nothing has been learned, and replaces what another one
\* learned only if it had begun before.
THEOREM ReplacedByOverlapHolds == QuerySpec => ReplacedOnlyByOverlap
<1> DEFINE Replaced ==
      /\ \A c \in Tools \union {Query} :
            /\ (awaits'[c] = "keys" /\ awaits[c] # "keys") => keyCache = Nothing
            /\ (awaits'[c] = "navs" /\ awaits[c] # "navs") => navCache = Nothing
      /\ (keyCache # Nothing /\ keyCache' # keyCache) =>
            \E c \in early : awaits[c] = "keys" /\ awaits'[c] # "keys"
      /\ (navCache # Nothing /\ navCache' # navCache) =>
            \E c \in early : awaits[c] = "navs" /\ awaits'[c] # "navs"
<1>1. QueryIInv /\ [QueryNext]_queryVars => [Replaced]_metadata
  <2> SUFFICES ASSUME QueryIInv, [QueryNext]_queryVars PROVE Replaced \/ UNCHANGED metadata
    OBVIOUS
  <2> USE NamesAssumption DEF QueryIInv, LookupsEarly, Await, caches
  <2>1. CASE UNCHANGED metadata
    BY <2>1 DEF metadata
  <2>2. ASSUME NEW c \in Tools \union {Query}, NEW found, StoreKeys(c, found)
        PROVE  Replaced
    <3>1. awaits' = [awaits EXCEPT ![c] = Nothing] /\ c \in early /\ awaits[c] = "keys"
      BY <2>2 DEF StoreKeys
    <3>2. awaits'[c] = Nothing /\ UNCHANGED navCache
      BY <2>2, <3>1 DEF StoreKeys
    <3> QED BY <3>1, <3>2
  <2>3. ASSUME NEW c \in Tools, StoreNavs(c) PROVE Replaced
    <3>1. awaits' = [awaits EXCEPT ![c] = Nothing] /\ c \in early /\ awaits[c] = "navs"
      BY <2>3 DEF StoreNavs
    <3>2. awaits'[c] = Nothing /\ UNCHANGED keyCache
      BY <2>3, <3>1 DEF StoreNavs
    <3> QED BY <3>1, <3>2
  <2>4. ASSUME NEW c \in Tools \union {Query}, NEW document \in {Nothing, "keys", "fields", "navs"},
               awaits' = [awaits EXCEPT ![c] = document], UNCHANGED caches,
               document = "keys" => keyCache = Nothing,
               document = "navs" => navCache = Nothing
        PROVE  Replaced
    BY <2>4
  <2>5. CASE KeysKnown
    BY <2>2, <2>5 DEF KeysKnown
  <2>6. ASSUME NEW c \in Tools, Other(c) PROVE Replaced
    <3>1. ToolStep(c, server.keys)
      BY <2>6 DEF Other
    <3>2. CASE AskKeys(c)
      BY <2>4, <3>2 DEF AskKeys, Ask, Miss
    <3>3. CASE AskFields(c)
      BY <2>4, <3>3 DEF AskFields
    <3>4. CASE FieldsCome(c)
      BY <2>4, <3>4 DEF FieldsCome, Ask, Miss
    <3>5. CASE Cancelled(c)
      BY <2>4, <3>5 DEF Cancelled
    <3> QED BY <2>2, <2>3, <3>1, <3>2, <3>3, <3>4, <3>5 DEF ToolStep
  <2>7. CASE Begin
    <3>1. CASE UNCHANGED metadata
      BY <2>1, <3>1
    <3>2. CASE Miss(keyCache) /\ Ask(Query, "keys", keyCache) /\ UNCHANGED caches
      BY <2>4, <3>2 DEF Ask, Miss
    <3> QED BY <2>7, <3>1, <3>2 DEF Begin
  <2>8. CASE Cancel
    BY <2>4, <2>8 DEF Cancel, Cancelled
  <2>9. CASE Extract \/ Why \/ Repage \/ Reorder \/ Unordered \/ Detail
             \/ Answer \/ RaiseFault \/ Again
    BY <2>9 DEF Extract, Why, Repage, Reorder, Unordered, Detail,
                Answer, RaiseFault, Again
  <2>10. CASE UNCHANGED queryVars
    BY <2>1, <2>10 DEF queryVars, metadata
  <2> QED BY <2>5, <2>6, <2>7, <2>8, <2>9, <2>10 DEF QueryNext
<1> QED BY <1>1, QueryHolds, PTL DEF QuerySpec, ReplacedOnlyByOverlap
=============================================================================
