----------------------------- MODULE RequestRetry -----------------------------
(***************************************************************************)
(* One call of ODataClient.request (services/odata_client.py): the loop     *)
(* that sends, refreshes the token once on a 401, waits out 429s within a   *)
(* budget and retries a 5xx of a method that is safe to repeat, fetching a  *)
(* CSRF token before every mutating send, all under within_request_limit.   *)
(* Everything between two awaits is one action.  Token acquisition is       *)
(* TokenCache; here a token is the number of mints this request has seen.   *)
(***************************************************************************)
EXTENDS Integers

CONSTANTS
    Mutating,           \* _MUTATING
    Idempotent,         \* _IDEMPOTENT_FOR_5XX_RETRY
    MaxRetries,         \* _MAX_RETRIES
    MaxRetryAfter,      \* _MAX_RETRY_AFTER_SECONDS
    MaxRetrySleep,      \* MAX_RETRY_SLEEP_SECONDS
    MaxJitter,          \* the largest jitter added to a wait
    RetryAfters,        \* Retry-After values float() or the date parser reads
    NoHeader,           \* no Retry-After, or one that does not parse
    NaN                 \* not a number, which float() reads from "nan"

ASSUME MethodsAssumption == Mutating \intersect Idempotent = {}
ASSUME LimitsAssumption ==
    /\ MaxRetries \in Nat /\ MaxRetryAfter \in Nat \ {0}
    /\ MaxRetrySleep \in Nat /\ MaxJitter \in Nat
    /\ RetryAfters \subseteq Int \union {NaN}
    /\ NoHeader \notin Int /\ NaN \notin Int /\ NaN # NoHeader

Methods == Mutating \union Idempotent

VARIABLES
    method, csrfProtected,  \* the request
    pc,         \* "token", "csrf", "send", "refresh", "sleep", "returned", "raised"
    attempt,    \* the loop variable
    token,      \* the access token in hand, as the number of mints so far
    refreshed,  \* token_refreshed
    slept,      \* the sum of the 429 waits
    status,     \* the last answer
    waited,     \* history: the time spent on them
    retries,    \* history: waits after a 429 or a 5xx
    csrfFor,    \* history: the access token the CSRF token was fetched with
    rejected,   \* history: the access tokens answered with a 401
    applied     \* history: how often the server carried the request out

request == <<method, csrfProtected>>
waits == <<slept, waited, retries>>
vars == <<request, pc, attempt, token, refreshed, waits, status, csrfFor, rejected, applied>>
Statuses == {"none", "2xx", "401", "4xx", "429", "5xx"}

Init ==
    /\ method \in Methods /\ csrfProtected \in BOOLEAN
    /\ pc = "token"
    /\ attempt = 0 /\ token = 0 /\ slept = 0 /\ waited = 0 /\ retries = 0
    /\ refreshed = FALSE /\ status = "none"
    /\ csrfFor = 0 /\ rejected = {} /\ applied = 0

\* _do: a mutating request first fetches a CSRF token.
ToSend == IF method \in Mutating /\ csrfProtected THEN "csrf" ELSE "send"

\* "continue": the next attempt, or the loop runs out and the last answer is
\* returned.
NextAttempt ==
    IF attempt < MaxRetries
    THEN attempt' = attempt + 1 /\ pc' = ToSend
    ELSE attempt' = attempt /\ pc' = "returned"

\* Floats: NaN swallows what is added to it, and compares as FALSE.
Plus(a, b) == IF NaN \in {a, b} THEN NaN ELSE a + b
Exceeds(a, b) == a # NaN /\ a > b

\* _parse_retry_after.  min and max let NaN through.
Wait(h) ==
    CASE h = NoHeader                       -> 1
      [] h = NaN                            -> NaN
      [] h \in 0..MaxRetryAfter             -> h
      [] h \in Int /\ h < 0                 -> 0
      [] h \in Int /\ h > MaxRetryAfter     -> MaxRetryAfter

-----------------------------------------------------------------------------
\* The first _get_token: cached or minted.
GetToken ==
    /\ pc = "token"
    /\ token' = 1 /\ pc' = ToSend
    /\ UNCHANGED <<request, attempt, refreshed, waits, status, csrfFor, rejected, applied>>

\* _fetch_csrf_token: whatever the server answers, the send follows.
FetchCsrf ==
    /\ pc = "csrf"
    /\ csrfFor' = token /\ pc' = "send"
    /\ UNCHANGED <<request, attempt, token, refreshed, waits, status, rejected, applied>>

\* send_capped got an answer s.  A 401 or 429 was not carried out, a 5xx may
\* have been.
Answered(s) ==
    /\ pc = "send"
    /\ status' = s
    /\ rejected' = IF s = "401" THEN rejected \union {token} ELSE rejected
    /\ applied' \in CASE s = "2xx" -> {applied + 1}
                      [] s = "5xx" -> {applied, applied + 1}
                      [] OTHER     -> {applied}
    /\ UNCHANGED <<request, token, csrfFor>>

\* Mutant: the refreshed token is for the next request.
UnauthorizedReturned ==
    /\ ~refreshed
    /\ Answered("401")
    /\ pc' = "returned"
    /\ UNCHANGED <<attempt, refreshed, waits>>

\* The first 401 of the request.
Unauthorized ==
    /\ ~refreshed
    /\ Answered("401")
    /\ pc' = "refresh"
    /\ UNCHANGED <<attempt, refreshed, waits>>

\* The wait h asks for, with its jitter j.  asyncio.sleep(nan) does not wait (or
\* raises: see Raise).
Pause(h, j) ==
    /\ slept' = Plus(slept, Plus(Wait(h), j))
    /\ waited' = IF Wait(h) = NaN THEN waited ELSE waited + Wait(h) + j
    /\ retries' = retries + 1

\* Mutant: the budget is checked before the next wait is added to it.
RateLimitedLate ==
    /\ attempt < MaxRetries
    /\ Answered("429")
    /\ \E h \in RetryAfters \union {NoHeader}, j \in 0..MaxJitter :
          ~Exceeds(slept, MaxRetrySleep) /\ Pause(h, j)
    /\ pc' = "sleep"
    /\ UNCHANGED <<attempt, refreshed>>

\* A 429 within the retry and sleep budgets: the wait and its jitter.
RateLimited ==
    /\ attempt < MaxRetries
    /\ Answered("429")
    /\ \E h \in RetryAfters \union {NoHeader}, j \in 0..MaxJitter :
          ~Exceeds(Plus(slept, Wait(h)), MaxRetrySleep) /\ Pause(h, j)
    /\ pc' = "sleep"
    /\ UNCHANGED <<attempt, refreshed>>

\* Mutant: a 5xx is retried whatever the method.
ServerErrorAnyMethod ==
    /\ attempt < MaxRetries
    /\ Answered("5xx")
    /\ pc' = "sleep" /\ retries' = retries + 1
    /\ UNCHANGED <<attempt, refreshed, slept, waited>>

\* A 5xx of a method that is safe to repeat: exponential backoff.
ServerError ==
    /\ attempt < MaxRetries /\ method \in Idempotent
    /\ Answered("5xx")
    /\ pc' = "sleep" /\ retries' = retries + 1
    /\ UNCHANGED <<attempt, refreshed, slept, waited>>

\* "break": any other answer is the caller's.
Return(s) ==
    /\ CASE s = "401" -> refreshed
         [] s = "429" -> \/ attempt >= MaxRetries
                         \/ \E h \in RetryAfters \union {NoHeader} :
                               Exceeds(Plus(slept, Wait(h)), MaxRetrySleep)
         [] s = "5xx" -> attempt >= MaxRetries \/ method \notin Idempotent
         [] OTHER     -> TRUE
    /\ Answered(s)
    /\ pc' = "returned"
    /\ UNCHANGED <<attempt, refreshed, waits>>

\* Mutant: the token comes from the cache again.
RefreshFromCache ==
    /\ pc = "refresh"
    /\ refreshed' = TRUE
    /\ NextAttempt
    /\ UNCHANGED <<request, token, waits, status, csrfFor, rejected, applied>>

\* The forced mint after a 401.
Refresh ==
    /\ pc = "refresh"
    /\ token' = token + 1 /\ refreshed' = TRUE
    /\ NextAttempt
    /\ UNCHANGED <<request, waits, status, csrfFor, rejected, applied>>

EndSleep ==
    /\ pc = "sleep"
    /\ NextAttempt
    /\ UNCHANGED <<request, token, refreshed, waits, status, csrfFor, rejected, applied>>

\* A failed mint, a transport error, a response over the size cap, the request
\* limit or a cancellation, at any await.  A request on the wire may have been
\* carried out.
Raise ==
    /\ pc \notin {"returned", "raised"}
    /\ pc' = "raised"
    /\ applied' \in IF pc = "send" THEN {applied, applied + 1} ELSE {applied}
    /\ UNCHANGED <<request, attempt, token, refreshed, waits, status, csrfFor, rejected>>

Next ==
    \/ GetToken \/ FetchCsrf
    \/ Unauthorized \/ RateLimited \/ ServerError
    \/ \E s \in Statuses \ {"none"} : Return(s)
    \/ Refresh \/ EndSleep \/ Raise

Spec == Init /\ [][Next]_vars

-----------------------------------------------------------------------------
\* Types of the loop's locals: attempts within max_retries, one token and at most
\* one refreshed token.
TypeOK ==
    /\ method \in Methods /\ csrfProtected \in BOOLEAN
    /\ pc \in {"token", "csrf", "send", "refresh", "sleep", "returned", "raised"}
    /\ attempt \in 0..MaxRetries
    /\ token \in 0..2 /\ csrfFor \in 0..2 /\ rejected \subseteq 1..2
    /\ refreshed \in BOOLEAN
    /\ slept \in Nat \union {NaN} /\ waited \in Nat /\ retries \in 0..MaxRetries
    /\ applied \in Nat
    /\ status \in Statuses

\* A mutating request is carried out at most once, however its answers get
\* lost, time out or come back as 5xx.
AppliedAtMostOnce == method \in Mutating => applied <= 1

\* The 429 waits of a request add up to the sleep budget at most, and the jitter
\* of the last one, unless a server answers "Retry-After: nan": from then on the
\* check (odata_client.py:413) compares with NaN and is never true, and only the
\* cap of each wait and the number of attempts bound what is waited.
SleepWithinBudget ==
    waited <= IF slept = NaN THEN (MaxRetries - 1) * (MaxRetryAfter + MaxJitter)
              ELSE MaxRetrySleep + MaxJitter

\* A token the server answered with a 401 is never sent again by the request.
RejectedTokenNotResent == pc \in {"csrf", "send"} => token \notin rejected

\* The CSRF token a mutating request carries was fetched with the access token
\* it is sent with, also after a refresh.
CsrfMatchesToken ==
    pc = "send" /\ method \in Mutating /\ csrfProtected => csrfFor = token

\* What an attempt sends belongs together and is still good: a token not rejected
\* before, and for a protected system the CSRF token fetched with that very token.
CredentialsCurrent == RejectedTokenNotResent /\ CsrfMatchesToken

Refreshes == IF refreshed THEN 1 ELSE 0

\* What is retried is given up only when nothing is left of the attempts: a 5xx of
\* a repeatable method when retries and refresh add up to MaxRetries, a 401 when
\* the refreshed token was rejected too, or when the retries alone used them up.
\* The comment at services/odata_client.py:404 says that the refresh does not
\* count toward the retry budget.  It does, the loop goes on to its next attempt:
\* after a refresh one retry less is made, and a 401 on the last attempt mints a
\* token that is never sent.
GivenUpOnlyWhenSpent ==
    pc = "returned" =>
        /\ status = "401" => rejected = {1, 2} \/ retries = MaxRetries
        /\ status = "5xx" /\ method \in Idempotent => retries + Refreshes = MaxRetries
=============================================================================
