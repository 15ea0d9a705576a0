# successfactors-toolkit in TLA+

`successfactors_toolkit` connects REST and MCP clients to SAP SuccessFactors: it
authenticates (a SAML bearer grant for OData, a session login for SFAPI), reads
OData and Compound Employee data page by page, keeps each system's keypair and
production flag on disk, and replaces personal data by tokens before a model sees
it. This directory holds TLA+ models of its stateful parts, the TLC runs that
check them, and proofs that TLAPS checks. `PROJECT.json` lists runs, mutants,
theorems, hazards, and, for every definition that models code, the lines it
stands for. Paths below are relative to `src/successfactors_toolkit/`.

    tlc -workers 4 -config TokenCache.cfg MCTokenCache     # one run
    tlapm TokenCacheProofs.tla                             # one module of proofs

## 1. The system

A process is one asyncio event loop: the REST application (`main.py`) or the MCP
server (`mcp_server.py`). Endpoints and tools are coroutines that interleave at
their awaits; the store, the vault and the file writes are synchronous. Several
processes, threads and an operator with an editor share the directories of the
systems, the vault and the results.

| part | state | operations | hard because |
|---|---|---|---|
| OData token cache (`services/odata_client.py` 215-312, `routers/systems.py` 166-173) | tokens by (system, user, ...), a weak dictionary of locks | get a token, mint, refresh after 401, evict after an install or a delete | tasks interleave; the key is read before an await and the result stored after it; lock holders fail, waiters are cancelled |
| OData request loop (`odata_client.py` 314-434) | attempt, token, CSRF token, time slept | send, retry 401, 429, 5xx | retries of what may have been done; two budgets; a token read once for several attempts |
| SFAPI session cache (`services/sfapi_client.py`) | session by key, a lock by key | login, send, retry INVALID_SESSION, evict | a late refusal removes a session; the await inside the login |
| System store (`services/system_store.py` 326-569) | `<name>.json`, key, certificate, flock | install, set_production, delete, keypair | several processes; killed between any two steps; filesystems without an exchange of directories |
| System selection (`system_store.py` 350-431) | the files, while the operator edits them | list, select, config; again for each page of an extract | files are read one by one, each at its own moment |
| Extract paging (`odata_client.py` 436-560) | position, budget | extract_all, resume | two versions, several forms of links, short and empty pages, three ways to stop |
| Extract by filter-in (`odata_client.py` 562-668) | chunks, one budget | dedupe, chunk, fetch | two limits per chunk, values that fit none, partial failure |
| Compound Employee query (`mcp_server.py` 1115-1240, `routers/sfapi.py`, `services/ce_response.py`) | session, pages, files | query, queryMore | hasMore and session may contradict each other; a page that cannot be tokenized |
| OData query tool (`mcp_server.py` 880-1110) | options added and dropped | extract, drop paging, drop the order, ask for the error | the answer must tell the truth about several attempts |
| Metadata caches (`mcp_server.py` 465-596, 738-805) | keys and navigation by system and entity | look up, fetch, remember | lookups overlap at their await; a failure is remembered too |
| PII vault (`services/pii_filter.py` 80-194) | key file, SQLite table | create, migrate, digest, save, load, reveal | processes race to create and to migrate; power is lost before a sync |
| PII filter (`pii_filter.py` 363-688, `mcp_server.py` 216-295) | the map of fields and tiers; per request its substitutions | protects, tokenize records and XML, detokenize, retokenize | judged before and after the data is there; values inside literals, URLs and echoes |
| PII query guard (`services/pii_query_guard.py`) | none | check_query | a parser of query options, judging records it has not seen |
| Plugin loader (`plugin_api.py` 96-151) | tools, types, statuses | load, roll back | a plugin fails half-way, after it replaced or removed what was there |
| Result files (`mcp_server.py` 141-170) | a directory | write, prune | every write of every process prunes; a call collects its files for as long as its budget lasts |
| Connection policy, credentials, SAML, HTTP limits | none, or per call | check a host, a URL, an identity; bound a body and a time | pure decisions |
| REST application, settings, audit, query builder, models, EDMX parsing, reveal CLI | settings | wiring and I/O | not modelled |

How they interact: a tool or an endpoint selects a system (store), gets a token or a
session (caches; the mint reads the keypair from the store), and runs requests (the
loop), pages (extracts) or chunks (filter-in) under one budget. The PII filter takes
its tier from the store's configuration; it stands between the answer and the
client, with the vault below. A write to the store through the REST application
calls the eviction of both caches in its own process; other processes learn of
nothing.

What makes each part correct is stated with its run in section 3; the hazards the
properties are for, each at its line, are in `PROJECT.json`.

## 2. Modules

Each component has a module with its state, one action per step between awaits (or
between system calls), and its properties; `MC...` gives the constants their
values; `...Proofs` holds the theorems, mostly those of components that belong together (section 4). An operator whose comment begins with
"Mutant:" is a plausible defect of the definition below it, which a property of the
run must notice; nothing else uses it.

| module | models | state and actions |
|---|---|---|
| `TokenCache` | token cache | `cache`, `lockOf`, `owner`, `queue` are `_tokens`, the weak `_token_locks` and what `asyncio.Lock` keeps. `Start`, `Wake`, `MintDone`, `MintFail`, `CancelWait` cut `_get_token` at its awaits; `Answer401` is the refresh; `InstallKeypair` and `DeleteSystem` with `Evict` are the handlers, `InstallFails` and `DeleteFails` the same handlers left by an `OSError` after the disk has changed and before the eviction. A token carries the generation of the key it was minted with. |
| `RequestRetry` | request loop | `attempt`, `token`, `csrfFor`, `slept`, `refreshed` are the locals; `Answered` chooses what the server does and whether it carried the request out (`applied`) before its answer is lost; a wait may be `NaN`, as float("nan") is; `Raise` is cancellation, the time limit, a transport error |
| `SfapiSession` | session cache | as TokenCache (also with endpoints that fail half-way), but with a lock held by key and a `Reject` that removes the session |
| `SystemStore` | store | `json`, `key`, `cert`, `holder`; processes walk through `Lock`, `Stage`, `Exchange` or `ReplaceCert`, `ReplaceKey`, ... and may be killed (`Kill`) or fail (`Fail`) at each; `canExchange` is the kind of filesystem |
| `SystemPromise` | the abstract store | one file, one pair, each replaced in one step; what the docstring of the store promises |
| `SystemSelect` | selection | after the plugins are loaded, a caller lists and reads file after file, `Edit` is the operator between any two reads, any directory or file may prove unreadable at any of them (`missed`, `Untyped`), and the extract selects again for every page; the types the plugins registered decide what a file of another type is answered with |
| `ExtractAll` | paging | the server holds numbered records; `Page` is an iteration of the loop with its verdict, `Resume` the caller's next call with what the last one returned; whether a server adds a `$skip` to a `$skiptoken`, puts no link behind a full page, and how the caller resumes are choices of the initial state and of each page |
| `FilterIn` | filter-in | `Dedupe`, `Take`, `CloseLast` build the chunks value by value, `Fetch` runs one extract per chunk on the shared budget |
| `CeQuery` | Compound Employee | a page per step for each caller (`RestPage`, `McpPage`), sound or broken in each way `parse_page` looks for; `Wait` is the time a request takes, with what others do in it |
| `ResultFiles` | result files | a clock, the files of one call with their times; `Write` prunes first, `OthersWrite` is any other call |
| `ODataQuery` | odata_query | `Begin`, `KeysKnown`, `Extract`, `Repage`, `Reorder`, `Detail`, `Answer` follow the tool from await to await, `RaiseFault` is a limit, the transport or a cancellation in an await, `Again` the next call; a server is what it refuses; the text of an error body, which decides whether paging is dropped, is a free choice |
| `MetadataCache` | metadata caches | `keyCache`, `navCache`, and for each tool call the document it awaits: looked up in one step, stored in another |
| `PluginLoader` | plugin loader | `BeginEntry` takes the snapshot, `Register` is any registration of the entry, `FailEntry` puts back, `Succeed` keeps |
| `PiiVault` | vault | handles `Open`, `WriteKey` or `ReadKey`, `CreateTable`, `CheckTable`, `AlterTable`, then `Tokenize`, `Save`, `Return` (which shows each value at the tiers of its fields); `Writeback` and `PowerLoss` are the operating system's |
| `PiiRules` | rules of the filter | `Tier`, `Protects`, `Visit` (a record with what is nested in it, by the place of each), `Leaf` |
| `PiiText` | substitution | a text is a sequence of letters, raw or in a code, and of tokens; `Detokenized`, `Substitutions`, `Retokenized`, and the server's reading of a request, each part decoded in its own way: a query, a path that is parted at `?`, `#`, `%` and `/`, a parameter |
| `QueryGuard` | query guard | `OptionRefused` and what it is made of, on scanned tokens; and the other side: `TextOf` how an option is written, `Told` what a server's answer to it depends on |
| `PiiExchange` | the filter at work | composes the three: pages and leaves are shown (and fill the vault), queries are written with the tokens shown, judged, resolved, sent, answered, and echoed in errors |

`SystemStore` composes with `SystemPromise` (`INSTANCE SystemPromise WITH` a
refinement mapping), `PiiExchange` with `QueryGuard`, `PiiRules` and `PiiText`, `CeQuery` with
`ResultFiles`, `ODataQuery` with `MetadataCache`, `SystemSelect` with `PluginLoader`. The other modules
meet in what one assumes and another shows: `RequestRetry` assumes that a
refresh gives another token (`TokenCache`); `FilterIn` takes an extract as one step
(`ExtractAll`); `PiiExchange` takes the vault as a set of values
(`PiiVault`: each has one token, which resolves on its system only).

Abstractions they share. Contents of certificates, XML and JSON, wording and
logging are left out. Time is left out, except where it is counted (waits, the age of files, in units);
a lifetime or a timeout may end at any step. The external actors
(SuccessFactors, `asyncio.Lock`, SQLite's transactions, the operating system, the
operator) do whatever the code has to be prepared for, and are marked external in
the map.

## 3. Runs

All but `token_eviction` pass. Every passing run has a mutant of the code per
property that it detects.

| run | states | shows |
|---|---|---|
| `token_cache` | 79 476 | `MintExclusive`, `StormCoalesced`: one mint per key at a time, none while a usable token is there, although the lock dictionary is weak and waiters are cancelled. `StaleOnlyFromRaceOrFailure`: a token of a replaced key is left by no other way than the end of a mint that had read the key before, or an endpoint that failed after it changed the disk. `EveryRequestEnds` |
| `token_eviction` | - | violation: that way exists (section 6) |
| `request_retry` | 10 322 | `AppliedAtMostOnce`: a mutating request is not carried out twice. `SleepWithinBudget`, also where a server answers `Retry-After: nan`, with the weaker bound that then is left. `CredentialsCurrent`: no attempt carries a token that was rejected, nor a CSRF token of another access token. `GivenUpOnlyWhenSpent`: a 5xx or a 401 reaches the caller only when retries and refresh have used the attempts up, or the refreshed token was rejected too |
| `system_store` | 28 236 | `FlagNotLost`: no install brings back an older production flag. `UnforcedNeverReplaces`: without force no pair is replaced, however installs interleave. `KeepsPromise`: `SystemStore` implements `SystemPromise`, so a reader or a crash finds one pair, except where directories cannot be exchanged |
| `extract_all` | 50 236 | `NoGapNoRepeat`: the calls that get every record once, over pages of any size, links of any form and three calls, each resuming the last, are those `Straight` names. `ExhaustedIsComplete`: what "exhausted" means after each form of link. `ResumesAtNextRecord` |
| `filter_in` | 205 000 | `NothingLeftOut`: what a returned report covers is the caller's values, each once, chunk after chunk, with a report of every chunk, failed ones too. `ChunksFit`, `ChunksMaximal`. For every list of up to four of four values |
| `sfapi_session` | 317 862 | `LoginCoalesced`; `GoodSessionKept` (a refusal removes another session only in the case its comment names); `StaleOnlyFromRaceOrFailure`; `EveryRequestEnds` |
| `ce_query` | 14 629 | `NoGapNoRepeat`, `CompleteSaysComplete`, `NothingPlain`, for both callers and every kind of answer. `FilesThere`: the files an answer names exist, although every write, of this call and of others, prunes |
| `odata_query` | 155 340 | `WarningsTrue`: nothing is lost without a warning, and a warning names an option whose removal made the extract succeed. `ReportedAsSent`: the options reported are those of the extract the records, or the error, came from. Both for call after call and every server. `ReplacedOnlyByOverlap`: what a metadata lookup learned, a failure too, is looked up by nobody again and replaced only by a lookup that had begun before it |
| `pii_vault` | 616 644 | `OneTokenPerTier`, `TokensResolve`, `OwnSystemOnly` while handles are opened, killed and cut off from power. The run's digests do not collide: what a collision does to `OwnSystemOnly` is the proof's |
| `pii_exchange` | 246 344 | `OnlyEqualityTold`: the answer to a query that is let through does not change when a tokenized value is exchanged for another, unless the query names one of the two by its token. It speaks of query options; a key predicate in the path is no comparison of it. `FailsClosed`: what is left plain, at any depth, somebody has reviewed. `SentAsMeant`: a value written as a token keeps its literal, as query, path and parameter are read. `EchoHidesValues`: no value, nor a part of one, comes back plain in an error |
| `system_select` | 2 579 940 | `FailuresUndone`: tools and types are as if a plugin that failed had never run, and it has no status under its own name. `DefaultDecidedRight`: a default system, or that there is none, is no guess, while systems appear, change, disappear and cannot be read, except past a directory that could not be listed |

Where a module has proofs, its type invariant and the conjuncts its inductive invariant
needs (`OneLockPerKey`, `WaitsOnlyForOwnKey`, `QueuedOnce`, `CsrfMatchesToken`, `PairNeverMixed`,
`MixedOnlyByFallback`, `ChunksTile`, `OneBudget`, `FirstWriteWins`, `ColumnBeforeUse`) are left to the prover, which shows them for every instance; the runs keep
the properties a reader would ask for. `QueryTypeOK`, `ExchangeTypeOK` and `SelectTypeOK` stay in the runs of
`odata_query`, `pii_exchange` and `system_select`, where they say more than types: which calls await what, which
tokens a tier covers.

### Bounds

- **Caches**: two requests, two keys of one system, two generations of its key. Every
  conflict is between two requests, of one key or of two, and one replacement, completed or failed; the
  proofs of TokenCache hold for any number of them. Three sessions allow for
  a login, a refusal and a login of somebody else in between.
- **Request**: `MaxRetries = 3` has a first, a middle and a last retry;
  `Retry-After` lies around every bound: negative, zero, below, at and above the
  budget and the cap, and not a number.
- **Store**: three processes (a writer, another writer, a reader or a killed one), two
  pairs, one system: systems share nothing but the lock's directory. Processes and pairs are
  interchangeable, and the properties are safety.
- **Extracts**: four records in pages of up to two, three pages a call, three calls: a
  limit falls on the last page, before it and behind it. v2 servers page by `$skiptoken` or `$skip`, v4 ones also by
  a link the code does not follow. Lists of up to four values
  against a limit of three; one value fits alone, one fits nowhere.
- **Compound Employee**: three records in pages of zero to three; a retention of two ticks, a
  budget of one and a request of one, the tightest the assumption allows: a file of the first page
  reaches exactly the age at which it would be pruned.
- **odata_query**: every server; calls in which at most one of a caller's paging, a `$top` and v4 keeps
  paging=snapshot away; one other tool call beside the query, which is enough for two lookups to overlap.
- **Vault**: two handles at a time, each opened and dropped any number of times, two
  systems, two values, two tiers, two keys (a key and the one a loss of power leaves behind),
  one row from before rows had a system. Handles, keys and systems are
  interchangeable, and the properties are invariants.
- **PII exchange**: an entity of the map with fields of both tiers, one without rules,
  one from the settings, one unknown; records two deep; values of which one contains
  another and a quote, one has a letter that every code writes differently and is structure in a path, and
  one a plus; two tokens in a request. Two levels are enough for `FailsClosed`,
  as a record below is judged by its own type only. Queries have up to two options of every
  kind the guard knows: comparisons in both directions, lists with and without parentheses, functions,
  lambdas, paths through a navigation, nested options; they are written while the vault holds nothing or one
  value, since what an answer tells of a value depends on no third one.
- **Selection**: two systems, interchangeable, each absent, unreadable, of either type or invalid; two pages
  and two edits: an edit before, and one between, two reads. Two plugins are loaded, also
  two of one name; calls are followed after none or one, as only whether the other type has a handler matters to them.

`CHECK_DEADLOCK FALSE` stands where the module is one call, which stops once it has
answered or raised. In the other runs a deadlock is an error.

### Fairness

`TokenCache` and `SfapiSession` are fair to a waiter whose lock is free for it (the
event loop runs what is ready), to the end of a mint or a login, in success or
failure, and to the end of a request: httpx has timeouts and
`http_limits.within_request_limit` cancels what is left. Nothing assumes that a mint
succeeds, that a waiter is not cancelled, or that a key stays. The other runs check safety
only: their calls are loops with a counter, and end by it.

## 4. Proofs

All theorems hold for every value of the constants that meets the module's named
assumptions, which say that null values are not in the sets they stand out of, that
bounds are natural numbers, and that functions have their domains. Every assumption is also
evaluated by TLC, in the run of the module that states it.

Four modules hold the proofs of two components each: they extend both, which is why those of the second are
named for it (`QuerySpec`, `SelectSpec`, `ExchangeSpec`, `FilterSpec`; `queryPc`, `callPc`, `step`). The two
specifications share nothing, and no theorem is about both.

- **`TokenCacheProofs`**: every safety property of `token_cache`, and that the weak dictionary
  never splits a key over two locks (`OneLock`) nor has anyone wait for another key's mint (`OwnKeyOnly`). The
  lock is what has to be understood: mutual exclusion is not inductive by itself, as
  the next owner comes out of a queue. `IInv` adds that the owner of a lock is a
  minting task and a minting task the owner (`OwnerMints`), that a task waits for a
  lock exactly when it stands in its queue, once (`QueueHoldsWaiters`), and that no
  task has read a key of the future (`PemNotAhead`). Lemmas say what taking
  and dropping a reference to a lock do to each part. `EvictionComplete` speaks of a completed install or
  delete, and names the two ways by which a token goes stale all the same.
- **`ODataProofs`**, of the request loop (`RequestRetry`): `TokenHistory` says which tokens have been used and rejected in
  each phase, `NotYetApplied` that a mutating request still in the loop has not been
  carried out. `AttemptsCounted` says that every attempt but the first follows a wait or the refresh, so the
  refresh takes one of them (`RetriedBeforeGivenUp`); `WaitsCounted`, what has been waited after how many
  waits, while the sum is a number and after it has become NaN (`SleepBounded`). `NoStaleCredentials` follows
  from the first.
- **`ODataProofs`**, of `odata_query` with the metadata caches: what the tool says at the end has to be
  known from the start of every attempt. `UnsortedTold` says that whenever the order is not with the records
  any more, a warning already tells so, `UnpagedTold` the like of paging; `FlagsTrue`, that the two `added` flags
  follow the options through each retry; `DropsBacked`, which extract failed before each retry and each warning of
  one; `BodyOfResult`, that the error shown belongs to the last extract; `Untouched`, what a phase has not done
  yet. For the caches, `LookupsEarly`: every lookup that is under way began while there was no entry. From these
  `WarningsHold`, `ReportHolds` and the action property `ReplacedByOverlapHolds`, for any number of tool calls and
  any kinds of call.
- **`SfapiSessionProofs`**: the lock of a key is a queue whose members are the waiters, each once
  (`QueuedOnce`), and a login runs only without a session (`LoginCoalesced`): with the types, both are
  inductive together. `UsingNotAhead`, that no request uses a session younger than the cached one, makes a
  refusal that removes a good session a late one (`GoodKept`); `PemNotAhead`, that no login has read a
  key of the future, gives `EvictionComplete`.
- **`CeQueryProofs`**: while a request is out (`Underway`) the session asked for continues behind
  the records received, the page limit is not reached, the request was sent within the budget and has lasted no
  longer than its limit, and every file is on the disk. `GoodPage` says what a page that `parse_page` takes
  holds. `FilesOutliveCall` rests on `DurationsAssumption` (section 5).
- **`SystemStoreProofs`**: who is past the flock holds it (`LockHeld`), a phase fits its
  request (`PhaseFitsRequest`), what a staged install has copied is still true of the
  directory (`StageCurrent`), and nobody is half-way where directories can be exchanged
  (`NoFallback`). From it: the pair, the flag, the unforced install, the fallback, and
  `Refinement`: the store implements `SystemPromise` on either filesystem.
- **`SystemStoreProofs`**, of the selection with the plugins: `SnapshotClean` says that what a plugin's
  entry has saved is free of it, so putting it back undoes all that it did to tools and types, and `StatusesClean`
  what is left of its status (`FailuresRolledBack`, for any entry lists, also with one name twice). Files are read one after the other while the operator edits: `ReadTruly`
  says that what was read of a system that was listed, and whose file has not changed since, is what its file
  holds or that it cannot be read, and
  `Resolving` fits what has been read to the phase. Hence `DefaultRight`, for any systems and any number
  of edits between the reads.
- **`ExtractProofs`**, of paging: the next request of a call that finds its way (`Straight`, defined in
  ExtractAll with the property) starts at the record after the last one delivered (`OnTrack`); hence contiguity,
  the resume point, and what "exhausted" can mean. `TokenOnV2` says why only a v4 caller is left without a
  `next_skiptoken`.
- **`ExtractProofs`**, of filter-in: `Accounted` puts together that the chunks tile the list, that what they hold is
  the caller's values once, and that a report has every chunk. The current chunk begins where the last one ended, and fits
  (`CurrentChunk`), the part of the list gone through has no duplicates left
  (`DedupedSoFar`). `Fits` is any property of a stretch of the list.
- **`PiiProofs`**, of the vault: who has a key has the file's, and while it is being written nobody
  has one (`OneKey`); tokens pending and rows stored come from pages of their system
  (`PendingKnown`, `Accounted`) and from one key (`OneOrigin`), hence one digest per value and one token per
  tier (`OneToken`). `MigratedBeforeUse`: nobody saves or resolves in a table without the column, whoever lost the
  race for it and whatever failed in its recheck. That every token resolves
  (`TokensKept`) needs `Backed`, what is handed out has its row, and the
  assumption `NoCollisions` on the digest; the separation of systems needs neither.
- **`PiiProofs`**, of what the filter shows: a page is walked and shown in one step, so the invariant
  itself is inductive, and the work is in the lemmas about the walk: `FilterIsOne` (merging the system's own
  rules over the built-in map leaves a map of tiers), `TierWithin` (what `_tier` answers, and that none means
  every rule is above the filter's tier), `CellWalkedWell` and `VisitWell` (what the walk makes of a cell, and
  of records nested to any depth), `LeafWell`. Hence `ExchangeTypeCorrect` and `WalkFailsClosed`, for any maps,
  configurations, records and leaves. `GuardCoversWalk` is the step from there to the query guard: every
  field that the walk turns into a token, by a rule or because its entity is unknown, is one `protects` answers
  yes for, under the entity the guard asks by and in any case of letters.

- **`PiiTextProofs`**, of the texts. Its operators are recursive functions, so it begins with induction over
  sequences, derived from the library's theorem that strict inclusion of finite sets is well-founded (its
  induction theorems take an operator as a parameter). Then what each operator makes of a text with one atom more.
  `LiteralsKept` (`SentAsMeant`, for texts of any length): an odd number of quotes before an atom is the same as a
  server's reader being in a literal there (`''` opens and closes one in the number of quotes, while to the
  reader it is one character), so the reader of what arrives, letter by letter of a value, mirrors a reader of what was
  written, token by token. `Placed` is a hypothesis the code cannot supply: outside a literal a value goes
  in as it is, and an empty one, or one with a quote, would change the expression; in a path, a `?`, `#`, `%` or `/`
  of a value would part it, unless the token was written with coded brackets; in a parameter, which nobody decodes
  again, a `%27` is counted as a quote and is none.
- **`PiiTextProofs`**, of the query guard. `OnlyEqualityLetThrough` (`OnlyEqualityTold`, for any rules, tiers,
  records and expressions, any number of options, terms and list elements, `$expand` with any number of nested
  options): `GuardCoversWalk` says that an exchange of two tokenized values changes no other fields than those the
  guard protects. The text of each term stands in the text of its option, and that in what the guard sees,
  each followed by something that closes it (`Occurs`, `Followed`): so the guard meets every path of the
  query, with the operator written behind it, and a path of what it lets through is either unprotected, or compared for equality, or by a list,
  with tokens and null only. Hence each kind of option tells the same of both records. For `$expand` the
  guard has to find the end of a nested option by counting parentheses: those of every option's text match, and no `;`
  stands outside them, so `StopOf` finds exactly the text that was written. The invariant on
  top is `Asked`: the request at hand is one that may be written, and was judged as a whole.

- **`PiiTextProofs`**, of error bodies. `FormsStayHidden` is the half of `EchoHidesValues` that is true of every
  instance (`FormsHidden`): after `retokenize` none of the forms it looks for is left in the body, for any texts,
  values and echoes. It is not obvious, as one form may be a part of another and `str.replace` runs once for
  each: a later replacement could put letters beside each other that make up an earlier form again. It cannot, since
  a token always stands between them: `ReplacedIs` says that the letters of the result that stand beside each other
  did so before (`RunsAs`), and that the form is not among them (`Absent`); `RetokenizedIs` carries both from one form to
  the next by induction on how many have been replaced. The argument needs no order, so it does not rest on
  "longest first"; `SubstitutionsAre` (the forms are finitely many, each has a token of its text) and
  `EchoesAre` (an echo is letters only) connect it with the exchange, and `Faulting` is the invariant.

The proof attempts found three errors of the model, none of the code: an operand behind a lambda
variable was looked up beside the record instead of in it, `TextBelow` joined a lambda's terms with a word that is no
operator, and several CASE expressions had guards that overlap, of which TLC takes the first and a proof may take any.

Only model-checked:

- the liveness properties, `EveryRequestEnds` of both caches: the prover has no ENABLED and no liveness;
- the other half of `EchoHidesValues`: that of a value no part is left either, which is what replacing the
  longest form first is for. It is not true of every choice of values and texts. Replacing the longest
  form can cut through the next value where the end of one and the beginning of another spell a third, and free text
  may hold letters that a value has too. The values of the run contain each other, which is what the code
  provides for, and do not overlap otherwise.

## 5. Not modelled

- **Connection policy, credentials, SAML assertions, the query builder**: pure decisions
  on strings, or pure builders: a model of them would be the same conditions again, over strings cut to
  a few letters. Their refusals are among the errors of the modules.
- **HTTP limits** are steps of the modules that use them (`Raise`, `Paid`, `OutOfBytes`, `Late`, `Tick`);
  a capped body is one step.
- **EDMX parsing and comparing, the reveal CLI's file handling, settings, audit, wiring
  of routes, DTOs**: I/O and data without a protocol.
- **Result files**: that the retention exceeds an extract's budget and one request (or is 0) is an
  assumption about the deployment: the settings bound each by itself. By default it is 7 days to 1800 s and
  600 s. The clock is not set forward while a call runs. A file that cannot be removed stays, which
  `FilesThere` does not mind.
- **Query guard**: the scanner, except for the tokens it yields; numbers and dates, which are no
  references. `OnlyEqualityTold` leaves out a property bag's `Value`, which the guard knows by no name,
  and navigation to an entity nobody has reviewed, whose fields the guard judges by name alone.
- **Other processes' caches**: nothing evicts them, by design.
- In the PII filter: a value of one or two letters that is part of the text of a token put
  in before it (a token is one atom); a `'` doubled for a literal and then encoded by the HTTP
  client or the server, a form `_substitute` does not list; lists of strings in
  an entity of the map, which are not judged; a field "Value" that has a rule of its own
  (`IsMap`, part of `MapAssumption` and `ConfigsAssumption`, excludes it).

## 6. Disagreements met

`token_eviction` is the one a run shows: `docs/CONNECT.md` 191-192 says that installing or
deleting a key invalidates any cached token of the system. The eviction drops what is
in the cache at that moment; a mint that has read the old key and ends afterwards stores its
token, which is served until it expires. The SFAPI session cache has the same gap. There is one other way,
and `StaleOnlyFromRaceOrFailure` says, and `EvictionComplete` proves, that there is no third: the endpoints
catch only `SystemStoreError` (`routers/systems.py` 259-264, 303-308), so an `OSError` after the disk has changed
(an `rmtree` that stops with the key gone, the clean-up of the stage after the swap) leaves them before their
eviction.

Others are built into the models, and each property that would otherwise contradict the repository's words
says in its comment what holds instead:

- *Retry budget.* A 401 refresh is the next attempt of the loop, against "Don't count toward retry budget"
  (`odata_client.py` 404): one retry less is made after it, and a 401 on the last attempt mints a token that is
  never sent (`GivenUpOnlyWhenSpent`). `Retry-After: nan` passes `_parse_retry_after` (81-82) and turns the sum
  of the waits into NaN, which no later check (413) exceeds (`SleepWithinBudget`).
- *Paging by position.* The docstring of `extract_all` and `docs/ODATA.md` 99-100 have a caller resume from a v4
  `$skip` link with "`$skip` = records fetched so far"; one that began with a `$skip` of its own then gets that many
  records twice. A v2 `$skiptoken` is sent beside the caller's `$skip` (only v4 takes that out, 549-553), and whether
  it counts is the server's affair. `Straight` names the calls that get every record once (`NoGapNoRepeat`).
- *"exhausted".* The docstring has v2 page by `$skip` by default (448-451), but a `__next` with a `$skip` and no
  `$skiptoken` ends the extract as "exhausted" (539-542); so does a full page without a link, which only
  `last_page_size` betrays (`ExhaustedIsComplete`).
- *Filter form.* `docs/ODATA.md` 73-77 tells of chunks "col eq 'a' or ..." that only `chunk_size` bounds; the code
  sends `in` and cuts by the encoded length too (`ChunksFit`).
- *Warnings of `odata_query`.* "was rejected by SuccessFactors" (`mcp_server.py` 989-992, 1010-1013) is said of an
  order after any `http_error`, and of paging after a second answer with the right words, whatever its status; a
  paging option whose removal did not help, while that of the order did, is not warned of by itself,
  against the docstring (899-900). `WarningsTrue` says what a warning does mean.
- *Metadata.* "fetched at most once per system ... per process" (568-569, 749-750): overlapping lookups each fetch,
  and the last to end is remembered, be it a failure after a success (`ReplacedOnlyByOverlap`).
- *Tokens.* "the same value always yields the same token" (`pii_filter.py` 5, `docs/MCP_SERVER.md` 94): the token
  has its field's tier in it (430), so a value in fields of two tiers has two (`OneTokenPerTier`).
- *Values in a path.* What is substituted outside a literal is not encoded for the part of the URL it
  stands in (`SentAsMeant`, `Placed`).
- *Plugins.* Of a plugin that failed, "a status fn must not leave any of that behind" (`plugin_api.py` 134-138); only
  the status under its own name is taken out, also one that an earlier entry of that name had set, and those under
  other names stay (`FailuresUndone`).
- *Fails closed.* `names()` gives nothing if `SYSTEMS_DIR` cannot be listed, and leaves out a system whose directory
  cannot (`system_store.py` 152-155, 350-354), so another is taken as the default without a word, although `select`
  "Fails closed while any file has no readable type" (407-409; `DefaultDecidedRight`).
- Without an exchange of directories a new certificate stands beside an old key for a
  moment, or for good after a crash (`system_store.py` 544). The comment there says so. `keypair()` takes no lock: it
  may read the key of one pair and the certificate of the next (449-467). A broken `rmtree` leaves half a system,
  which `SystemPromise` permits.
- `extract_all` selects the system again for every page, so an edit of `<name>.json` sends the
  next page to another host, and reads `odata_version` twice per page.

## 7. Plan

Order of work, the most important behaviour first. Done: 1-11.

1. Token cache with its lock; proofs. 2. Request loop; proofs. 3. Store, its promise,
   the refinement; proofs. 4. Extracts and filter-in; proofs. 5. Session cache,
   Compound Employee, odata_query, selection. 6. Vault with proofs; the PII filter and its exchange.
7. Metadata caches within odata_query, plugin loader before selection, result files within
   Compound Employee.
8. The query guard: from agreement on single fields to what the answer to a whole query tells.
9. Proofs of the session cache and of Compound Employee.
10. Proofs of odata_query with the metadata caches, of the selection with the plugin loader, and of what the
   PII filter shows.
11. Proofs of what a request means to a server, of what a query can tell and of what an error body
   cannot hold, with the induction they need.
12. Left: a composition of TokenCache and RequestRetry, in which the refresh of one request
   is what another one finds; the text of a token in `PiiText`, so that values of one or two
   characters can be told from it.
