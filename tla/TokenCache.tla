------------------------------ MODULE TokenCache ------------------------------
(***************************************************************************)
(* The OAuth token cache of ODataClient and its per-key mint lock           *)
(* (services/odata_client.py), together with the two REST endpoints that    *)
(* replace or delete a system's keypair and evict its cached tokens         *)
(* (routers/systems.py).                                                    *)
(*                                                                          *)
(* One process runs one asyncio event loop, so everything between two       *)
(* awaits is one action.  A request is a task: it resolves its connection   *)
(* (reading the private key from disk), takes a cached token or mints one   *)
(* under the lock of its cache key, sends, and on a 401 mints once more.    *)
(* The lock dictionary is weak: lockOf maps a key to a lock object only     *)
(* while some task still refers to that object.                             *)
(***************************************************************************)
EXTENDS Naturals, Sequences, SequencesExt

CONSTANTS
    Tasks,          \* requests that may be in flight at once
    Systems,        \* names under SYSTEMS_DIR
    Keys,           \* cache keys (system, host, user_id, client_key)
    SystemOf,       \* key[0]: the system a cache key belongs to
    Locks,          \* asyncio.Lock objects
    MaxGen,         \* bound: keypairs ever installed for one system
    Failing,        \* systems whose endpoints may raise once the disk has changed
    NoTask, NoLock, NoToken

ASSUME SystemOfAssumption == SystemOf \in [Keys -> Systems]
ASSUME MaxGenAssumption == MaxGen \in Nat \ {0}
ASSUME FailingAssumption == Failing \subseteq Systems
ASSUME NullAssumption == NoTask \notin Tasks /\ NoLock \notin Locks

VARIABLES
    files,      \* systems with their <name>.json
    live,       \* the ones of them whose directory also holds a keypair
    gen,        \* gen[s]: which keypair of s is the latest, counted from 1
    cache,      \* _tokens: the keypair a token was minted with, and whether
                \* it is still outside the expiry slack
    lockOf,     \* _token_locks
    owner,      \* owner[l]: the task inside "async with" on l
    queue,      \* queue[l]: tasks waiting in acquire(), in FIFO order
    pc,         \* "idle", "waiting", "minting" or "sending"
    key,        \* the cache key of the request
    lock,       \* the lock object the task's frame refers to
    pem,        \* which keypair the request read when it resolved
    refreshed   \* the request has had its 401 (force_refresh while minting)

vars == <<files, live, gen, cache, lockOf, owner, queue, pc, key, lock, pem, refreshed>>
disk == <<files, live, gen>>

Gens == 1..MaxGen
Tokens == [gen : Gens, fresh : BOOLEAN]

Usable(k) == cache[k] # NoToken /\ cache[k].fresh

Init ==
    /\ files = Systems /\ live = Systems
    /\ gen = [s \in Systems |-> 1]
    /\ cache = [k \in Keys |-> NoToken]
    /\ lockOf = [k \in Keys |-> NoLock]
    /\ owner = [l \in Locks |-> NoTask]
    /\ queue = [l \in Locks |-> <<>>]
    /\ pc = [t \in Tasks |-> "idle"]
    /\ key \in [Tasks -> Keys]
    /\ lock = [t \in Tasks |-> NoLock]
    /\ pem = [t \in Tasks |-> 1]
    /\ refreshed = [t \in Tasks |-> FALSE]

-----------------------------------------------------------------------------
(* The lock of a cache key *)

\* Mutant: a lock is made for every call instead of being looked up.
LockForAlwaysNew(k) == {l \in Locks : \A u \in Tasks : lock[u] # l}

\* _token_locks.get(key) or setdefault(key, asyncio.Lock()): the live lock of
\* the key, else an object nothing refers to yet.
LockFor(k) ==
    IF lockOf[k] # NoLock
    THEN {lockOf[k]}
    ELSE {l \in Locks : \A u \in Tasks : lock[u] # l}

\* The task looks its lock up and enters "async with": at once when the lock is
\* free and nobody queues, and then (the cached token having just been found
\* unusable, or the refresh being forced) the mint starts; else it queues.
Acquire(t, k) ==
    \E l \in LockFor(k) :
        /\ lockOf' = [lockOf EXCEPT ![k] = l]
        /\ lock' = [lock EXCEPT ![t] = l]
        /\ \/ /\ owner[l] = NoTask /\ queue[l] = <<>>
              /\ owner' = [owner EXCEPT ![l] = t]
              /\ pc' = [pc EXCEPT ![t] = "minting"]
              /\ UNCHANGED queue
           \/ /\ ~(owner[l] = NoTask /\ queue[l] = <<>>)
              /\ queue' = [queue EXCEPT ![l] = Append(@, t)]
              /\ pc' = [pc EXCEPT ![t] = "waiting"]
              /\ UNCHANGED owner

\* The frame of _get_token ends: the task no longer refers to its lock, and a
\* lock nobody refers to leaves the weak dictionary.
Forget(t) ==
    /\ lock' = [lock EXCEPT ![t] = NoLock]
    /\ lockOf' = [k \in Keys |->
                    IF \E u \in Tasks \ {t} : lock[u] = lockOf[k]
                    THEN lockOf[k] ELSE NoLock]

\* Leaving "async with".
Release(t) == owner' = [owner EXCEPT ![lock[t]] = NoTask]

-----------------------------------------------------------------------------
(* A request *)

\* _request resolves (select, config and the private key, all read now), then
\* _get_token's fast path returns a usable cached token; otherwise it goes for
\* the lock.  No await in between.  A system without a directory or key fails
\* before any of this state is touched.
Start(t, k) ==
    /\ pc[t] = "idle"
    /\ SystemOf[k] \in live
    /\ key' = [key EXCEPT ![t] = k]
    /\ pem' = [pem EXCEPT ![t] = gen[SystemOf[k]]]
    /\ refreshed' = [refreshed EXCEPT ![t] = FALSE]
    /\ \/ /\ Usable(k)
          /\ pc' = [pc EXCEPT ![t] = "sending"]
          /\ UNCHANGED <<lockOf, lock, owner, queue>>
       \/ ~Usable(k) /\ Acquire(t, k)
    /\ UNCHANGED <<disk, cache>>

\* Mutant: no second look at the cache under the lock.
WakeUnchecked(t) ==
    LET l == lock[t] IN
    /\ pc[t] = "waiting"
    /\ owner[l] = NoTask /\ queue[l] # <<>> /\ Head(queue[l]) = t
    /\ queue' = [queue EXCEPT ![l] = Tail(@)]
    /\ pc' = [pc EXCEPT ![t] = "minting"]
    /\ owner' = [owner EXCEPT ![l] = t]
    /\ UNCHANGED <<disk, cache, lock, lockOf, key, pem, refreshed>>

\* The head of the queue runs once the lock is free and checks the cache again:
\* a token minted meanwhile is used unless the refresh is forced.
Wake(t) ==
    LET l == lock[t] IN
    /\ pc[t] = "waiting"
    /\ owner[l] = NoTask /\ queue[l] # <<>> /\ Head(queue[l]) = t
    /\ queue' = [queue EXCEPT ![l] = Tail(@)]
    /\ \/ /\ ~refreshed[t] /\ Usable(key[t])
          /\ pc' = [pc EXCEPT ![t] = "sending"]
          /\ Forget(t)
          /\ UNCHANGED owner
       \/ /\ refreshed[t] \/ ~Usable(key[t])
          /\ pc' = [pc EXCEPT ![t] = "minting"]
          /\ owner' = [owner EXCEPT ![l] = t]
          /\ UNCHANGED <<lock, lockOf>>
    /\ UNCHANGED <<disk, cache, key, pem, refreshed>>

\* The token endpoint answers: store, release, return, send.  A lifetime under
\* the slack gives a token that is never usable from the cache.
MintDone(t) ==
    /\ pc[t] = "minting"
    /\ \E f \in BOOLEAN :
          cache' = [cache EXCEPT ![key[t]] = [gen |-> pem[t], fresh |-> f]]
    /\ pc' = [pc EXCEPT ![t] = "sending"]
    /\ Release(t) /\ Forget(t)
    /\ UNCHANGED <<disk, queue, key, pem, refreshed>>

\* Mutant: a failed mint is tried again, behind the others.
MintFailAgain(t) ==
    /\ pc[t] = "minting"
    /\ pc' = [pc EXCEPT ![t] = "waiting"]
    /\ queue' = [queue EXCEPT ![lock[t]] = Append(@, t)]
    /\ Release(t)
    /\ UNCHANGED <<disk, cache, lock, lockOf, key, pem, refreshed>>

\* The mint raises (refused, unreachable, HTTP timeout) or is cancelled, by the
\* caller or by within_request_limit: nothing is cached, the lock is released.
MintFail(t) ==
    /\ pc[t] = "minting"
    /\ pc' = [pc EXCEPT ![t] = "idle"]
    /\ Release(t) /\ Forget(t)
    /\ UNCHANGED <<disk, cache, queue, key, pem, refreshed>>

\* within_request_limit or the caller cancels a task queued for the lock.
CancelWait(t) ==
    LET l == lock[t] IN
    /\ pc[t] = "waiting"
    /\ pc' = [pc EXCEPT ![t] = "idle"]
    /\ \E i \in DOMAIN queue[l] :
          queue[l][i] = t /\ queue' = [queue EXCEPT ![l] = RemoveAt(@, i)]
    /\ Forget(t)
    /\ UNCHANGED <<disk, cache, owner, key, pem, refreshed>>

\* The first 401 of a request: _get_token(force_refresh=True) with the
\* connection the request resolved at its start.
Answer401(t) ==
    /\ pc[t] = "sending" /\ ~refreshed[t]
    /\ refreshed' = [refreshed EXCEPT ![t] = TRUE]
    /\ Acquire(t, key[t])
    /\ UNCHANGED <<disk, cache, key, pem>>

\* Any other end of the request.
Finish(t) ==
    /\ pc[t] = "sending"
    /\ pc' = [pc EXCEPT ![t] = "idle"]
    /\ UNCHANGED <<disk, cache, lockOf, owner, queue, key, lock, pem, refreshed>>

-----------------------------------------------------------------------------
(* The management endpoints, and time *)

\* Mutant: the loop stops at the first matching entry.
EvictFirst(s) ==
    LET first == CHOOSE k \in Keys : SystemOf[k] = s IN
    cache' = [cache EXCEPT ![first] = NoToken]

\* _invalidate_session_cache
Evict(s) ==
    cache' = [k \in Keys |-> IF SystemOf[k] = s THEN NoToken ELSE cache[k]]

\* SystemStore.install once the pair is in place.
Installed(s) ==
    /\ s \in files
    /\ gen[s] < MaxGen
    /\ gen' = [gen EXCEPT ![s] = @ + 1]
    /\ live' = live \union {s}
    /\ UNCHANGED <<files, lockOf, owner, queue, pc, key, lock, pem, refreshed>>

\* SystemStore.delete once the directory is gone.
Deleted(s) ==
    /\ s \in files
    /\ files' = files \ {s} /\ live' = live \ {s}
    /\ UNCHANGED <<gen, lockOf, owner, queue, pc, key, lock, pem, refreshed>>

\* install_keypair: the swap on disk and the eviction, with no await between.
InstallKeypair(s) == Installed(s) /\ Evict(s)

\* delete_system
DeleteSystem(s) == Deleted(s) /\ Evict(s)

\* install raises after the swap: an OSError when the stage that holds the old
\* version is cleaned up, or whatever keypair() raises when it reads the pair
\* back.  The exception leaves install_keypair before the eviction.
InstallFails(s) == s \in Failing /\ Installed(s) /\ UNCHANGED cache

\* rmtree raises half-way, the key or <name>.json already removed: an OSError
\* is no SystemStoreError, so it leaves delete_system before the eviction.
DeleteFails(s) ==
    /\ s \in Failing \intersect files
    /\ live' = live \ {s}
    /\ files' \in {files, files \ {s}}
    /\ UNCHANGED <<gen, cache, lockOf, owner, queue, pc, key, lock, pem, refreshed>>

\* The operator puts the directory of a deleted system back by hand.
RestoreSystem(s) ==
    /\ s \notin live
    /\ files' = files \union {s} /\ live' = live \union {s}
    /\ UNCHANGED <<gen, cache, lockOf, owner, queue, pc, key, lock, pem, refreshed>>

\* time.monotonic() passes exp - _TOKEN_EXPIRY_SLACK_SECONDS.
Expire(k) ==
    /\ Usable(k)
    /\ cache' = [cache EXCEPT ![k].fresh = FALSE]
    /\ UNCHANGED <<disk, lockOf, owner, queue, pc, key, lock, pem, refreshed>>

-----------------------------------------------------------------------------
TaskStep(t) ==
    \/ \E k \in Keys : Start(t, k)
    \/ Wake(t) \/ MintDone(t) \/ MintFail(t) \/ CancelWait(t)
    \/ Answer401(t) \/ Finish(t)

SystemStep(s) ==
    \/ InstallKeypair(s) \/ InstallFails(s)
    \/ DeleteSystem(s) \/ DeleteFails(s) \/ RestoreSystem(s)

Next ==
    \/ \E t \in Tasks : TaskStep(t)
    \/ \E s \in Systems : SystemStep(s)
    \/ \E k \in Keys : Expire(k)

Spec == Init /\ [][Next]_vars

\* The event loop runs a woken task, and httpx's timeouts bound a mint and a
\* send; nothing says requests keep coming, or that anyone cancels a waiter.
Fairness ==
    \A t \in Tasks :
        /\ WF_vars(Wake(t))
        /\ WF_vars(MintDone(t) \/ MintFail(t))
        /\ WF_vars(Answer401(t) \/ Finish(t))

FairSpec == Spec /\ Fairness

-----------------------------------------------------------------------------
(* Properties *)

\* The types, and which phases of a request refer to a lock.
TypeOK ==
    /\ files \subseteq Systems /\ live \subseteq files
    /\ gen \in [Systems -> Gens]
    /\ cache \in [Keys -> Tokens \union {NoToken}]
    /\ lockOf \in [Keys -> Locks \union {NoLock}]
    /\ owner \in [Locks -> Tasks \union {NoTask}]
    /\ queue \in [Locks -> Seq(Tasks)]
    /\ pc \in [Tasks -> {"idle", "waiting", "minting", "sending"}]
    /\ key \in [Tasks -> Keys]
    /\ lock \in [Tasks -> Locks \union {NoLock}]
    /\ pem \in [Tasks -> Gens]
    /\ refreshed \in [Tasks -> BOOLEAN]
    /\ \A t \in Tasks : lock[t] # NoLock <=> pc[t] \in {"waiting", "minting"}

\* The weak dictionary never splits a key over two locks nor shares a lock
\* between two keys: the lock a task holds or awaits is the one the dictionary
\* shows for its key, and a lock in the dictionary is held or awaited by a task.
OneLockPerKey ==
    /\ \A t \in Tasks : lock[t] # NoLock => lockOf[key[t]] = lock[t]
    /\ \A t, u \in Tasks : lock[t] # NoLock /\ lock[t] = lock[u] => key[t] = key[u]
    /\ \A k \in Keys : lockOf[k] # NoLock =>
          \E t \in Tasks : lock[t] = lockOf[k] /\ key[t] = k

\* Concurrent requests of one key mint one at a time: the per-key lock
\* coalesces a first-call token storm.
MintExclusive ==
    \A t, u \in Tasks :
        pc[t] = "minting" /\ pc[u] = "minting" /\ key[t] = key[u] => t = u

\* Nobody mints for a first call while the cache has a usable token: a waiter
\* finds what the mint it waited for left.
StormCoalesced ==
    \A t \in Tasks : pc[t] = "minting" /\ ~refreshed[t] => ~Usable(key[t])

\* A slow token endpoint only holds up its own cache key: the task whose mint a
\* waiter awaits, and everyone queued with it, is there for the same key; and
\* no waiter is missing from its queue or in it twice.
WaitsOnlyForOwnKey ==
    \A t \in Tasks : pc[t] = "waiting" =>
        /\ owner[lock[t]] # NoTask => key[owner[lock[t]]] = key[t]
        /\ \A i \in DOMAIN queue[lock[t]] : key[queue[lock[t]][i]] = key[t]
        /\ \E i \in DOMAIN queue[lock[t]] :
              \A j \in DOMAIN queue[lock[t]] : queue[lock[t]][j] = t <=> j = i

\* The token of key k, if any, was minted with the keypair now on disk.
Current(k) ==
    cache[k] # NoToken =>
        SystemOf[k] \in live /\ cache[k].gen = gen[SystemOf[k]]

\* A completed install or delete leaves no token of the old key behind, whatever
\* is cached for however many users: a token goes stale only when a mint ends
\* that resolved its key before the replacement, or when the endpoint itself
\* fails after it changed the disk, which skips the eviction.
StaleOnlyFromRaceOrFailure ==
    [][\A k \in Keys : Current(k) /\ ~Current(k)' =>
          \/ \E t \in Tasks : /\ pc[t] = "minting" /\ pc'[t] = "sending" /\ key[t] = k
                              /\ SystemOf[k] \notin live \/ pem[t] < gen[SystemOf[k]]
          \/ InstallFails(SystemOf[k]) \/ DeleteFails(SystemOf[k])]_vars

\* Every request comes to an end whoever fails, is cancelled or queues: no wake
\* up is lost when the head of the queue goes away or the lock changes hands.
EveryRequestEnds ==
    \A t \in Tasks : pc[t] # "idle" ~> pc[t] = "idle"

\* Installing or deleting a system's key invalidates any cached token of that
\* system (docs/CONNECT.md:192).  The code does not keep this even where no
\* endpoint fails: a mint in flight stores its token after the eviction.
NoTokenOfReplacedKey == \A k \in Keys : Current(k)
=============================================================================
