----------------------------- MODULE SfapiSession -----------------------------
(***************************************************************************)
(* The JSESSIONID cache of SFAPIClient (services/sfapi_client.py) and its   *)
(* eviction by the key management endpoints (routers/systems.py).           *)
(*                                                                          *)
(* A request resolves its connection, takes the cached session or logs in   *)
(* under the lock of its session key, sends, and if the server answers      *)
(* INVALID_SESSION drops the cached session and does the same once more.    *)
(* The code keeps its locks in the same weak dictionary as the token cache  *)
(* (see OneLockPerKey of TokenCache), so a lock is named here by its key.   *)
(***************************************************************************)
EXTENDS Naturals, Sequences, SequencesExt

CONSTANTS
    Tasks,          \* requests that may be in flight at once
    Systems,
    Keys,           \* session keys (system, host, user_id, client_key)
    SystemOf,       \* key[0]
    MaxGen,         \* bound: keypairs ever installed for one system
    Failing,        \* systems whose endpoints may raise once the disk has changed
    MaxSessions,    \* bound: sessions the servers hand out
    NoTask

ASSUME SystemOfAssumption == SystemOf \in [Keys -> Systems]
ASSUME BoundAssumption == MaxGen \in Nat \ {0} /\ MaxSessions \in Nat
ASSUME FailingAssumption == Failing \subseteq Systems
ASSUME NoTaskAssumption == NoTask \notin Tasks

\* Sessions are numbered in the order of their logins; 0 is no session.
None == 0
Sessions == 1..MaxSessions

VARIABLES
    files,      \* systems with their <name>.json
    live,       \* the ones of them whose directory also holds a keypair
    gen,        \* which keypair of a system is installed, counted from 1
    sessions,   \* _sessions
    holder,     \* holder[k]: the task inside "async with lock" of key k
    queue,      \* queue[k]: tasks waiting in acquire(), in FIFO order
    pc,         \* "idle", "waiting", "login" or "sending"
    key,        \* the session key of the request
    pem,        \* which keypair the request read when it resolved
    using,      \* the session of the request being sent
    rejected,   \* the session the server rejected, once one was
    logins,     \* sessions handed out so far
    madeWith,   \* madeWith[i]: the keypair session i was logged in with
    ended       \* sessions the servers no longer accept

disk == <<files, live, gen>>
server == <<logins, madeWith, ended>>
vars == <<disk, sessions, holder, queue, pc, key, pem, using, rejected, server>>

Init ==
    /\ files = Systems /\ live = Systems
    /\ gen = [s \in Systems |-> 1]
    /\ sessions = [k \in Keys |-> None]
    /\ holder = [k \in Keys |-> NoTask]
    /\ queue = [k \in Keys |-> <<>>]
    /\ pc = [t \in Tasks |-> "idle"]
    /\ key \in [Tasks -> Keys]
    /\ pem = [t \in Tasks |-> 1]
    /\ using = [t \in Tasks |-> None]
    /\ rejected = [t \in Tasks |-> None]
    /\ logins = 0 /\ madeWith = [i \in Sessions |-> 1] /\ ended = {}

-----------------------------------------------------------------------------
\* _ensure_session up to its first await, the cache being "cached": the cached
\* session, or the lock of the key and then the login, or the lock's queue.
Ensure(t, k, cached) ==
    \/ /\ cached[k] # None
       /\ pc' = [pc EXCEPT ![t] = "sending"]
       /\ using' = [using EXCEPT ![t] = cached[k]]
       /\ UNCHANGED <<holder, queue>>
    \/ /\ cached[k] = None
       /\ holder[k] = NoTask /\ queue[k] = <<>>
       /\ holder' = [holder EXCEPT ![k] = t]
       /\ pc' = [pc EXCEPT ![t] = "login"]
       /\ using' = [using EXCEPT ![t] = None]
       /\ UNCHANGED queue
    \/ /\ cached[k] = None
       /\ holder[k] # NoTask \/ queue[k] # <<>>
       /\ queue' = [queue EXCEPT ![k] = Append(@, t)]
       /\ pc' = [pc EXCEPT ![t] = "waiting"]
       /\ using' = [using EXCEPT ![t] = None]
       /\ UNCHANGED holder

\* _send: _resolve (the private key is read here) and _ensure_session.
Start(t, k) ==
    /\ pc[t] = "idle" /\ SystemOf[k] \in live
    /\ key' = [key EXCEPT ![t] = k]
    /\ pem' = [pem EXCEPT ![t] = gen[SystemOf[k]]]
    /\ rejected' = [rejected EXCEPT ![t] = None]
    /\ Ensure(t, k, sessions)
    /\ UNCHANGED <<disk, sessions, server>>

\* Mutant: no second look at the cache under the lock.
WakeUnchecked(t) ==
    LET k == key[t] IN
    /\ pc[t] = "waiting" /\ holder[k] = NoTask
    /\ queue[k] # <<>> /\ Head(queue[k]) = t
    /\ queue' = [queue EXCEPT ![k] = Tail(@)]
    /\ pc' = [pc EXCEPT ![t] = "login"]
    /\ holder' = [holder EXCEPT ![k] = t]
    /\ UNCHANGED <<disk, sessions, key, pem, using, rejected, server>>

\* The head of the queue gets the lock and looks at the cache again.
Wake(t) ==
    LET k == key[t] IN
    /\ pc[t] = "waiting" /\ holder[k] = NoTask
    /\ queue[k] # <<>> /\ Head(queue[k]) = t
    /\ queue' = [queue EXCEPT ![k] = Tail(@)]
    /\ \/ /\ sessions[k] # None
          /\ pc' = [pc EXCEPT ![t] = "sending"]
          /\ using' = [using EXCEPT ![t] = sessions[k]]
          /\ UNCHANGED holder
       \/ /\ sessions[k] = None
          /\ pc' = [pc EXCEPT ![t] = "login"]
          /\ holder' = [holder EXCEPT ![k] = t]
          /\ UNCHANGED using
    /\ UNCHANGED <<disk, sessions, key, pem, rejected, server>>

\* The frame of _send, with its locals, is gone.
Leave(t) ==
    /\ pc' = [pc EXCEPT ![t] = "idle"]
    /\ pem' = [pem EXCEPT ![t] = 1]
    /\ using' = [using EXCEPT ![t] = None]
    /\ rejected' = [rejected EXCEPT ![t] = None]
    /\ UNCHANGED key

\* _login returns a session: stored, the lock left, the request sent with it.
LoginDone(t) ==
    /\ pc[t] = "login" /\ logins < MaxSessions
    /\ logins' = logins + 1
    /\ madeWith' = [madeWith EXCEPT ![logins'] = pem[t]]
    /\ sessions' = [sessions EXCEPT ![key[t]] = logins']
    /\ using' = [using EXCEPT ![t] = logins']
    /\ holder' = [holder EXCEPT ![key[t]] = NoTask]
    /\ pc' = [pc EXCEPT ![t] = "sending"]
    /\ UNCHANGED <<disk, queue, key, pem, rejected, ended>>

\* Mutant: a failed login is tried again, behind the others.
LoginFailAgain(t) ==
    /\ pc[t] = "login"
    /\ pc' = [pc EXCEPT ![t] = "waiting"]
    /\ queue' = [queue EXCEPT ![key[t]] = Append(@, t)]
    /\ holder' = [holder EXCEPT ![key[t]] = NoTask]
    /\ UNCHANGED <<disk, sessions, key, pem, using, rejected, server>>

\* The token request or login() fails or is cut off: the request raises.
LoginFail(t) ==
    /\ pc[t] = "login"
    /\ holder' = [holder EXCEPT ![key[t]] = NoTask]
    /\ Leave(t)
    /\ UNCHANGED <<disk, sessions, queue, server>>

\* within_request_limit, or the caller, cancels a task queued for the lock.
CancelWait(t) ==
    LET k == key[t] IN
    /\ pc[t] = "waiting"
    /\ \E i \in DOMAIN queue[k] :
          queue[k][i] = t /\ queue' = [queue EXCEPT ![k] = RemoveAt(@, i)]
    /\ Leave(t)
    /\ UNCHANGED <<disk, sessions, holder, server>>

\* Mutant: the sessions of every key are dropped.
RejectClearing(t) ==
    LET left == [k \in Keys |-> None] IN
    /\ pc[t] = "sending" /\ rejected[t] = None /\ using[t] \in ended
    /\ rejected' = [rejected EXCEPT ![t] = using[t]]
    /\ sessions' = left
    /\ Ensure(t, key[t], left)
    /\ UNCHANGED <<disk, key, pem, server>>

\* The first answer is INVALID_SESSION: whatever session the key has by now is
\* dropped, and _ensure_session runs again for the connection resolved at Start.
Reject(t) ==
    LET left == [sessions EXCEPT ![key[t]] = None] IN
    /\ pc[t] = "sending" /\ rejected[t] = None /\ using[t] \in ended
    /\ rejected' = [rejected EXCEPT ![t] = using[t]]
    /\ sessions' = left
    /\ Ensure(t, key[t], left)
    /\ UNCHANGED <<disk, key, pem, server>>

\* Any other answer, and the second one whatever it is, goes to the caller.
Finish(t) ==
    /\ pc[t] = "sending" /\ (rejected[t] # None \/ using[t] \notin ended)
    /\ Leave(t)
    /\ UNCHANGED <<disk, sessions, holder, queue, server>>

\* The send raises or is cancelled.
SendFail(t) ==
    /\ pc[t] = "sending"
    /\ Leave(t)
    /\ UNCHANGED <<disk, sessions, holder, queue, server>>

-----------------------------------------------------------------------------
\* Mutant: only one entry of the system is dropped.
EvictFirst(s) ==
    LET first == CHOOSE k \in Keys : SystemOf[k] = s IN
    sessions' = [sessions EXCEPT ![first] = None]

\* _invalidate_session_cache
Evict(s) ==
    sessions' = [k \in Keys |-> IF SystemOf[k] = s THEN None ELSE sessions[k]]

\* SystemStore.install once the pair is in place.
Installed(s) ==
    /\ s \in files /\ gen[s] < MaxGen
    /\ gen' = [gen EXCEPT ![s] = @ + 1]
    /\ live' = live \union {s}
    /\ UNCHANGED <<files, holder, queue, pc, key, pem, using, rejected, server>>

\* SystemStore.delete once the directory is gone.
Deleted(s) ==
    /\ s \in files
    /\ files' = files \ {s} /\ live' = live \ {s}
    /\ UNCHANGED <<gen, holder, queue, pc, key, pem, using, rejected, server>>

\* install_keypair and delete_system, which evict with no await in between.
InstallKeypair(s) == Installed(s) /\ Evict(s)
DeleteSystem(s) == Deleted(s) /\ Evict(s)

\* install raises after the swap (cleaning up the stage, or reading the pair
\* back), or rmtree raises half-way: the endpoint is left before its eviction.
InstallFails(s) == s \in Failing /\ Installed(s) /\ UNCHANGED sessions
DeleteFails(s) ==
    /\ s \in Failing \intersect files
    /\ live' = live \ {s}
    /\ files' \in {files, files \ {s}}
    /\ UNCHANGED <<gen, sessions, holder, queue, pc, key, pem, using, rejected, server>>

\* The operator puts the directory of a deleted system back by hand.
RestoreSystem(s) ==
    /\ s \notin live
    /\ files' = files \union {s} /\ live' = live \union {s}
    /\ UNCHANGED <<gen, sessions, holder, queue, pc, key, pem, using, rejected, server>>

\* The server ends a session (idle time, its maximal age, a restart).
EndSession ==
    /\ \E i \in 1..logins : i \notin ended /\ ended' = ended \union {i}
    /\ UNCHANGED <<disk, sessions, holder, queue, pc, key, pem, using, rejected,
                   logins, madeWith>>

TaskStep(t) ==
    \/ \E k \in Keys : Start(t, k)
    \/ Wake(t) \/ LoginDone(t) \/ LoginFail(t) \/ CancelWait(t)
    \/ Reject(t) \/ Finish(t) \/ SendFail(t)

SystemStep(s) ==
    \/ InstallKeypair(s) \/ InstallFails(s)
    \/ DeleteSystem(s) \/ DeleteFails(s) \/ RestoreSystem(s)

Next ==
    \/ \E t \in Tasks : TaskStep(t)
    \/ \E s \in Systems : SystemStep(s)
    \/ EndSession

Spec == Init /\ [][Next]_vars

\* The event loop runs woken tasks, and request_timeout bounds every await.
Fairness ==
    \A t \in Tasks :
        /\ WF_vars(Wake(t))
        /\ WF_vars(LoginDone(t) \/ LoginFail(t))
        /\ WF_vars(Reject(t) \/ Finish(t) \/ SendFail(t))

FairSpec == Spec /\ Fairness

-----------------------------------------------------------------------------
(* Properties *)

\* The types; a task holds the lock of its key exactly while it logs in.
TypeOK ==
    /\ files \subseteq Systems /\ live \subseteq files
    /\ gen \in [Systems -> 1..MaxGen]
    /\ sessions \in [Keys -> 0..logins]
    /\ holder \in [Keys -> Tasks \union {NoTask}]
    /\ queue \in [Keys -> Seq(Tasks)]
    /\ pc \in [Tasks -> {"idle", "waiting", "login", "sending"}]
    /\ \A t \in Tasks, k \in Keys : holder[k] = t <=> pc[t] = "login" /\ key[t] = k
    /\ key \in [Tasks -> Keys]
    /\ pem \in [Tasks -> 1..MaxGen]
    /\ using \in [Tasks -> 0..logins]
    /\ rejected \in [Tasks -> 0..logins]
    /\ logins \in 0..MaxSessions
    /\ madeWith \in [Sessions -> 1..MaxGen]
    /\ ended \subseteq 1..logins

\* A task is in the queue of its key, once, exactly while it waits: no waiter is
\* lost, or woken twice, when another is cancelled or the lock changes hands.
QueuedOnce ==
    /\ \A k \in Keys : \A i \in 1..Len(queue[k]) :
          /\ pc[queue[k][i]] = "waiting" /\ key[queue[k][i]] = k
          /\ \A j \in 1..Len(queue[k]) : queue[k][i] = queue[k][j] => i = j
    /\ \A t \in Tasks : pc[t] = "waiting" =>
          \E i \in 1..Len(queue[key[t]]) : queue[key[t]][i] = t

\* A task logs in only for a key that has no session, and no other task does so
\* at the same time: a storm of first calls, or of rejections, is one login.
LoginCoalesced ==
    \A t \in Tasks : pc[t] = "login" =>
        /\ sessions[key[t]] = None
        /\ \A u \in Tasks \ {t} : pc[u] = "login" => key[u] # key[t]

\* A session the server accepts leaves the cache only when its system's key is
\* replaced or deleted, or for the late rejection of an older session of the
\* same key (the code drops by key, not by session: one login is wasted then).
GoodSessionKept ==
    [][\A k \in Keys :
          sessions[k] \notin ended \union {None} /\ sessions'[k] # sessions[k] =>
             \/ gen' # gen \/ files' # files
             \/ \E t \in Tasks : /\ pc[t] = "sending" /\ key[t] = k
                                 /\ rejected'[t] = using[t] /\ using[t] < sessions[k]]_vars

\* The session of key k, if any, was logged in with the keypair now on disk.
Current(k) ==
    sessions[k] # None =>
        SystemOf[k] \in live /\ madeWith[sessions[k]] = gen[SystemOf[k]]

\* A completed install or delete leaves no session of the old key behind: a
\* session goes stale only when a login ends that resolved its key before the
\* replacement, or when the endpoint fails after it changed the disk, which
\* skips the eviction.
StaleOnlyFromRaceOrFailure ==
    [][\A k \in Keys : Current(k) /\ ~Current(k)' =>
          \/ \E t \in Tasks : /\ pc[t] = "login" /\ pc'[t] = "sending" /\ key[t] = k
                              /\ SystemOf[k] \notin live \/ pem[t] < gen[SystemOf[k]]
          \/ InstallFails(SystemOf[k]) \/ DeleteFails(SystemOf[k])]_vars

\* Every request ends, whoever fails, is cancelled or is rejected.
EveryRequestEnds ==
    \A t \in Tasks : pc[t] # "idle" ~> pc[t] = "idle"
=============================================================================
