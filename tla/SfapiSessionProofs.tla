-------------------------- MODULE SfapiSessionProofs --------------------------
(***************************************************************************)
(* Proofs about SfapiSession, for any sets of tasks, systems and keys and   *)
(* any number of keypairs and sessions.  The inductive invariant ties the   *)
(* queues to the waiting tasks, and orders the sessions and keypairs a task *)
(* has seen before those of the cache and the disk.                         *)
(***************************************************************************)
EXTENDS SfapiSession, SequenceTheorems, TLAPS

\* A task never uses a session younger than the one cached for its key.
UsingNotAhead ==
    \A t \in Tasks : sessions[key[t]] # None => using[t] <= sessions[key[t]]

\* No request has read a keypair newer than the latest one installed.
PemNotAhead == \A t \in Tasks : pem[t] <= gen[SystemOf[key[t]]]

IInv == TypeOK /\ QueuedOnce /\ LoginCoalesced /\ UsingNotAhead /\ PemNotAhead

USE SystemOfAssumption, BoundAssumption, NoTaskAssumption

-----------------------------------------------------------------------------
(* Queues *)

\* Taking the i-th element out of a queue leaves the others in their order.
LEMMA RemoveAtType ==
    \A q \in Seq(Tasks) : \A i \in 1..Len(q) :
       /\ RemoveAt(q, i) \in Seq(Tasks)
       /\ Len(RemoveAt(q, i)) = Len(q) - 1
       /\ \A j \in 1..(Len(q) - 1) :
             RemoveAt(q, i)[j] = IF j < i THEN q[j] ELSE q[j + 1]
<1> TAKE q \in Seq(Tasks)
<1> TAKE i \in 1..Len(q)
<1> DEFINE front == SubSeq(q, 1, i - 1)
           back == SubSeq(q, i + 1, Len(q))
<1>1. front \in Seq(Tasks) /\ Len(front) = i - 1 /\ \A j \in 1..(i - 1) : front[j] = q[j]
  OBVIOUS
<1>2. /\ back \in Seq(Tasks) /\ Len(back) = Len(q) - i
      /\ \A j \in 1..(Len(q) - i) : back[j] = q[i + j]
  OBVIOUS
<1>3. RemoveAt(q, i) = front \o back
  BY DEF RemoveAt
<1> HIDE DEF front, back
<1>4. /\ front \o back \in Seq(Tasks)
      /\ Len(front \o back) = Len(front) + Len(back)
      /\ \A j \in 1..(Len(front) + Len(back)) :
            (front \o back)[j] = IF j <= Len(front) THEN front[j] ELSE back[j - Len(front)]
  BY <1>1, <1>2, ConcatProperties
<1>5. ASSUME NEW j \in 1..(Len(q) - 1)
      PROVE  (front \o back)[j] = IF j < i THEN q[j] ELSE q[j + 1]
  <2>1. CASE j < i
    BY <1>1, <1>2, <1>4, <2>1
  <2>2. CASE ~(j < i)
    <3>1. (front \o back)[j] = back[j - (i - 1)]
      BY <1>1, <1>2, <1>4, <2>2
    <3>2. j - (i - 1) \in 1..(Len(q) - i)
      BY <2>2
    <3> QED BY <1>2, <2>2, <3>1, <3>2
  <2> QED BY <2>1, <2>2
<1> QED BY <1>1, <1>2, <1>3, <1>4, <1>5

\* The same of the queue of a key.
LEMMA RemoveAtQueue ==
    ASSUME NEW k \in Keys, queue[k] \in Seq(Tasks), NEW i \in 1..Len(queue[k])
    PROVE  /\ RemoveAt(queue[k], i) \in Seq(Tasks)
           /\ Len(RemoveAt(queue[k], i)) = Len(queue[k]) - 1
           /\ \A j \in 1..(Len(queue[k]) - 1) :
                 RemoveAt(queue[k], i)[j] = IF j < i THEN queue[k][j] ELSE queue[k][j + 1]
  BY RemoveAtType

\* Tail is the removal of the first element.
LEMMA TailRemovesHead ==
    ASSUME NEW q \in Seq(Tasks), q # <<>>
    PROVE  Tail(q) = RemoveAt(q, 1) /\ 1 \in 1..Len(q) /\ q[1] = Head(q)
<1>1. Tail(q) = SubSeq(q, 2, Len(q))
  BY TailIsSubSeq
<1>2. SubSeq(q, 1, 0) = <<>>
  BY SubSeqEmpty
<1>3. <<>> \o SubSeq(q, 2, Len(q)) = SubSeq(q, 2, Len(q))
  BY ConcatEmptySeq
<1> QED BY <1>1, <1>2, <1>3 DEF RemoveAt

\* A task that joins the queue of its key, being in no queue yet.
LEMMA JoinQueue ==
    ASSUME TypeOK, QueuedOnce, NEW t \in Tasks, NEW k \in Keys, pc[t] # "waiting",
           queue' = [queue EXCEPT ![k] = Append(@, t)],
           pc'[t] = "waiting", key'[t] = k,
           \A u \in Tasks \ {t} : pc'[u] = pc[u] /\ key'[u] = key[u]
    PROVE  QueuedOnce'
<1> DEFINE n == Len(queue[k])
<1>1. \A m \in Keys : queue[m] \in Seq(Tasks) /\ Len(queue[m]) \in Nat
  BY DEF TypeOK
<1>2. \A m \in Keys : \A i \in 1..Len(queue[m]) :
         /\ queue[m][i] \in Tasks \ {t}
         /\ pc[queue[m][i]] = "waiting" /\ key[queue[m][i]] = m
         /\ \A j \in 1..Len(queue[m]) : queue[m][i] = queue[m][j] => i = j
  BY <1>1 DEF QueuedOnce
<1>3. /\ Len(queue'[k]) = n + 1 /\ queue'[k][n + 1] = t
      /\ \A i \in 1..n : queue'[k][i] = queue[k][i]
      /\ \A m \in Keys \ {k} : queue'[m] = queue[m]
  BY <1>1 DEF TypeOK
<1> HIDE DEF n
<1>4. n \in Nat /\ \A i \in 1..(n + 1) : i \in 1..n \/ i = n + 1
  BY <1>1 DEF n
<1>5. ASSUME NEW m \in Keys, NEW i \in 1..Len(queue'[m])
      PROVE  /\ pc'[queue'[m][i]] = "waiting" /\ key'[queue'[m][i]] = m
             /\ \A j \in 1..Len(queue'[m]) : queue'[m][i] = queue'[m][j] => i = j
  <2>1. CASE m # k
    BY <1>2, <1>3, <1>5, <2>1
  <2>2. CASE m = k
    <3>1. i \in 1..(n + 1)
      BY <1>3, <1>5, <2>2
    <3>2. pc'[queue'[k][i]] = "waiting" /\ key'[queue'[k][i]] = k
      BY <1>2, <1>3, <1>4, <3>1 DEF n
    <3>3. \A j \in 1..(n + 1) : queue'[k][i] = queue'[k][j] => i = j
      BY <1>2, <1>3, <1>4, <3>1 DEF n
    <3> QED BY <1>3, <2>2, <3>2, <3>3
  <2> QED BY <2>1, <2>2
<1>6. ASSUME NEW u \in Tasks, pc'[u] = "waiting"
      PROVE  \E i \in 1..Len(queue'[key'[u]]) : queue'[key'[u]][i] = u
  <2>1. CASE u = t
    BY <1>3, <1>4, <2>1
  <2>2. CASE u # t
    <3>1. pc[u] = "waiting" /\ key'[u] = key[u] /\ key[u] \in Keys
      BY <1>6, <2>2 DEF TypeOK
    <3>2. PICK i \in 1..Len(queue[key[u]]) : queue[key[u]][i] = u
      BY <3>1 DEF QueuedOnce
    <3>3. CASE key[u] # k
      BY <1>3, <3>1, <3>2, <3>3
    <3>4. CASE key[u] = k
      <4>1. i \in 1..n /\ queue[k][i] = u
        BY <3>2, <3>4 DEF n
      <4>2. i \in 1..Len(queue'[k]) /\ queue'[k][i] = u
        BY <1>3, <1>4, <4>1
      <4> QED BY <3>1, <3>4, <4>2
    <3> QED BY <3>3, <3>4
  <2> QED BY <2>1, <2>2
<1> QED BY <1>5, <1>6 DEF QueuedOnce

\* A waiting task that leaves the queue of its key, from wherever it stands.
LEMMA LeaveQueue ==
    ASSUME TypeOK, QueuedOnce, NEW t \in Tasks, NEW k \in Keys, key[t] = k,
           \E i \in 1..Len(queue[k]) :
              queue[k][i] = t /\ queue' = [queue EXCEPT ![k] = RemoveAt(@, i)],
           pc'[t] # "waiting",
           \A u \in Tasks \ {t} : pc'[u] = pc[u] /\ key'[u] = key[u]
    PROVE  QueuedOnce'
<1>0. PICK i \in 1..Len(queue[k]) :
         queue[k][i] = t /\ queue' = [queue EXCEPT ![k] = RemoveAt(queue[k], i)]
  OBVIOUS
<1> DEFINE n == Len(queue[k])
           src(j) == IF j < i THEN j ELSE j + 1
<1>1. queue[k] \in Seq(Tasks) /\ n \in Nat /\ i \in 1..n
  BY DEF TypeOK
<1>2. queue'[k] = RemoveAt(queue[k], i) /\ \A m \in Keys \ {k} : queue'[m] = queue[m]
  BY <1>0 DEF TypeOK
<1>3. /\ Len(queue'[k]) = n - 1
      /\ \A j \in 1..(n - 1) : queue'[k][j] = IF j < i THEN queue[k][j] ELSE queue[k][j + 1]
  BY <1>1, <1>2, RemoveAtQueue
<1>4a. \A m \in Keys : \A j \in 1..Len(queue[m]) : queue[m][j] \in Tasks
  BY DEF TypeOK
<1>4. \A m \in Keys : \A j \in 1..Len(queue[m]) :
         /\ queue[m][j] \in Tasks
         /\ pc[queue[m][j]] = "waiting" /\ key[queue[m][j]] = m
         /\ \A h \in 1..Len(queue[m]) : queue[m][j] = queue[m][h] => j = h
  BY <1>4a DEF QueuedOnce
<1>5. \A j \in 1..(n - 1) : src(j) \in 1..n /\ src(j) # i /\ queue'[k][j] = queue[k][src(j)]
  BY <1>1, <1>3
<1>6. \A j, h \in 1..(n - 1) : src(j) = src(h) => j = h
  BY <1>1
<1>7. \A j \in 1..n : j # i => \E h \in 1..(n - 1) : src(h) = j
  <2>1. ASSUME NEW j \in 1..n, j < i PROVE j \in 1..(n - 1) /\ src(j) = j
    BY <1>1, <2>1
  <2>2. ASSUME NEW j \in 1..n, j > i PROVE j - 1 \in 1..(n - 1) /\ src(j - 1) = j
    BY <1>1, <2>2
  <2> QED BY <1>1, <2>1, <2>2
<1> HIDE DEF src, n
<1>8. ASSUME NEW m \in Keys, NEW j \in 1..Len(queue'[m])
      PROVE  /\ pc'[queue'[m][j]] = "waiting" /\ key'[queue'[m][j]] = m
             /\ \A h \in 1..Len(queue'[m]) : queue'[m][j] = queue'[m][h] => j = h
  <2>1. CASE m # k
    BY <1>2, <1>4, <1>8, <2>1
  <2>2. CASE m = k
    <3>1. j \in 1..(n - 1) /\ src(j) \in 1..n /\ src(j) # i
      BY <1>3, <1>5, <1>8, <2>2
    <3>2. queue[k][src(j)] \in Tasks \ {t}
      BY <1>0, <1>4, <3>1 DEF n
    <3>3. pc'[queue'[k][j]] = "waiting" /\ key'[queue'[k][j]] = k
      BY <1>4, <1>5, <3>1, <3>2 DEF n
    <3>4. ASSUME NEW h \in 1..(n - 1), queue'[k][j] = queue'[k][h] PROVE j = h
      <4>1. src(h) \in 1..n /\ queue[k][src(j)] = queue[k][src(h)]
        BY <1>5, <3>1, <3>4
      <4>2. src(j) = src(h)
        BY <1>4, <3>1, <4>1 DEF n
      <4> QED BY <1>6, <3>1, <4>2
    <3> QED BY <1>3, <2>2, <3>3, <3>4
  <2> QED BY <2>1, <2>2
<1>9. ASSUME NEW u \in Tasks, pc'[u] = "waiting"
      PROVE  \E j \in 1..Len(queue'[key'[u]]) : queue'[key'[u]][j] = u
  <2>1. u # t /\ pc[u] = "waiting" /\ key'[u] = key[u] /\ key[u] \in Keys
    BY <1>9 DEF TypeOK
  <2>2. PICK j \in 1..Len(queue[key[u]]) : queue[key[u]][j] = u
    BY <2>1 DEF QueuedOnce
  <2>3. CASE key[u] # k
    BY <1>2, <2>1, <2>2, <2>3
  <2>4. CASE key[u] = k
    <3>1. j \in 1..n /\ j # i /\ queue[k][j] = u
      BY <1>0, <2>1, <2>2, <2>4 DEF n
    <3>2. PICK h \in 1..(n - 1) : src(h) = j
      BY <1>7, <3>1
    <3>3. h \in 1..Len(queue'[k]) /\ queue'[k][h] = u
      BY <1>3, <1>5, <3>1, <3>2
    <3> QED BY <2>1, <2>4, <3>3
  <2> QED BY <2>3, <2>4
<1> QED BY <1>8, <1>9 DEF QueuedOnce

-----------------------------------------------------------------------------
(* Types and locks *)

LEMMA TypeInit == Init => TypeOK
  BY DEF Init, TypeOK, Sessions, None

\* What _ensure_session may leave, for a task that is not logging in.
LEMMA EnsureType ==
    ASSUME TypeOK, NEW t \in Tasks, NEW k \in Keys, NEW cached \in [Keys -> 0..logins],
           pc[t] # "login", Ensure(t, k, cached), key' = [key EXCEPT ![t] = k]
    PROVE  /\ holder' \in [Keys -> Tasks \union {NoTask}]
           /\ queue' \in [Keys -> Seq(Tasks)]
           /\ pc' \in [Tasks -> {"idle", "waiting", "login", "sending"}]
           /\ key' \in [Tasks -> Keys]
           /\ using' \in [Tasks -> 0..logins]
           /\ \A u \in Tasks, m \in Keys :
                 holder'[m] = u <=> pc'[u] = "login" /\ key'[u] = m
<1>1. Append(queue[k], t) \in Seq(Tasks) /\ cached[k] \in 0..logins /\ 0 \in 0..logins
  BY DEF TypeOK
<1>2. CASE pc' = [pc EXCEPT ![t] = "sending"] /\ using' = [using EXCEPT ![t] = cached[k]]
           /\ UNCHANGED <<holder, queue>>
  BY <1>1, <1>2 DEF TypeOK
<1>3. CASE /\ holder[k] = NoTask /\ holder' = [holder EXCEPT ![k] = t]
           /\ pc' = [pc EXCEPT ![t] = "login"]
           /\ using' = [using EXCEPT ![t] = None] /\ UNCHANGED queue
  <2>1. /\ holder' \in [Keys -> Tasks \union {NoTask}]
        /\ pc' \in [Tasks -> {"idle", "waiting", "login", "sending"}]
        /\ using' \in [Tasks -> 0..logins] /\ key' \in [Tasks -> Keys]
    BY <1>1, <1>3 DEF TypeOK, None
  <2>2. ASSUME NEW u \in Tasks, NEW m \in Keys
        PROVE  holder'[m] = u <=> pc'[u] = "login" /\ key'[u] = m
    <3>1. CASE u = t
      BY <1>3, <3>1 DEF TypeOK
    <3>2. CASE u # t
      <4>1. pc'[u] = pc[u] /\ key'[u] = key[u] /\ holder[k] # u
        BY <1>3, <3>2 DEF TypeOK
      <4>2. CASE m = k
        BY <1>3, <3>2, <4>1, <4>2 DEF TypeOK
      <4>3. CASE m # k
        <5>1. holder'[m] = holder[m]
          BY <1>3, <4>3 DEF TypeOK
        <5>2. holder[m] = u <=> pc[u] = "login" /\ key[u] = m
          BY DEF TypeOK
        <5> QED BY <4>1, <5>1, <5>2
      <4> QED BY <4>2, <4>3
    <3> QED BY <3>1, <3>2
  <2> QED BY <1>3, <2>1, <2>2 DEF TypeOK
<1>4. CASE /\ queue' = [queue EXCEPT ![k] = Append(@, t)]
           /\ pc' = [pc EXCEPT ![t] = "waiting"]
           /\ using' = [using EXCEPT ![t] = None] /\ UNCHANGED holder
  BY <1>1, <1>4 DEF TypeOK, None
<1> QED BY <1>2, <1>3, <1>4 DEF Ensure

\* A login ends: its task gives the lock of its key back.
LEMMA ReleaseType ==
    ASSUME TypeOK, NEW t \in Tasks, pc[t] = "login", NEW next \in {"idle", "sending"},
           holder' = [holder EXCEPT ![key[t]] = NoTask], pc' = [pc EXCEPT ![t] = next],
           UNCHANGED key
    PROVE  /\ holder' \in [Keys -> Tasks \union {NoTask}]
           /\ pc' \in [Tasks -> {"idle", "waiting", "login", "sending"}]
           /\ \A u \in Tasks, m \in Keys :
                 holder'[m] = u <=> pc'[u] = "login" /\ key'[u] = m
<1>1. holder[key[t]] = t
  BY DEF TypeOK
<1>2. /\ holder' \in [Keys -> Tasks \union {NoTask}]
      /\ pc' \in [Tasks -> {"idle", "waiting", "login", "sending"}]
  BY DEF TypeOK
<1>3. ASSUME NEW u \in Tasks, NEW m \in Keys
      PROVE  holder'[m] = u <=> pc'[u] = "login" /\ key'[u] = m
  <2>1. holder[m] = u <=> pc[u] = "login" /\ key[u] = m
    BY DEF TypeOK
  <2>2. CASE u = t
    BY <1>1, <2>1, <2>2 DEF TypeOK
  <2>3. CASE u # t
    <3>1. pc'[u] = pc[u]
      BY <2>3 DEF TypeOK
    <3>2. CASE m = key[t]
      BY <1>1, <2>1, <2>3, <3>1, <3>2 DEF TypeOK
    <3>3. CASE m # key[t]
      BY <2>1, <3>1, <3>3 DEF TypeOK
    <3> QED BY <3>2, <3>3
  <2> QED BY <2>2, <2>3
<1> QED BY <1>2, <1>3

\* A task gets the free lock of its key.
LEMMA HoldType ==
    ASSUME TypeOK, NEW t \in Tasks, pc[t] # "login", holder[key[t]] = NoTask,
           holder' = [holder EXCEPT ![key[t]] = t], pc' = [pc EXCEPT ![t] = "login"],
           UNCHANGED key
    PROVE  /\ holder' \in [Keys -> Tasks \union {NoTask}]
           /\ pc' \in [Tasks -> {"idle", "waiting", "login", "sending"}]
           /\ \A u \in Tasks, m \in Keys :
                 holder'[m] = u <=> pc'[u] = "login" /\ key'[u] = m
<1>1. /\ holder' \in [Keys -> Tasks \union {NoTask}]
      /\ pc' \in [Tasks -> {"idle", "waiting", "login", "sending"}]
  BY DEF TypeOK
<1>2. ASSUME NEW u \in Tasks, NEW m \in Keys
      PROVE  holder'[m] = u <=> pc'[u] = "login" /\ key'[u] = m
  <2>1. holder[m] = u <=> pc[u] = "login" /\ key[u] = m
    BY DEF TypeOK
  <2>2. CASE u = t
    BY <2>1, <2>2 DEF TypeOK
  <2>3. CASE u # t
    <3>1. pc'[u] = pc[u]
      BY <2>3 DEF TypeOK
    <3>2. CASE m = key[t]
      BY <2>1, <2>3, <3>1, <3>2 DEF TypeOK
    <3>3. CASE m # key[t]
      BY <2>1, <3>1, <3>3 DEF TypeOK
    <3> QED BY <3>2, <3>3
  <2> QED BY <2>2, <2>3
<1> QED BY <1>1, <1>2

\* Phases other than "login" say nothing of the locks.
LEMMA PhaseType ==
    ASSUME TypeOK, NEW t \in Tasks, pc[t] # "login", UNCHANGED <<holder, key>>,
           NEW next \in {"idle", "waiting", "sending"}, pc' = [pc EXCEPT ![t] = next]
    PROVE  /\ pc' \in [Tasks -> {"idle", "waiting", "login", "sending"}]
           /\ \A u \in Tasks, m \in Keys :
                 holder'[m] = u <=> pc'[u] = "login" /\ key'[u] = m
<1>1. /\ pc \in [Tasks -> {"idle", "waiting", "login", "sending"}]
      /\ \A u \in Tasks, m \in Keys : holder[m] = u <=> pc[u] = "login" /\ key[u] = m
  BY DEF TypeOK
<1>2. pc' \in [Tasks -> {"idle", "waiting", "login", "sending"}]
  BY <1>1
<1>3. \A u \in Tasks : pc'[u] = "login" <=> pc[u] = "login"
  BY <1>1
<1> QED BY <1>1, <1>2, <1>3

\* The locals of a request that ends.
LEMMA LeaveType ==
    ASSUME TypeOK, NEW t \in Tasks, Leave(t)
    PROVE  /\ pem' \in [Tasks -> 1..MaxGen] /\ using' \in [Tasks -> 0..logins]
           /\ rejected' \in [Tasks -> 0..logins] /\ UNCHANGED key
<1>1. 1 \in 1..MaxGen /\ 0 \in 0..logins
  BY DEF TypeOK
<1> QED BY <1>1 DEF Leave, TypeOK, None

\* Evict leaves every other entry as it was.
LEMMA EvictType ==
    ASSUME TypeOK, NEW s \in Systems, Evict(s)
    PROVE  sessions' \in [Keys -> 0..logins]
  BY DEF TypeOK, Evict, None

LEMMA TypeStep == TypeOK /\ [Next]_vars => TypeOK'
<1> SUFFICES ASSUME TypeOK, [Next]_vars PROVE TypeOK'
  OBVIOUS
<1>0. 1 \in 1..MaxGen /\ 0 \in 0..logins /\ \A s \in Systems : gen[s] \in 1..MaxGen
  BY DEF TypeOK
<1>1. ASSUME NEW t \in Tasks, NEW k \in Keys, Start(t, k) PROVE TypeOK'
  <2>1. /\ Ensure(t, k, sessions) /\ key' = [key EXCEPT ![t] = k] /\ pc[t] # "login"
        /\ sessions \in [Keys -> 0..logins]
    BY <1>1 DEF Start, TypeOK
  <2>2. /\ pem' \in [Tasks -> 1..MaxGen] /\ rejected' \in [Tasks -> 0..logins]
        /\ UNCHANGED <<disk, sessions, server>>
    BY <1>0, <1>1 DEF Start, TypeOK, None
  <2> QED BY <2>1, <2>2, EnsureType DEF TypeOK, disk, server
<1>2. ASSUME NEW t \in Tasks, Wake(t) PROVE TypeOK'
  <2>1. /\ key[t] \in Keys /\ sessions[key[t]] \in 0..logins
        /\ pc[t] = "waiting" /\ holder[key[t]] = NoTask
        /\ UNCHANGED <<disk, sessions, key, pem, rejected, server>>
    BY <1>2 DEF Wake, TypeOK
  <2>2. queue' \in [Keys -> Seq(Tasks)]
    BY <1>2, <2>1 DEF Wake, TypeOK
  <2>3. CASE /\ pc' = [pc EXCEPT ![t] = "sending"] /\ UNCHANGED holder
             /\ using' = [using EXCEPT ![t] = sessions[key[t]]]
    BY <2>1, <2>2, <2>3, PhaseType DEF TypeOK, disk, server
  <2>4. CASE /\ pc' = [pc EXCEPT ![t] = "login"] /\ UNCHANGED using
             /\ holder' = [holder EXCEPT ![key[t]] = t]
    BY <2>1, <2>2, <2>4, HoldType DEF TypeOK, disk, server
  <2> QED BY <1>2, <2>3, <2>4 DEF Wake
<1>3. ASSUME NEW t \in Tasks, LoginDone(t) PROVE TypeOK'
  <2>1. /\ logins' = logins + 1 /\ logins' \in 0..MaxSessions /\ logins \in Nat
        /\ logins' \in 0..logins' /\ \A n \in 0..logins : n \in 0..logins'
        /\ \A n \in 1..logins : n \in 1..logins'
    BY <1>3 DEF LoginDone, TypeOK
  <2>2. key[t] \in Keys /\ pem[t] \in 1..MaxGen
    BY DEF TypeOK
  <2>3. /\ sessions' \in [Keys -> 0..logins'] /\ using' \in [Tasks -> 0..logins']
        /\ madeWith' \in [Sessions -> 1..MaxGen]
        /\ UNCHANGED <<disk, queue, key, pem, rejected, ended>>
    <3>1. sessions' = [sessions EXCEPT ![key[t]] = logins']
          /\ \A k \in Keys : sessions[k] \in 0..logins'
      BY <1>3, <2>1 DEF LoginDone, TypeOK
    <3>2. using' = [using EXCEPT ![t] = logins'] /\ \A u \in Tasks : using[u] \in 0..logins'
      BY <1>3, <2>1 DEF LoginDone, TypeOK
    <3>3. madeWith' = [madeWith EXCEPT ![logins'] = pem[t]]
      BY <1>3 DEF LoginDone
    <3>4. sessions' \in [Keys -> 0..logins']
      BY <2>1, <3>1 DEF TypeOK
    <3>5. using' \in [Tasks -> 0..logins']
      BY <2>1, <3>2 DEF TypeOK
    <3>6. madeWith' \in [Sessions -> 1..MaxGen]
      BY <2>2, <3>3 DEF TypeOK
    <3> QED BY <1>3, <3>4, <3>5, <3>6 DEF LoginDone
  <2>4. /\ holder' \in [Keys -> Tasks \union {NoTask}]
        /\ pc' \in [Tasks -> {"idle", "waiting", "login", "sending"}]
        /\ \A u \in Tasks, m \in Keys :
              holder'[m] = u <=> pc'[u] = "login" /\ key'[u] = m
    BY <1>3, ReleaseType DEF LoginDone
  <2> QED BY <2>1, <2>3, <2>4 DEF TypeOK, disk
<1>4. ASSUME NEW t \in Tasks, LoginFail(t) PROVE TypeOK'
  <2>1. /\ holder' \in [Keys -> Tasks \union {NoTask}]
        /\ pc' \in [Tasks -> {"idle", "waiting", "login", "sending"}]
        /\ \A u \in Tasks, m \in Keys :
              holder'[m] = u <=> pc'[u] = "login" /\ key'[u] = m
    BY <1>4, ReleaseType DEF LoginFail, Leave
  <2> QED BY <1>0, <1>4, <2>1 DEF LoginFail, Leave, TypeOK, None, disk, server
<1>5. ASSUME NEW t \in Tasks, CancelWait(t) PROVE TypeOK'
  <2>1. queue' \in [Keys -> Seq(Tasks)]
    <3>1. /\ key[t] \in Keys /\ queue[key[t]] \in Seq(Tasks)
          /\ DOMAIN queue[key[t]] = 1..Len(queue[key[t]])
      BY DEF TypeOK
    <3>2. PICK i \in 1..Len(queue[key[t]]) :
             queue' = [queue EXCEPT ![key[t]] = RemoveAt(queue[key[t]], i)]
      BY <1>5, <3>1 DEF CancelWait
    <3> QED BY <3>1, <3>2, RemoveAtQueue DEF TypeOK
  <2>2. pc[t] # "login" /\ pc' = [pc EXCEPT ![t] = "idle"] /\ UNCHANGED <<holder, key>>
    BY <1>5 DEF CancelWait, Leave
  <2>3. UNCHANGED <<disk, sessions, holder, server>>
    BY <1>5 DEF CancelWait
  <2>4. Leave(t)
    BY <1>5 DEF CancelWait
  <2>5. /\ pc' \in [Tasks -> {"idle", "waiting", "login", "sending"}]
        /\ \A u \in Tasks, m \in Keys :
              holder'[m] = u <=> pc'[u] = "login" /\ key'[u] = m
    BY <2>2, PhaseType
  <2>6. /\ pem' \in [Tasks -> 1..MaxGen] /\ using' \in [Tasks -> 0..logins]
        /\ rejected' \in [Tasks -> 0..logins] /\ key' = key
    BY <2>4, LeaveType
  <2>7. /\ files' = files /\ live' = live /\ gen' = gen /\ sessions' = sessions /\ holder' = holder
        /\ logins' = logins /\ madeWith' = madeWith /\ ended' = ended
    BY <2>3 DEF disk, server
  <2> QED BY <2>1, <2>5, <2>6, <2>7 DEF TypeOK
<1>6. ASSUME NEW t \in Tasks, Reject(t) PROVE TypeOK'
  <2> DEFINE left == [sessions EXCEPT ![key[t]] = None]
  <2>1. left \in [Keys -> 0..logins] /\ key' = [key EXCEPT ![t] = key[t]]
        /\ key[t] \in Keys /\ pc[t] # "login" /\ Ensure(t, key[t], left)
    BY <1>0, <1>6 DEF Reject, TypeOK, None
  <2>2. rejected' \in [Tasks -> 0..logins]
    BY <1>6 DEF Reject, TypeOK
  <2>3. sessions' = left /\ UNCHANGED <<disk, key, pem, server>>
    BY <1>6 DEF Reject
  <2> HIDE DEF left
  <2> QED BY <2>1, <2>2, <2>3, EnsureType DEF TypeOK, disk, server
<1>7. ASSUME NEW t \in Tasks, Finish(t) \/ SendFail(t) PROVE TypeOK'
  <2>1. pc[t] # "login" /\ pc' = [pc EXCEPT ![t] = "idle"] /\ UNCHANGED <<holder, key>>
    BY <1>7 DEF Finish, SendFail, Leave
  <2>2. Leave(t) /\ UNCHANGED <<disk, sessions, holder, queue, server>>
    BY <1>7 DEF Finish, SendFail
  <2>3. /\ pc' \in [Tasks -> {"idle", "waiting", "login", "sending"}]
        /\ \A u \in Tasks, m \in Keys :
              holder'[m] = u <=> pc'[u] = "login" /\ key'[u] = m
    BY <2>1, PhaseType
  <2>4. /\ pem' \in [Tasks -> 1..MaxGen] /\ using' \in [Tasks -> 0..logins]
        /\ rejected' \in [Tasks -> 0..logins] /\ key' = key
    BY <2>2, LeaveType
  <2>5. /\ files' = files /\ live' = live /\ gen' = gen /\ sessions' = sessions /\ holder' = holder
        /\ queue' = queue /\ logins' = logins /\ madeWith' = madeWith /\ ended' = ended
    BY <2>2 DEF disk, server
  <2> QED BY <2>3, <2>4, <2>5 DEF TypeOK
<1>8. ASSUME NEW s \in Systems, InstallKeypair(s) \/ InstallFails(s) PROVE TypeOK'
  <2>1. Installed(s)
    BY <1>8 DEF InstallKeypair, InstallFails
  <2>2. gen' \in [Systems -> 1..MaxGen]
    BY <2>1 DEF Installed, TypeOK
  <2>3. logins' = logins
    BY <2>1 DEF Installed, server
  <2>4. sessions' \in [Keys -> 0..logins]
    BY <1>8, EvictType DEF InstallKeypair, InstallFails, TypeOK
  <2> QED BY <2>1, <2>2, <2>3, <2>4 DEF Installed, TypeOK, server
<1>9. ASSUME NEW s \in Systems, DeleteSystem(s) \/ DeleteFails(s) PROVE TypeOK'
  <2>1. CASE DeleteSystem(s)
    BY <2>1, EvictType DEF DeleteSystem, Deleted, TypeOK, server
  <2>2. CASE DeleteFails(s)
    BY <2>2 DEF DeleteFails, TypeOK, server
  <2> QED BY <1>9, <2>1, <2>2
<1>10. ASSUME NEW s \in Systems, RestoreSystem(s) PROVE TypeOK'
  BY <1>10 DEF RestoreSystem, TypeOK, server
<1>11. CASE EndSession
  BY <1>11 DEF EndSession, TypeOK, disk
<1>12. CASE UNCHANGED vars
  BY <1>12 DEF vars, TypeOK, disk, server
<1> QED BY <1>1, <1>2, <1>3, <1>4, <1>5, <1>6, <1>7, <1>8, <1>9, <1>10, <1>11, <1>12
        DEF Next, TaskStep, SystemStep

\* Types, and the lock of a key is held exactly by the task that logs in for it.
THEOREM TypeCorrect == Spec => []TypeOK
  BY TypeInit, TypeStep, PTL DEF Spec

-----------------------------------------------------------------------------
(* The inductive invariant *)

LEMMA IInvInit == Init => IInv
<1> SUFFICES ASSUME Init PROVE IInv
  OBVIOUS
<1>1. TypeOK
  BY TypeInit
<1>2. QueuedOnce /\ LoginCoalesced
  BY DEF Init, QueuedOnce, LoginCoalesced
<1>3. UsingNotAhead /\ PemNotAhead
  BY DEF Init, UsingNotAhead, PemNotAhead
<1> QED BY <1>1, <1>2, <1>3 DEF IInv

LEMMA QueueStep == IInv /\ [Next]_vars => QueuedOnce'
<1> SUFFICES ASSUME IInv, [Next]_vars PROVE QueuedOnce'
  OBVIOUS
<1> USE DEF IInv
<1>0. ASSUME UNCHANGED <<queue, pc, key>> PROVE QueuedOnce'
  BY <1>0 DEF QueuedOnce
\* A task not in a queue, before and after.
<1>1. ASSUME NEW t \in Tasks, pc[t] # "waiting", pc'[t] # "waiting", UNCHANGED queue,
             \A u \in Tasks \ {t} : pc'[u] = pc[u] /\ key'[u] = key[u]
      PROVE  QueuedOnce'
  <2>1. ASSUME NEW k \in Keys, NEW i \in 1..Len(queue'[k])
        PROVE  /\ pc'[queue'[k][i]] = "waiting" /\ key'[queue'[k][i]] = k
               /\ \A j \in 1..Len(queue'[k]) : queue'[k][i] = queue'[k][j] => i = j
    <3>1. queue[k] \in Seq(Tasks) /\ i \in 1..Len(queue[k])
      BY <1>1, <2>1 DEF TypeOK
    <3>2. /\ pc[queue[k][i]] = "waiting" /\ key[queue[k][i]] = k
          /\ \A j \in 1..Len(queue[k]) : queue[k][i] = queue[k][j] => i = j
      BY <3>1 DEF QueuedOnce
    <3>3. queue[k][i] \in Tasks
      BY <3>1
    <3> QED BY <1>1, <3>2, <3>3
  <2>2. ASSUME NEW u \in Tasks, pc'[u] = "waiting"
        PROVE  \E i \in 1..Len(queue'[key'[u]]) : queue'[key'[u]][i] = u
    BY <1>1, <2>2 DEF QueuedOnce
  <2> QED BY <2>1, <2>2 DEF QueuedOnce
<1>2. ASSUME NEW t \in Tasks, NEW k \in Keys, NEW cached,
             pc[t] # "waiting", Ensure(t, k, cached), key' = [key EXCEPT ![t] = k]
      PROVE  QueuedOnce'
  <2>1. \A u \in Tasks \ {t} : pc'[u] = pc[u] /\ key'[u] = key[u]
    BY <1>2 DEF Ensure, TypeOK
  <2>2. CASE UNCHANGED queue /\ pc'[t] # "waiting"
    BY <1>1, <1>2, <2>1, <2>2
  <2>3. CASE queue' = [queue EXCEPT ![k] = Append(@, t)] /\ pc'[t] = "waiting"
    <3>1. key'[t] = k
      BY <1>2 DEF TypeOK
    <3> QED BY <1>2, <2>1, <2>3, <3>1, JoinQueue
  <2> QED BY <1>2, <2>2, <2>3 DEF Ensure, TypeOK
<1>3. ASSUME NEW t \in Tasks, NEW k \in Keys, Start(t, k) PROVE QueuedOnce'
  BY <1>2, <1>3 DEF Start
<1>4. ASSUME NEW t \in Tasks, Wake(t) PROVE QueuedOnce'
  <2>1. /\ key[t] \in Keys /\ queue[key[t]] \in Seq(Tasks) /\ queue[key[t]] # <<>>
        /\ Head(queue[key[t]]) = t
        /\ queue' = [queue EXCEPT ![key[t]] = Tail(queue[key[t]])]
        /\ UNCHANGED key
    BY <1>4 DEF Wake, TypeOK
  <2>2. \E i \in 1..Len(queue[key[t]]) :
           /\ queue[key[t]][i] = t
           /\ queue' = [queue EXCEPT ![key[t]] = RemoveAt(queue[key[t]], i)]
    BY <2>1, TailRemovesHead
  <2>3. pc'[t] # "waiting" /\ \A u \in Tasks \ {t} : pc'[u] = pc[u] /\ key'[u] = key[u]
    <3>1. PICK next \in {"sending", "login"} : pc' = [pc EXCEPT ![t] = next]
      BY <1>4 DEF Wake
    <3> QED BY <2>1, <3>1 DEF TypeOK
  <2> QED BY <2>1, <2>2, <2>3, LeaveQueue
<1>5. ASSUME NEW t \in Tasks, CancelWait(t) PROVE QueuedOnce'
  <2>1. /\ key[t] \in Keys /\ DOMAIN queue[key[t]] = 1..Len(queue[key[t]])
        /\ pc'[t] # "waiting" /\ \A u \in Tasks \ {t} : pc'[u] = pc[u] /\ key'[u] = key[u]
    BY <1>5 DEF CancelWait, Leave, TypeOK
  <2>2. \E i \in 1..Len(queue[key[t]]) :
           /\ queue[key[t]][i] = t
           /\ queue' = [queue EXCEPT ![key[t]] = RemoveAt(queue[key[t]], i)]
    BY <1>5, <2>1 DEF CancelWait
  <2> QED BY <2>1, <2>2, LeaveQueue
<1>6. ASSUME NEW t \in Tasks, Reject(t) PROVE QueuedOnce'
  <2>1. pc[t] # "waiting" /\ key[t] \in Keys /\ key' = [key EXCEPT ![t] = key[t]]
    BY <1>6 DEF Reject, TypeOK
  <2> QED BY <1>2, <1>6, <2>1 DEF Reject
<1>7. ASSUME NEW t \in Tasks, LoginDone(t) \/ LoginFail(t) \/ Finish(t) \/ SendFail(t)
      PROVE  QueuedOnce'
  <2>1. /\ pc[t] # "waiting" /\ pc'[t] # "waiting" /\ UNCHANGED queue
        /\ \A u \in Tasks \ {t} : pc'[u] = pc[u] /\ key'[u] = key[u]
    BY <1>7 DEF LoginDone, LoginFail, Finish, SendFail, Leave, TypeOK
  <2> QED BY <1>1, <2>1
<1>8. ASSUME NEW s \in Systems, SystemStep(s)
      PROVE  QueuedOnce'
  BY <1>0, <1>8 DEF SystemStep, InstallKeypair, InstallFails, DeleteSystem, DeleteFails,
                   RestoreSystem, Installed, Deleted
<1>9. CASE EndSession \/ UNCHANGED vars
  BY <1>0, <1>9 DEF EndSession, vars
<1> QED BY <1>3, <1>4, <1>5, <1>6, <1>7, <1>8, <1>9 DEF Next, TaskStep, SystemStep

\* Two logins of one key would hold one lock twice.
LEMMA OneLogin ==
    ASSUME TypeOK, NEW t \in Tasks, NEW u \in Tasks,
           pc[t] = "login", pc[u] = "login", key[t] = key[u]
    PROVE  t = u
<1>1. key[t] \in Keys /\ holder[key[t]] = t /\ holder[key[t]] = u
  BY DEF TypeOK
<1> QED BY <1>1

LEMMA LoginStep == IInv /\ [Next]_vars => LoginCoalesced'
<1> SUFFICES ASSUME IInv, [Next]_vars PROVE LoginCoalesced'
  OBVIOUS
<1>a. ASSUME NEW t \in Tasks, NEW w \in Tasks, pc'[t] = "login", pc'[w] = "login",
             key'[t] = key'[w]
      PROVE  t = w
  <2>1. TypeOK'
    BY TypeStep DEF IInv
  <2>2. key'[t] \in Keys /\ holder'[key'[t]] = t /\ holder'[key'[t]] = w
    BY <1>a, <2>1 DEF TypeOK
  <2> QED BY <2>2
<1> SUFFICES ASSUME NEW u \in Tasks, pc'[u] = "login" PROVE sessions'[key'[u]] = None
  BY <1>a DEF LoginCoalesced
<1> USE DEF IInv
<1>0. /\ pc[u] = "login" => sessions[key[u]] = None
      /\ \A t \in Tasks : key[t] \in Keys
  BY DEF LoginCoalesced, TypeOK
<1>1. ASSUME NEW t \in Tasks, NEW k \in Keys, NEW cached,
             Ensure(t, k, cached), key' = [key EXCEPT ![t] = k], sessions' = cached,
             \A m \in Keys : cached[m] = sessions[m] \/ cached[m] = None
      PROVE  sessions'[key'[u]] = None
  <2>1. CASE u = t
    <3>1. key'[u] = k
      BY <1>1, <2>1 DEF TypeOK
    <3>2. cached[k] = None
      BY <1>1, <2>1 DEF Ensure, TypeOK
    <3> QED BY <1>1, <3>1, <3>2
  <2>2. CASE u # t
    <3>1. pc[u] = "login" /\ key'[u] = key[u]
      BY <1>1, <2>2 DEF Ensure, TypeOK
    <3> QED BY <1>0, <1>1, <3>1
  <2> QED BY <2>1, <2>2
<1>2. ASSUME NEW t \in Tasks, NEW k \in Keys, Start(t, k) PROVE sessions'[key'[u]] = None
  BY <1>1, <1>2 DEF Start
<1>3. ASSUME NEW t \in Tasks, Wake(t) PROVE sessions'[key'[u]] = None
  <2>1. UNCHANGED <<key, sessions>>
    BY <1>3 DEF Wake
  <2>2. CASE u = t
    <3>1. sessions[key[t]] = None
      BY <1>3, <2>2 DEF Wake, TypeOK
    <3> QED BY <2>1, <2>2, <3>1
  <2>3. CASE u # t
    <3>1. pc[u] = "login"
      <4>1. PICK next \in {"sending", "login"} : pc' = [pc EXCEPT ![t] = next]
        BY <1>3 DEF Wake
      <4> QED BY <2>3, <4>1 DEF TypeOK
    <3> QED BY <1>0, <2>1, <3>1
  <2> QED BY <2>2, <2>3
<1>4. ASSUME NEW t \in Tasks, LoginDone(t) PROVE sessions'[key'[u]] = None
  <2>1. /\ pc[t] = "login" /\ u # t /\ pc[u] = "login" /\ UNCHANGED key
        /\ sessions' = [sessions EXCEPT ![key[t]] = logins']
    BY <1>4 DEF LoginDone, TypeOK
  <2>2. key[u] # key[t]
    BY <2>1, OneLogin
  <2> QED BY <1>0, <2>1, <2>2 DEF TypeOK
<1>5. ASSUME NEW t \in Tasks, LoginFail(t) \/ CancelWait(t) \/ Finish(t) \/ SendFail(t)
      PROVE  sessions'[key'[u]] = None
  <2>1. pc[u] = "login" /\ UNCHANGED <<key, sessions>>
    BY <1>5 DEF LoginFail, CancelWait, Finish, SendFail, Leave, TypeOK
  <2> QED BY <1>0, <2>1
<1>6. ASSUME NEW t \in Tasks, Reject(t) PROVE sessions'[key'[u]] = None
  <2> DEFINE left == [sessions EXCEPT ![key[t]] = None]
  <2>1. /\ sessions' = left /\ Ensure(t, key[t], left) /\ key[t] \in Keys
        /\ key' = [key EXCEPT ![t] = key[t]]
        /\ \A m \in Keys : left[m] = sessions[m] \/ left[m] = None
    BY <1>6 DEF Reject, TypeOK
  <2> HIDE DEF left
  <2> QED BY <1>1, <2>1
<1>7. ASSUME NEW s \in Systems, SystemStep(s) PROVE sessions'[key'[u]] = None
  BY <1>0, <1>7 DEF SystemStep, InstallKeypair, InstallFails, DeleteSystem, DeleteFails,
                    RestoreSystem, Installed, Deleted, Evict
<1>8. CASE EndSession \/ UNCHANGED vars
  BY <1>0, <1>8 DEF EndSession, vars
<1> QED BY <1>2, <1>3, <1>4, <1>5, <1>6, <1>7, <1>8 DEF Next, TaskStep, SystemStep

LEMMA UsingStep == IInv /\ [Next]_vars => UsingNotAhead'
<1> SUFFICES ASSUME IInv, [Next]_vars, NEW u \in Tasks, sessions'[key'[u]] # None
             PROVE  using'[u] <= sessions'[key'[u]]
  BY DEF UsingNotAhead
<1> USE DEF IInv
<1>0. /\ sessions[key[u]] # None => using[u] <= sessions[key[u]]
      /\ using[u] \in 0..logins /\ logins \in Nat /\ key[u] \in Keys
      /\ \A k \in Keys : sessions[k] \in 0..logins
  BY DEF UsingNotAhead, TypeOK
<1>1. ASSUME NEW t \in Tasks, NEW k \in Keys, NEW cached \in [Keys -> 0..logins],
             Ensure(t, k, cached), key' = [key EXCEPT ![t] = k], sessions' = cached,
             \A m \in Keys : cached[m] = sessions[m] \/ cached[m] = None
      PROVE  using'[u] <= sessions'[key'[u]]
  <2>1. CASE u = t
    <3>1. key'[u] = k /\ cached[k] \in 0..logins /\ (using'[u] = cached[k] \/ using'[u] = None)
      BY <1>1, <2>1 DEF Ensure, TypeOK
    <3> QED BY <1>1, <3>1 DEF None
  <2>2. CASE u # t
    <3>1. using'[u] = using[u] /\ key'[u] = key[u]
      <4>1. PICK next \in {cached[k], None} : using' = [using EXCEPT ![t] = next]
        BY <1>1 DEF Ensure
      <4>2. using \in [Tasks -> 0..logins] /\ key \in [Tasks -> Keys]
        BY DEF TypeOK
      <4> QED BY <1>1, <2>2, <4>1, <4>2
    <3> QED BY <1>0, <1>1, <3>1
  <2> QED BY <2>1, <2>2
<1>2. ASSUME NEW t \in Tasks, NEW k \in Keys, Start(t, k)
      PROVE  using'[u] <= sessions'[key'[u]]
  <2>1. sessions \in [Keys -> 0..logins]
    BY DEF TypeOK
  <2> QED BY <1>1, <1>2, <2>1 DEF Start
<1>3. ASSUME NEW t \in Tasks, Wake(t) PROVE using'[u] <= sessions'[key'[u]]
  <2>1. UNCHANGED <<key, sessions>>
    BY <1>3 DEF Wake
  <2>2. using'[u] = using[u] \/ using'[u] = sessions[key[u]]
    <3>1. using' = using \/ using' = [using EXCEPT ![t] = sessions[key[t]]]
      BY <1>3 DEF Wake
    <3>2. using \in [Tasks -> 0..logins]
      BY DEF TypeOK
    <3> QED BY <3>1, <3>2
  <2> QED BY <1>0, <2>1, <2>2
<1>4. ASSUME NEW t \in Tasks, LoginDone(t) PROVE using'[u] <= sessions'[key'[u]]
  <2>1. /\ logins' = logins + 1 /\ UNCHANGED key
        /\ sessions' = [sessions EXCEPT ![key[t]] = logins']
        /\ using' = [using EXCEPT ![t] = logins']
    BY <1>4 DEF LoginDone
  <2>2. CASE key[u] = key[t]
    <3>1. sessions'[key'[u]] = logins + 1 /\ (using'[u] = logins + 1 \/ using'[u] = using[u])
      BY <2>1, <2>2 DEF TypeOK
    <3> QED BY <1>0, <3>1
  <2>3. CASE key[u] # key[t]
    <3>1. sessions'[key'[u]] = sessions[key[u]] /\ using'[u] = using[u]
      BY <2>1, <2>3 DEF TypeOK
    <3> QED BY <1>0, <3>1
  <2> QED BY <2>2, <2>3
<1>5. ASSUME NEW t \in Tasks, LoginFail(t) \/ CancelWait(t) \/ Finish(t) \/ SendFail(t)
      PROVE  using'[u] <= sessions'[key'[u]]
  <2>1. UNCHANGED <<key, sessions>> /\ (using'[u] = using[u] \/ using'[u] = None)
    BY <1>5 DEF LoginFail, CancelWait, Finish, SendFail, Leave, TypeOK
  <2> QED BY <1>0, <2>1 DEF None
<1>6. ASSUME NEW t \in Tasks, Reject(t) PROVE using'[u] <= sessions'[key'[u]]
  <2> DEFINE left == [sessions EXCEPT ![key[t]] = None]
  <2>1. /\ sessions' = left /\ Ensure(t, key[t], left) /\ key[t] \in Keys
        /\ key' = [key EXCEPT ![t] = key[t]] /\ left \in [Keys -> 0..logins]
        /\ \A m \in Keys : left[m] = sessions[m] \/ left[m] = None
    BY <1>0, <1>6 DEF Reject, TypeOK, None
  <2> HIDE DEF left
  <2> QED BY <1>1, <2>1
<1>7. ASSUME NEW s \in Systems, SystemStep(s) PROVE using'[u] <= sessions'[key'[u]]
  <2>1. UNCHANGED <<key, using>> /\ sessions'[key[u]] \in {None, sessions[key[u]]}
    BY <1>0, <1>7 DEF SystemStep, InstallKeypair, InstallFails, DeleteSystem,
                      DeleteFails, RestoreSystem, Installed, Deleted, Evict
  <2> QED BY <1>0, <2>1
<1>8. ASSUME UNCHANGED <<key, using, sessions>> PROVE using'[u] <= sessions'[key'[u]]
  BY <1>0, <1>8
<1>9. CASE EndSession \/ UNCHANGED vars
  BY <1>8, <1>9 DEF EndSession, vars
<1> QED BY <1>2, <1>3, <1>4, <1>5, <1>6, <1>7, <1>8, <1>9 DEF Next, TaskStep, SystemStep

LEMMA PemStep == IInv /\ [Next]_vars => PemNotAhead'
<1> SUFFICES ASSUME IInv, [Next]_vars, NEW u \in Tasks
             PROVE  pem'[u] <= gen'[SystemOf[key'[u]]]
  BY DEF PemNotAhead
<1> USE DEF IInv
<1>0. /\ pem[u] \in Nat /\ pem[u] <= gen[SystemOf[key[u]]]
      /\ \A t \in Tasks : key[t] \in Keys
      /\ \A k \in Keys : SystemOf[k] \in Systems
      /\ \A s \in Systems : gen[s] \in Nat /\ 1 <= gen[s]
  BY DEF PemNotAhead, TypeOK
<1>1. ASSUME NEW t \in Tasks, NEW k \in Keys, Start(t, k)
      PROVE  pem'[u] <= gen'[SystemOf[key'[u]]]
  <2>1. gen' = gen
    BY <1>1 DEF Start, disk
  <2>2. CASE u = t
    <3>1. key'[u] = k /\ pem'[u] = gen[SystemOf[k]]
      BY <1>1, <2>2 DEF Start, TypeOK
    <3> QED BY <1>0, <2>1, <3>1
  <2>3. CASE u # t
    <3>1. key'[u] = key[u] /\ pem'[u] = pem[u]
      BY <1>1, <2>3 DEF Start, TypeOK
    <3> QED BY <1>0, <2>1, <3>1
  <2> QED BY <2>2, <2>3
<1>2. ASSUME NEW t \in Tasks, LoginFail(t) \/ CancelWait(t) \/ Finish(t) \/ SendFail(t)
      PROVE  pem'[u] <= gen'[SystemOf[key'[u]]]
  <2>1. UNCHANGED <<key, gen>> /\ (pem'[u] = pem[u] \/ pem'[u] = 1)
    BY <1>2 DEF LoginFail, CancelWait, Finish, SendFail, Leave, TypeOK, disk
  <2> QED BY <1>0, <2>1
<1>3. ASSUME NEW s \in Systems, Installed(s) PROVE pem'[u] <= gen'[SystemOf[key'[u]]]
  <2>1. UNCHANGED <<key, pem>> /\ gen' = [gen EXCEPT ![s] = @ + 1]
    BY <1>3 DEF Installed
  <2> QED BY <1>0, <2>1 DEF TypeOK
<1>4. CASE UNCHANGED <<key, pem, gen>>
  BY <1>0, <1>4
<1>5. ASSUME NEW t \in Tasks, Wake(t) \/ LoginDone(t) \/ Reject(t)
      PROVE  UNCHANGED <<key, pem, gen>>
  BY <1>5 DEF Wake, LoginDone, Reject, disk
<1>6. ASSUME NEW s \in Systems, DeleteSystem(s) \/ DeleteFails(s) \/ RestoreSystem(s)
      PROVE  UNCHANGED <<key, pem, gen>>
  BY <1>6 DEF DeleteSystem, Deleted, DeleteFails, RestoreSystem
<1>7. CASE EndSession \/ UNCHANGED vars
  BY <1>4, <1>7 DEF EndSession, vars, disk
<1> QED BY <1>1, <1>2, <1>3, <1>4, <1>5, <1>6, <1>7
       DEF Next, TaskStep, SystemStep, InstallKeypair, InstallFails

LEMMA IInvStep == IInv /\ [Next]_vars => IInv'
  BY TypeStep, QueueStep, LoginStep, UsingStep, PemStep DEF IInv

LEMMA IInvHolds == Spec => []IInv
  BY IInvInit, IInvStep, PTL DEF Spec

-----------------------------------------------------------------------------
(* What a reader should know of the session cache *)

\* No waiter of a session lock is lost or woken twice.
THEOREM WaitersKept == Spec => []QueuedOnce
  BY IInvHolds, PTL DEF IInv

\* First calls, and rejections, of one session key log in once.
THEOREM Coalescing == Spec => []LoginCoalesced
  BY IInvHolds, PTL DEF IInv

\* A session still accepted leaves the cache only by a replaced or deleted key,
\* or by the late rejection of an older session of its key.
THEOREM GoodKept == Spec => GoodSessionKept
<1>1. ASSUME IInv, Next, NEW k \in Keys, sessions[k] \notin ended \union {None},
             sessions'[k] # sessions[k]
      PROVE  \/ gen' # gen \/ files' # files
             \/ \E t \in Tasks : /\ pc[t] = "sending" /\ key[t] = k
                                 /\ rejected'[t] = using[t] /\ using[t] < sessions[k]
  <2> USE DEF IInv
  <2>1. ASSUME NEW t \in Tasks, LoginDone(t) PROVE FALSE
    <3>1. key[t] = k
      BY <1>1, <2>1 DEF LoginDone, TypeOK
    <3> QED BY <1>1, <2>1, <3>1 DEF LoginDone, LoginCoalesced
  <2>2. ASSUME NEW t \in Tasks, Reject(t)
        PROVE  /\ pc[t] = "sending" /\ key[t] = k
               /\ rejected'[t] = using[t] /\ using[t] < sessions[k]
    <3>1. key[t] = k
      BY <1>1, <2>2 DEF Reject, TypeOK
    <3>2. using[t] <= sessions[k] /\ using[t] # sessions[k]
      BY <1>1, <2>2, <3>1 DEF Reject, UsingNotAhead
    <3>3. using[t] \in Nat /\ sessions[k] \in Nat
      <4>1. using[t] \in 0..logins /\ sessions[k] \in 0..logins
        BY <1>1 DEF TypeOK
      <4> QED BY <4>1
    <3>4. pc[t] = "sending" /\ rejected'[t] = using[t]
      BY <1>1, <2>2 DEF Reject, TypeOK
    <3> QED BY <3>1, <3>2, <3>3, <3>4
  <2>3. ASSUME NEW s \in Systems, InstallKeypair(s) PROVE gen' # gen
    <3>1. gen[s] \in Nat /\ gen'[s] = gen[s] + 1
      BY <1>1, <2>3 DEF InstallKeypair, Installed, TypeOK
    <3> QED BY <3>1
  <2>4. ASSUME NEW s \in Systems, DeleteSystem(s) PROVE files' # files
    BY <2>4 DEF DeleteSystem, Deleted
  <2>5. ASSUME NEW t \in Tasks,
               \/ \E m \in Keys : Start(t, m)
               \/ Wake(t) \/ LoginFail(t) \/ CancelWait(t) \/ Finish(t) \/ SendFail(t)
        PROVE  FALSE
    BY <1>1, <2>5 DEF Start, Wake, LoginFail, CancelWait, Finish, SendFail
  <2>6. ASSUME NEW s \in Systems, InstallFails(s) \/ DeleteFails(s) \/ RestoreSystem(s)
        PROVE  FALSE
    BY <1>1, <2>6 DEF InstallFails, DeleteFails, RestoreSystem
  <2>7. CASE EndSession
    BY <1>1, <2>7 DEF EndSession
  <2> QED BY <1>1, <2>1, <2>2, <2>3, <2>4, <2>5, <2>6, <2>7 DEF Next, TaskStep, SystemStep
<1>2. IInv /\ [Next]_vars =>
        [\A k \in Keys :
           sessions[k] \notin ended \union {None} /\ sessions'[k] # sessions[k] =>
             \/ gen' # gen \/ files' # files
             \/ \E t \in Tasks : /\ pc[t] = "sending" /\ key[t] = k
                                 /\ rejected'[t] = using[t] /\ using[t] < sessions[k]]_vars
  BY <1>1
<1> QED BY <1>2, IInvHolds, PTL DEF Spec, GoodSessionKept

\* However many users have a session, a completed install or delete leaves none
\* of the old key: one goes stale only at the end of a login that had read its
\* key before the replacement, or when the endpoint raises after it changed the
\* disk and so never reaches its eviction.
THEOREM EvictionComplete == Spec => StaleOnlyFromRaceOrFailure
<1>1. ASSUME IInv, [Next]_vars, NEW k \in Keys, Current(k), ~Current(k)'
      PROVE  \/ \E t \in Tasks : /\ pc[t] = "login" /\ pc'[t] = "sending" /\ key[t] = k
                                 /\ SystemOf[k] \notin live \/ pem[t] < gen[SystemOf[k]]
             \/ InstallFails(SystemOf[k]) \/ DeleteFails(SystemOf[k])
  <2> USE DEF IInv
  <2>0. /\ SystemOf[k] \in Systems /\ sessions[k] \in 0..logins /\ logins \in 0..MaxSessions
        /\ sessions'[k] # None
        /\ \A i \in Sessions : madeWith[i] \in Nat
    BY <1>1 DEF TypeOK, Current
  <2>1. ASSUME UNCHANGED <<live, gen, sessions, madeWith>> PROVE FALSE
    BY <1>1, <2>1 DEF Current
  <2>2. ASSUME NEW t \in Tasks, LoginDone(t)
        PROVE  /\ pc[t] = "login" /\ pc'[t] = "sending" /\ key[t] = k
               /\ SystemOf[k] \notin live \/ pem[t] < gen[SystemOf[k]]
    <3>1. /\ UNCHANGED <<live, gen>> /\ pc[t] = "login" /\ pc'[t] = "sending"
          /\ logins' = logins + 1 /\ logins' \in Sessions
          /\ sessions' = [sessions EXCEPT ![key[t]] = logins']
          /\ madeWith' = [madeWith EXCEPT ![logins'] = pem[t]]
      <4>1. pc \in [Tasks -> {"idle", "waiting", "login", "sending"}]
        BY <1>1 DEF TypeOK
      <4>2. logins \in Nat /\ logins < MaxSessions /\ logins' = logins + 1
        BY <2>0, <2>2 DEF LoginDone
      <4>3. logins' \in Sessions
        BY <4>2 DEF Sessions
      <4> QED BY <2>2, <4>1, <4>2, <4>3 DEF LoginDone, disk
    <3>2. key[t] = k
      <4>1. SUFFICES ASSUME key[t] # k PROVE FALSE
        OBVIOUS
      <4>2. sessions'[k] = sessions[k] /\ sessions[k] # logins'
        BY <2>0, <3>1, <4>1 DEF TypeOK
      <4>3. madeWith'[sessions[k]] = madeWith[sessions[k]]
        BY <2>0, <3>1, <4>2 DEF TypeOK, Sessions, None
      <4> QED BY <1>1, <3>1, <4>2, <4>3 DEF Current
    <3>3. madeWith'[sessions'[k]] = pem[t]
      <4>1. sessions'[k] = logins'
        BY <1>1, <3>1, <3>2 DEF TypeOK
      <4>2. madeWith \in [Sessions -> 1..MaxGen]
        BY <1>1 DEF TypeOK
      <4> QED BY <3>1, <4>1, <4>2
    <3>4. SystemOf[k] \notin live \/ pem[t] # gen[SystemOf[k]]
      BY <1>1, <3>1, <3>3 DEF Current
    <3>5. pem[t] <= gen[SystemOf[k]] /\ pem[t] \in Nat /\ gen[SystemOf[k]] \in Nat
      <4>1. pem[t] \in 1..MaxGen /\ gen[SystemOf[k]] \in 1..MaxGen
        BY <1>1, <2>0 DEF TypeOK
      <4> QED BY <1>1, <3>2, <4>1 DEF PemNotAhead
    <3> QED BY <3>1, <3>2, <3>4, <3>5
  <2>3. ASSUME NEW s \in Systems, InstallKeypair(s) \/ DeleteSystem(s) PROVE FALSE
    <3>1. CASE SystemOf[k] = s
      BY <2>0, <2>3, <3>1 DEF InstallKeypair, DeleteSystem, Installed, Deleted, Evict
    <3>2. CASE SystemOf[k] # s
      <4>1. /\ sessions'[k] = sessions[k] /\ madeWith' = madeWith
            /\ gen'[SystemOf[k]] = gen[SystemOf[k]]
            /\ SystemOf[k] \in live => SystemOf[k] \in live'
        <5>1. gen \in [Systems -> 1..MaxGen]
          BY <1>1 DEF TypeOK
        <5> QED BY <2>0, <2>3, <3>2, <5>1
               DEF InstallKeypair, DeleteSystem, Installed, Deleted, Evict, server
      <4> QED BY <1>1, <4>1 DEF Current
    <3> QED BY <3>1, <3>2
  <2>4. ASSUME NEW s \in Systems, RestoreSystem(s) PROVE FALSE
    BY <1>1, <2>4 DEF RestoreSystem, Current, server
  <2>5. ASSUME NEW t \in Tasks, Reject(t) PROVE FALSE
    <3>1. sessions'[k] = sessions[k] /\ UNCHANGED <<live, gen, madeWith>>
      BY <2>0, <2>5 DEF Reject, TypeOK, disk, server
    <3> QED BY <1>1, <3>1 DEF Current
  <2>6. ASSUME NEW t \in Tasks,
               \/ \E m \in Keys : Start(t, m)
               \/ Wake(t) \/ LoginFail(t) \/ CancelWait(t) \/ Finish(t) \/ SendFail(t)
        PROVE  FALSE
    <3>1. UNCHANGED <<live, gen, sessions, madeWith>>
      BY <2>6 DEF Start, Wake, LoginFail, CancelWait, Finish, SendFail, disk, server
    <3> QED BY <2>1, <3>1
  <2>7. CASE EndSession \/ UNCHANGED vars
    BY <2>1, <2>7 DEF EndSession, vars, disk, server
  <2>8. ASSUME NEW s \in Systems, InstallFails(s) \/ DeleteFails(s)
        PROVE  InstallFails(SystemOf[k]) \/ DeleteFails(SystemOf[k])
    <3>1. CASE SystemOf[k] = s
      BY <2>8, <3>1
    <3>2. CASE SystemOf[k] # s
      <4>1. /\ sessions'[k] = sessions[k] /\ madeWith' = madeWith
            /\ gen'[SystemOf[k]] = gen[SystemOf[k]]
            /\ SystemOf[k] \in live => SystemOf[k] \in live'
        <5>1. gen \in [Systems -> 1..MaxGen]
          BY <1>1 DEF TypeOK
        <5> QED BY <2>0, <2>8, <3>2, <5>1 DEF InstallFails, DeleteFails, Installed, server
      <4> QED BY <1>1, <4>1 DEF Current
    <3> QED BY <3>1, <3>2
  <2> QED BY <1>1, <2>2, <2>3, <2>4, <2>5, <2>6, <2>7, <2>8 DEF Next, TaskStep, SystemStep
<1>2. IInv /\ [Next]_vars =>
        [\A k \in Keys : Current(k) /\ ~Current(k)' =>
           \/ \E t \in Tasks : /\ pc[t] = "login" /\ pc'[t] = "sending" /\ key[t] = k
                               /\ SystemOf[k] \notin live \/ pem[t] < gen[SystemOf[k]]
           \/ InstallFails(SystemOf[k]) \/ DeleteFails(SystemOf[k])]_vars
  BY <1>1
<1> QED BY <1>2, IInvHolds, PTL DEF Spec, StaleOnlyFromRaceOrFailure
=============================================================================
