-------------------------- MODULE TokenCacheProofs --------------------------
(***************************************************************************)
(* Proofs about TokenCache, for any sets of tasks, systems, keys and locks. *)
(* The inductive invariant says how locks, their owners and their queues    *)
(* are tied to the phases of the tasks.                                     *)
(***************************************************************************)
EXTENDS TokenCache, SequenceTheorems, TLAPS

\* The owner of a lock is the task minting under it.
OwnerMints ==
    /\ \A t \in Tasks : pc[t] = "minting" => owner[lock[t]] = t
    /\ \A l \in Locks : owner[l] # NoTask =>
          pc[owner[l]] = "minting" /\ lock[owner[l]] = l

\* A task waits for a lock exactly when it stands in that lock's queue, once.
QueueHoldsWaiters ==
    /\ \A l \in Locks : \A i \in 1..Len(queue[l]) :
          /\ pc[queue[l][i]] = "waiting" /\ lock[queue[l][i]] = l
          /\ \A j \in 1..Len(queue[l]) : queue[l][i] = queue[l][j] => i = j
    /\ \A t \in Tasks : pc[t] = "waiting" =>
          \E i \in 1..Len(queue[lock[t]]) : queue[lock[t]][i] = t

\* No request has read a keypair newer than the latest one installed.
PemNotAhead == \A t \in Tasks : pem[t] <= gen[SystemOf[key[t]]]

IInv == TypeOK /\ OneLockPerKey /\ OwnerMints /\ QueueHoldsWaiters /\ PemNotAhead

-----------------------------------------------------------------------------
LEMMA RemoveAtType ==
    ASSUME NEW S
    PROVE  \A q \in Seq(S) : \A i \in 1..Len(q) :
           /\ RemoveAt(q, i) \in Seq(S)
           /\ Len(RemoveAt(q, i)) = Len(q) - 1
           /\ \A j \in 1..(Len(q) - 1) :
                 RemoveAt(q, i)[j] = IF j < i THEN q[j] ELSE q[j + 1]
<1> TAKE q \in Seq(S)
<1> TAKE i \in 1..Len(q)
<1> DEFINE a == SubSeq(q, 1, i - 1)
           b == SubSeq(q, i + 1, Len(q))
<1>1. a \in Seq(S) /\ Len(a) = i - 1 /\ \A j \in 1..(i - 1) : a[j] = q[j]
  OBVIOUS
<1>2. b \in Seq(S) /\ Len(b) = Len(q) - i /\ \A j \in 1..(Len(q) - i) : b[j] = q[i + j]
  OBVIOUS
<1>3. RemoveAt(q, i) = a \o b
  BY DEF RemoveAt
<1> HIDE DEF a, b
<1>4. /\ a \o b \in Seq(S)
      /\ Len(a \o b) = Len(a) + Len(b)
      /\ \A j \in 1..(Len(a) + Len(b)) :
            (a \o b)[j] = IF j <= Len(a) THEN a[j] ELSE b[j - Len(a)]
  BY <1>1, <1>2, ConcatProperties
<1>5. ASSUME NEW j \in 1..(Len(q) - 1)
      PROVE  (a \o b)[j] = IF j < i THEN q[j] ELSE q[j + 1]
  <2>1. CASE j < i
    BY <1>1, <1>2, <1>4, <2>1
  <2>2. CASE ~(j < i)
    <3>1. (a \o b)[j] = b[j - (i - 1)]
      BY <1>1, <1>2, <1>4, <2>2
    <3>2. j - (i - 1) \in 1..(Len(q) - i)
      BY <2>2
    <3> QED BY <1>2, <2>2, <3>1, <3>2
  <2> QED BY <2>1, <2>2
<1> QED BY <1>1, <1>2, <1>3, <1>4, <1>5

USE SystemOfAssumption, MaxGenAssumption, NullAssumption

-----------------------------------------------------------------------------
(* Type correctness *)

LEMMA AcquireType ==
    ASSUME TypeOK, NEW t \in Tasks, NEW k \in Keys, Acquire(t, k)
    PROVE  /\ lockOf' \in [Keys -> Locks \union {NoLock}]
           /\ owner' \in [Locks -> Tasks \union {NoTask}]
           /\ queue' \in [Locks -> Seq(Tasks)]
           /\ lock' \in [Tasks -> Locks \union {NoLock}]
           /\ lock'[t] \in Locks
           /\ \A u \in Tasks \ {t} : lock'[u] = lock[u]
           /\ pc' \in [Tasks -> {"idle", "waiting", "minting", "sending"}]
           /\ \A u \in Tasks : lock'[u] # NoLock <=> pc'[u] \in {"waiting", "minting"}
<1>1. LockFor(k) \subseteq Locks
  BY DEF LockFor, TypeOK
<1>2. PICK l \in Locks : Acquire(t, k)!(l)
  BY <1>1 DEF Acquire
<1>3. Append(queue[l], t) \in Seq(Tasks)
  BY DEF TypeOK
<1>4. lock' = [lock EXCEPT ![t] = l]
  BY <1>2
<1>5. \/ pc' = [pc EXCEPT ![t] = "minting"]
      \/ pc' = [pc EXCEPT ![t] = "waiting"]
  BY <1>2
<1>6. /\ pc' \in [Tasks -> {"idle", "waiting", "minting", "sending"}]
      /\ \A u \in Tasks : lock'[u] # NoLock <=> pc'[u] \in {"waiting", "minting"}
  BY <1>4, <1>5 DEF TypeOK
<1>7. owner' = [owner EXCEPT ![l] = t] \/ owner' = owner
  BY <1>2
<1>8. queue' = [queue EXCEPT ![l] = Append(queue[l], t)] \/ queue' = queue
  BY <1>2
<1>9. owner' \in [Locks -> Tasks \union {NoTask}]
  BY <1>7 DEF TypeOK
<1>10. queue' \in [Locks -> Seq(Tasks)]
  BY <1>3, <1>8 DEF TypeOK
<1> QED BY <1>2, <1>4, <1>6, <1>9, <1>10 DEF TypeOK

LEMMA ForgetType ==
    ASSUME TypeOK, NEW t \in Tasks, Forget(t)
    PROVE  /\ lockOf' \in [Keys -> Locks \union {NoLock}]
           /\ lock' \in [Tasks -> Locks \union {NoLock}]
           /\ lock'[t] = NoLock
           /\ \A u \in Tasks \ {t} : lock'[u] = lock[u]
  BY DEF Forget, TypeOK

LEMMA TypeInit == Init => TypeOK
  BY DEF Init, TypeOK, Gens, Tokens

LEMMA TypeStep == TypeOK /\ [Next]_vars => TypeOK'
<1> SUFFICES ASSUME TypeOK, [Next]_vars PROVE TypeOK'
  OBVIOUS
<1>1. ASSUME NEW t \in Tasks, NEW k \in Keys, Start(t, k) PROVE TypeOK'
  <2>1. CASE Usable(k)
    BY <1>1, <2>1 DEF Start, TypeOK, disk, Gens, Acquire
  <2>2. CASE ~Usable(k)
    <3>1. Acquire(t, k)
      BY <1>1, <2>2 DEF Start
    <3> QED BY <1>1, <3>1, AcquireType DEF Start, TypeOK, disk, Gens
  <2> QED BY <2>1, <2>2
<1>2. ASSUME NEW t \in Tasks, Wake(t) PROVE TypeOK'
  <2>1. lock[t] \in Locks
    BY <1>2 DEF Wake, TypeOK
  <2>2. queue' \in [Locks -> Seq(Tasks)]
    BY <1>2, <2>1 DEF Wake, TypeOK
  <2>3. CASE pc' = [pc EXCEPT ![t] = "sending"] /\ Forget(t) /\ UNCHANGED owner
    BY <1>2, <2>2, <2>3, ForgetType DEF Wake, TypeOK, disk
  <2>4. CASE /\ pc' = [pc EXCEPT ![t] = "minting"]
             /\ owner' = [owner EXCEPT ![lock[t]] = t]
             /\ UNCHANGED <<lock, lockOf>>
    <3>1. owner' \in [Locks -> Tasks \union {NoTask}]
      BY <2>4 DEF TypeOK
    <3>2. /\ pc' \in [Tasks -> {"idle", "waiting", "minting", "sending"}]
          /\ \A u \in Tasks : lock'[u] # NoLock <=> pc'[u] \in {"waiting", "minting"}
      BY <1>2, <2>4 DEF Wake, TypeOK
    <3> QED BY <1>2, <2>2, <2>4, <3>1, <3>2 DEF Wake, TypeOK, disk
  <2> QED BY <1>2, <2>3, <2>4 DEF Wake
<1>3. ASSUME NEW t \in Tasks, MintDone(t) PROVE TypeOK'
  <2>1. cache' \in [Keys -> Tokens \union {NoToken}]
    BY <1>3 DEF MintDone, TypeOK, Tokens
  <2> QED BY <1>3, <2>1, ForgetType DEF MintDone, Release, TypeOK, disk
<1>4. ASSUME NEW t \in Tasks, MintFail(t) PROVE TypeOK'
  BY <1>4, ForgetType DEF MintFail, Release, TypeOK, disk
<1>5. ASSUME NEW t \in Tasks, CancelWait(t) PROVE TypeOK'
  <2>1. lock[t] \in Locks
    BY <1>5 DEF CancelWait, TypeOK
  <2>2. PICK i \in DOMAIN queue[lock[t]] :
           queue' = [queue EXCEPT ![lock[t]] = RemoveAt(queue[lock[t]], i)]
    BY <1>5 DEF CancelWait
  <2>3. queue' \in [Locks -> Seq(Tasks)]
    BY <2>1, <2>2, RemoveAtType DEF TypeOK
  <2> QED BY <1>5, <2>3, ForgetType DEF CancelWait, TypeOK, disk
<1>6. ASSUME NEW t \in Tasks, Answer401(t) PROVE TypeOK'
  <2>1. key[t] \in Keys
    BY DEF TypeOK
  <2> QED BY <1>6, <2>1, AcquireType DEF Answer401, TypeOK, disk
<1>7. ASSUME NEW t \in Tasks, Finish(t) PROVE TypeOK'
  BY <1>7 DEF Finish, TypeOK, disk
<1>8. ASSUME NEW s \in Systems, InstallKeypair(s) \/ InstallFails(s) PROVE TypeOK'
  <2>0. Installed(s)
    BY <1>8 DEF InstallKeypair, InstallFails
  <2>1. gen' \in [Systems -> Gens]
    BY <2>0 DEF Installed, TypeOK, Gens
  <2>2. cache' \in [Keys -> Tokens \union {NoToken}]
    BY <1>8 DEF InstallKeypair, InstallFails, Evict, TypeOK
  <2> QED BY <2>0, <2>1, <2>2 DEF Installed, TypeOK
<1>9. ASSUME NEW s \in Systems, DeleteSystem(s) \/ DeleteFails(s) PROVE TypeOK'
  BY <1>9 DEF DeleteSystem, DeleteFails, Deleted, Evict, TypeOK
<1>10. ASSUME NEW s \in Systems, RestoreSystem(s) PROVE TypeOK'
  BY <1>10 DEF RestoreSystem, TypeOK
<1>11. ASSUME NEW k \in Keys, Expire(k) PROVE TypeOK'
  <2>1. cache[k] \in Tokens
    BY <1>11 DEF Expire, Usable, TypeOK
  <2>2. cache' \in [Keys -> Tokens \union {NoToken}]
    BY <1>11, <2>1 DEF Expire, TypeOK, Tokens
  <2> QED BY <1>11, <2>2 DEF Expire, TypeOK, disk
<1>12. CASE UNCHANGED vars
  BY <1>12 DEF vars, TypeOK
<1> QED BY <1>1, <1>2, <1>3, <1>4, <1>5, <1>6, <1>7, <1>8, <1>9, <1>10, <1>11,
           <1>12 DEF Next, TaskStep, SystemStep

\* State and phases have their types; a request refers to a lock exactly while
\* it awaits or holds it (the frame of _get_token).
THEOREM TypeCorrect == Spec => []TypeOK
  BY TypeInit, TypeStep, PTL DEF Spec

-----------------------------------------------------------------------------
(* What taking and dropping a lock reference do to the lock invariants *)

LEMMA AcquireLock ==
    ASSUME TypeOK, NEW t \in Tasks, NEW k \in Keys, Acquire(t, k)
    PROVE  \E l \in Locks :
              /\ l = lockOf[k] \/ (lockOf[k] = NoLock /\ \A u \in Tasks : lock[u] # l)
              /\ lockOf' = [lockOf EXCEPT ![k] = l]
              /\ lock' = [lock EXCEPT ![t] = l]
              /\ \/ /\ owner[l] = NoTask /\ queue[l] = <<>>
                    /\ owner' = [owner EXCEPT ![l] = t]
                    /\ pc' = [pc EXCEPT ![t] = "minting"]
                    /\ queue' = queue
                 \/ /\ queue' = [queue EXCEPT ![l] = Append(queue[l], t)]
                    /\ pc' = [pc EXCEPT ![t] = "waiting"]
                    /\ owner' = owner
<1>1. \A l \in LockFor(k) :
         /\ l \in Locks
         /\ l = lockOf[k] \/ (lockOf[k] = NoLock /\ \A u \in Tasks : lock[u] # l)
  BY DEF LockFor, TypeOK
<1> QED BY <1>1 DEF Acquire

LEMMA AcquireOneLock ==
    ASSUME TypeOK, OneLockPerKey, NEW t \in Tasks, NEW k \in Keys,
           Acquire(t, k), lock[t] = NoLock, key' = [key EXCEPT ![t] = k]
    PROVE  OneLockPerKey'
<1>1. PICK l \in Locks :
         /\ l = lockOf[k] \/ (lockOf[k] = NoLock /\ \A u \in Tasks : lock[u] # l)
         /\ lockOf' = [lockOf EXCEPT ![k] = l]
         /\ lock' = [lock EXCEPT ![t] = l]
  BY AcquireLock
<1>2. \A u \in Tasks \ {t} : lock'[u] = lock[u] /\ key'[u] = key[u]
  BY <1>1 DEF TypeOK
<1>3. lock'[t] = l /\ key'[t] = k /\ lockOf'[k] = l
  BY <1>1 DEF TypeOK
<1>4. \A u \in Tasks : lock[u] = l => key[u] = k
  BY <1>1 DEF OneLockPerKey, TypeOK
<1>5. \A m \in Keys \ {k} : lockOf'[m] = lockOf[m]
  BY <1>1 DEF TypeOK
<1>6. \A u \in Tasks : lock'[u] # NoLock => lockOf'[key'[u]] = lock'[u]
  <2> SUFFICES ASSUME NEW u \in Tasks \ {t}, lock[u] # NoLock
               PROVE  lockOf'[key[u]] = lock[u]
    BY <1>2, <1>3
  <2>1. lockOf[key[u]] = lock[u] /\ key[u] \in Keys
    BY DEF OneLockPerKey, TypeOK
  <2> QED BY <1>1, <1>3, <1>5, <2>1
<1>7. \A u, v \in Tasks : lock'[u] # NoLock /\ lock'[u] = lock'[v] => key'[u] = key'[v]
  <2> TAKE u, v \in Tasks
  <2>1. CASE u # t /\ v # t
    BY <1>2, <2>1 DEF OneLockPerKey
  <2>2. CASE u = t \/ v = t
    BY <1>2, <1>3, <1>4, <2>2
  <2> QED BY <2>1, <2>2
<1>8. \A m \in Keys : lockOf'[m] # NoLock =>
         \E u \in Tasks : lock'[u] = lockOf'[m] /\ key'[u] = m
  <2> SUFFICES ASSUME NEW m \in Keys \ {k}, lockOf'[m] # NoLock
               PROVE  \E u \in Tasks : lock'[u] = lockOf'[m] /\ key'[u] = m
    BY <1>3
  <2>1. PICK u \in Tasks : lock[u] = lockOf[m] /\ key[u] = m
    BY <1>5 DEF OneLockPerKey
  <2>2. u # t
    BY <1>5, <2>1
  <2> QED BY <1>2, <1>5, <2>1, <2>2
<1> QED BY <1>6, <1>7, <1>8 DEF OneLockPerKey

LEMMA ForgetOneLock ==
    ASSUME TypeOK, OneLockPerKey, NEW t \in Tasks, Forget(t), key' = key
    PROVE  OneLockPerKey'
<1>1. /\ lock'[t] = NoLock
      /\ \A u \in Tasks \ {t} : lock'[u] = lock[u]
  BY DEF Forget, TypeOK
<1>2. \A u \in Tasks \ {t} : lock[u] # NoLock => lockOf'[key[u]] = lock[u]
  BY DEF Forget, OneLockPerKey, TypeOK
<1>3. ASSUME NEW k \in Keys, lockOf'[k] # NoLock
      PROVE  \E u \in Tasks : lock'[u] = lockOf'[k] /\ key[u] = k
  <2>1. PICK u \in Tasks \ {t} : lock[u] = lockOf[k] /\ lockOf'[k] = lockOf[k]
    BY <1>3 DEF Forget
  <2>2. key[u] = k
    BY <1>3, <2>1 DEF OneLockPerKey
  <2> QED BY <1>1, <2>1, <2>2
<1>4. \A u, v \in Tasks : lock'[u] # NoLock /\ lock'[u] = lock'[v] => key[u] = key[v]
  BY <1>1 DEF OneLockPerKey
<1>5. \A u \in Tasks : lock'[u] # NoLock => lockOf'[key[u]] = lock'[u]
  BY <1>1, <1>2
<1> QED BY <1>3, <1>4, <1>5 DEF OneLockPerKey

LEMMA AcquireOwner ==
    ASSUME TypeOK, OwnerMints, NEW t \in Tasks, NEW k \in Keys,
           Acquire(t, k), lock[t] = NoLock
    PROVE  OwnerMints'
<1>1. PICK l \in Locks :
         /\ lock' = [lock EXCEPT ![t] = l]
         /\ \/ /\ owner[l] = NoTask
               /\ owner' = [owner EXCEPT ![l] = t]
               /\ pc' = [pc EXCEPT ![t] = "minting"]
            \/ /\ pc' = [pc EXCEPT ![t] = "waiting"]
               /\ owner' = owner
  BY AcquireLock
<1>2. pc[t] # "minting"
  BY DEF TypeOK
<1>3. \A u \in Tasks : pc'[u] = "minting" => owner'[lock'[u]] = u
  BY <1>1, <1>2 DEF OwnerMints, TypeOK
<1>4. \A m \in Locks : owner'[m] # NoTask =>
         pc'[owner'[m]] = "minting" /\ lock'[owner'[m]] = m
  BY <1>1, <1>2 DEF OwnerMints, TypeOK
<1> QED BY <1>3, <1>4 DEF OwnerMints

LEMMA AcquireQueue ==
    ASSUME TypeOK, QueueHoldsWaiters, NEW t \in Tasks, NEW k \in Keys,
           Acquire(t, k), lock[t] = NoLock
    PROVE  QueueHoldsWaiters'
<1>1. PICK l \in Locks :
         /\ lock' = [lock EXCEPT ![t] = l]
         /\ \/ /\ pc' = [pc EXCEPT ![t] = "minting"]
               /\ queue' = queue
            \/ /\ queue' = [queue EXCEPT ![l] = Append(queue[l], t)]
               /\ pc' = [pc EXCEPT ![t] = "waiting"]
  BY AcquireLock
<1>2. pc[t] # "waiting"
  BY DEF TypeOK
<1>3. /\ \A m \in Locks : queue[m] \in Seq(Tasks)
      /\ \A m \in Locks : \A i \in 1..Len(queue[m]) : queue[m][i] \in Tasks \ {t}
  BY <1>2 DEF TypeOK, QueueHoldsWaiters
<1>4. CASE pc' = [pc EXCEPT ![t] = "minting"] /\ queue' = queue
  BY <1>1, <1>2, <1>3, <1>4 DEF QueueHoldsWaiters, TypeOK
<1>5. CASE /\ queue' = [queue EXCEPT ![l] = Append(queue[l], t)]
           /\ pc' = [pc EXCEPT ![t] = "waiting"]
  <2>1. /\ queue'[l] = Append(queue[l], t)
        /\ Len(queue'[l]) = Len(queue[l]) + 1
        /\ queue'[l][Len(queue[l]) + 1] = t
        /\ \A i \in 1..Len(queue[l]) : queue'[l][i] = queue[l][i]
    BY <1>3, <1>5 DEF TypeOK
  <2>2. \A m \in Locks \ {l} : queue'[m] = queue[m]
    BY <1>5 DEF TypeOK
  <2>3. /\ pc'[t] = "waiting" /\ lock'[t] = l
        /\ \A u \in Tasks \ {t} : pc'[u] = pc[u] /\ lock'[u] = lock[u]
    BY <1>1, <1>5 DEF TypeOK
  <2>4. Len(queue[l]) \in Nat
    BY <1>3
  <2>5. ASSUME NEW m \in Locks, NEW i \in 1..Len(queue'[m])
        PROVE  /\ pc'[queue'[m][i]] = "waiting" /\ lock'[queue'[m][i]] = m
               /\ \A j \in 1..Len(queue'[m]) : queue'[m][i] = queue'[m][j] => i = j
    <3>1. CASE m # l
      BY <1>3, <2>2, <2>3, <2>5, <3>1 DEF QueueHoldsWaiters
    <3>2. CASE m = l
      <4>1. \A j \in 1..Len(queue'[l]) : j \in 1..Len(queue[l]) \/ j = Len(queue[l]) + 1
        BY <2>1, <2>4
      <4>2. \A j \in 1..Len(queue[l]) :
               /\ pc[queue[l][j]] = "waiting" /\ lock[queue[l][j]] = l
               /\ \A h \in 1..Len(queue[l]) : queue[l][j] = queue[l][h] => j = h
        BY DEF QueueHoldsWaiters
      <4>3. i \in 1..Len(queue'[l])
        BY <2>5, <3>2
      <4>4. pc'[queue'[l][i]] = "waiting" /\ lock'[queue'[l][i]] = l
        BY <1>3, <2>1, <2>3, <4>1, <4>2, <4>3
      <4>5. \A j \in 1..Len(queue'[l]) : queue'[l][i] = queue'[l][j] => i = j
        BY <1>3, <2>1, <4>1, <4>2, <4>3
      <4> QED BY <3>2, <4>4, <4>5
    <3> QED BY <3>1, <3>2
  <2>6. ASSUME NEW u \in Tasks, pc'[u] = "waiting"
        PROVE  \E i \in 1..Len(queue'[lock'[u]]) : queue'[lock'[u]][i] = u
    <3>1. CASE u = t
      <4>1. Len(queue[l]) + 1 \in 1..Len(queue'[l])
        BY <2>1, <2>4
      <4> QED BY <2>1, <2>3, <3>1, <4>1
    <3>2. CASE u # t
      <4>1. pc[u] = "waiting" /\ lock[u] \in Locks
        BY <2>3, <2>6, <3>2 DEF TypeOK
      <4>2. PICK i \in 1..Len(queue[lock[u]]) : queue[lock[u]][i] = u
        BY <4>1 DEF QueueHoldsWaiters
      <4>3. i \in 1..Len(queue'[lock[u]]) /\ queue'[lock[u]][i] = u
        <5>1. CASE lock[u] = l
          <6>1. i \in 1..Len(queue[l]) /\ queue[l][i] = u
            BY <4>2, <5>1
          <6>2. i \in 1..Len(queue'[l])
            BY <2>1, <2>4, <6>1
          <6>3. queue'[l][i] = u
            BY <2>1, <6>1
          <6> QED BY <5>1, <6>2, <6>3
        <5>2. CASE lock[u] # l
          <6>1. queue'[lock[u]] = queue[lock[u]]
            BY <2>2, <4>1, <5>2
          <6> QED BY <4>2, <6>1
        <5> QED BY <5>1, <5>2
      <4>4. lock'[u] = lock[u]
        BY <2>3, <3>2 DEF TypeOK
      <4>5. i \in 1..Len(queue'[lock'[u]]) /\ queue'[lock'[u]][i] = u
        BY <4>3, <4>4, Zenon
      <4> QED BY <4>5, Zenon
    <3> QED BY <3>1, <3>2
  <2> QED BY <2>5, <2>6 DEF QueueHoldsWaiters
<1> QED BY <1>1, <1>4, <1>5

LEMMA RemoveAtQueue ==
    ASSUME NEW l \in Locks, queue[l] \in Seq(Tasks), NEW i \in 1..Len(queue[l])
    PROVE  /\ Len(RemoveAt(queue[l], i)) = Len(queue[l]) - 1
           /\ \A j \in 1..(Len(queue[l]) - 1) :
                 RemoveAt(queue[l], i)[j] = IF j < i THEN queue[l][j] ELSE queue[l][j + 1]
  BY RemoveAtType

LEMMA RemoveQueue ==
    ASSUME TypeOK, QueueHoldsWaiters, NEW t \in Tasks, NEW l \in Locks,
           pc[t] = "waiting", lock[t] = l,
           \E i \in 1..Len(queue[l]) :
              queue[l][i] = t /\ queue' = [queue EXCEPT ![l] = RemoveAt(queue[l], i)],
           pc'[t] # "waiting", \A u \in Tasks \ {t} : pc'[u] = pc[u] /\ lock'[u] = lock[u]
    PROVE  QueueHoldsWaiters'
<1>0. PICK i \in 1..Len(queue[l]) :
         queue[l][i] = t /\ queue' = [queue EXCEPT ![l] = RemoveAt(queue[l], i)]
  OBVIOUS
<1> DEFINE n == Len(queue[l])
<1>1. queue[l] \in Seq(Tasks) /\ n \in Nat
  BY DEF TypeOK
<1>2. /\ queue'[l] = RemoveAt(queue[l], i)
      /\ \A m \in Locks \ {l} : queue'[m] = queue[m]
  BY <1>0 DEF TypeOK
<1>3. /\ Len(queue'[l]) = n - 1
      /\ \A j \in 1..(n - 1) : queue'[l][j] = IF j < i THEN queue[l][j] ELSE queue[l][j + 1]
  BY <1>1, <1>2, RemoveAtQueue
<1>4. \A j \in 1..n :
         /\ queue[l][j] \in Tasks
         /\ pc[queue[l][j]] = "waiting" /\ lock[queue[l][j]] = l
         /\ \A h \in 1..n : queue[l][j] = queue[l][h] => j = h
  BY <1>1 DEF QueueHoldsWaiters
<1> DEFINE src(j) == IF j < i THEN j ELSE j + 1
<1>5. \A j \in 1..(n - 1) : src(j) \in 1..n /\ src(j) # i /\ queue'[l][j] = queue[l][src(j)]
  BY <1>1, <1>3
<1>6. \A j, h \in 1..(n - 1) : src(j) = src(h) => j = h
  BY <1>1
<1> HIDE DEF src, n
<1>7. ASSUME NEW m \in Locks, NEW j \in 1..Len(queue'[m])
      PROVE  /\ pc'[queue'[m][j]] = "waiting" /\ lock'[queue'[m][j]] = m
             /\ \A h \in 1..Len(queue'[m]) : queue'[m][j] = queue'[m][h] => j = h
  <2>1. CASE m # l
    <3>1. queue'[m] = queue[m] /\ queue[m][j] \in Tasks
      BY <1>2, <1>7, <2>1 DEF TypeOK
    <3>2. lock[queue[m][j]] = m /\ pc[queue[m][j]] = "waiting"
      BY <1>7, <3>1 DEF QueueHoldsWaiters
    <3>3. queue[m][j] # t
      BY <2>1, <3>2
    <3>4. \A h \in 1..Len(queue[m]) : queue[m][j] = queue[m][h] => j = h
      BY <1>7, <3>1 DEF QueueHoldsWaiters
    <3> QED BY <3>1, <3>2, <3>3, <3>4
  <2>2. CASE m = l
    <3>1. j \in 1..(n - 1)
      BY <1>3, <1>7, <2>2
    <3>2. queue[l][src(j)] # t
      BY <1>0, <1>4, <1>5, <3>1 DEF n
    <3>3. pc'[queue'[l][j]] = "waiting" /\ lock'[queue'[l][j]] = l
      BY <1>4, <1>5, <3>1, <3>2
    <3>4. \A h \in 1..(n - 1) : queue'[l][j] = queue'[l][h] => j = h
      BY <1>4, <1>5, <1>6, <3>1
    <3> QED BY <1>3, <2>2, <3>3, <3>4
  <2> QED BY <2>1, <2>2
<1>8. ASSUME NEW u \in Tasks, pc'[u] = "waiting"
      PROVE  \E j \in 1..Len(queue'[lock'[u]]) : queue'[lock'[u]][j] = u
  <2>1. u # t /\ pc[u] = "waiting" /\ lock'[u] = lock[u] /\ lock[u] \in Locks
    BY <1>8 DEF TypeOK
  <2>2. PICK j \in 1..Len(queue[lock[u]]) : queue[lock[u]][j] = u
    BY <2>1 DEF QueueHoldsWaiters
  <2>3. CASE lock[u] # l
    BY <1>2, <2>1, <2>2, <2>3
  <2>4. CASE lock[u] = l
    <3>1. j \in 1..n /\ j # i
      BY <1>0, <2>1, <2>2, <2>4 DEF n
    <3>2. PICK h \in 1..(n - 1) : src(h) = j
      <4>1. CASE j < i
        BY <1>1, <3>1, <4>1 DEF src, n
      <4>2. CASE j > i
        <5>1. j - 1 \in 1..(n - 1) /\ src(j - 1) = j
          BY <1>1, <3>1, <4>2 DEF src, n
        <5> QED BY <5>1
      <4> QED BY <3>1, <4>1, <4>2 DEF n
    <3> QED BY <1>3, <1>5, <2>1, <2>2, <2>4, <3>2
  <2> QED BY <2>3, <2>4
<1> QED BY <1>7, <1>8 DEF QueueHoldsWaiters

LEMMA TailRemovesHead ==
    ASSUME NEW q \in Seq(Tasks), q # <<>>
    PROVE  Tail(q) = RemoveAt(q, 1) /\ 1 \in 1..Len(q) /\ q[1] = Head(q)
<1>1. Tail(q) = SubSeq(q, 2, Len(q))
  BY TailIsSubSeq
<1>2. SubSeq(q, 1, 0) = <<>>
  BY SubSeqEmpty
<1>3. SubSeq(q, 2, Len(q)) \in Seq(Tasks)
  OBVIOUS
<1>4. <<>> \o SubSeq(q, 2, Len(q)) = SubSeq(q, 2, Len(q))
  BY <1>3, ConcatEmptySeq
<1> QED BY <1>1, <1>2, <1>4 DEF RemoveAt

-----------------------------------------------------------------------------
(* The inductive invariant *)

LEMMA IInvInit == Init => IInv
<1> SUFFICES ASSUME Init PROVE IInv
  OBVIOUS
<1>1. TypeOK
  BY TypeInit
<1>2. OneLockPerKey /\ OwnerMints /\ QueueHoldsWaiters
  BY DEF Init, OneLockPerKey, OwnerMints, QueueHoldsWaiters
<1>3. PemNotAhead
  BY DEF Init, PemNotAhead
<1> QED BY <1>1, <1>2, <1>3 DEF IInv

LEMMA OneLockStep == IInv /\ [Next]_vars => OneLockPerKey'
<1> SUFFICES ASSUME IInv, [Next]_vars PROVE OneLockPerKey'
  OBVIOUS
<1> USE DEF IInv
<1>1. ASSUME NEW t \in Tasks, NEW k \in Keys, Start(t, k) PROVE OneLockPerKey'
  <2>1. lock[t] = NoLock
    BY <1>1 DEF Start, TypeOK
  <2>2. CASE Acquire(t, k)
    BY <1>1, <2>1, <2>2, AcquireOneLock DEF Start
  <2>3. CASE UNCHANGED <<lockOf, lock>>
    BY <1>1, <2>1, <2>3 DEF Start, OneLockPerKey, TypeOK
  <2> QED BY <1>1, <2>2, <2>3 DEF Start
<1>2. ASSUME NEW t \in Tasks, Wake(t) PROVE OneLockPerKey'
  <2>1. CASE Forget(t)
    BY <1>2, <2>1, ForgetOneLock DEF Wake
  <2>2. CASE UNCHANGED <<lock, lockOf>>
    BY <1>2, <2>2 DEF Wake, OneLockPerKey
  <2> QED BY <1>2, <2>1, <2>2 DEF Wake
<1>3. ASSUME NEW t \in Tasks, MintDone(t) \/ MintFail(t) \/ CancelWait(t)
      PROVE  OneLockPerKey'
  BY <1>3, ForgetOneLock DEF MintDone, MintFail, CancelWait
<1>4. ASSUME NEW t \in Tasks, Answer401(t) PROVE OneLockPerKey'
  <2>1. lock[t] = NoLock /\ key[t] \in Keys /\ key' = [key EXCEPT ![t] = key[t]]
    BY <1>4 DEF Answer401, TypeOK
  <2> QED BY <1>4, <2>1, AcquireOneLock DEF Answer401
<1>5. ASSUME UNCHANGED <<lockOf, key, lock>> PROVE OneLockPerKey'
  BY <1>5 DEF OneLockPerKey
<1>6. ASSUME NEW t \in Tasks, Finish(t) PROVE OneLockPerKey'
  BY <1>5, <1>6 DEF Finish
<1>7. ASSUME NEW s \in Systems, SystemStep(s)
      PROVE  OneLockPerKey'
  BY <1>5, <1>7 DEF SystemStep, InstallKeypair, InstallFails, DeleteSystem, DeleteFails,
                   RestoreSystem, Installed, Deleted
<1>8. ASSUME NEW k \in Keys, Expire(k) PROVE OneLockPerKey'
  BY <1>5, <1>8 DEF Expire
<1>9. CASE UNCHANGED vars
  BY <1>5, <1>9 DEF vars
<1> QED BY <1>1, <1>2, <1>3, <1>4, <1>6, <1>7, <1>8, <1>9 DEF Next, TaskStep, SystemStep

LEMMA OwnerStep == IInv /\ [Next]_vars => OwnerMints'
<1> SUFFICES ASSUME IInv, [Next]_vars PROVE OwnerMints'
  OBVIOUS
<1> USE DEF IInv
<1>0. ASSUME UNCHANGED <<owner, pc, lock>> PROVE OwnerMints'
  BY <1>0 DEF OwnerMints
<1>1. ASSUME NEW t \in Tasks, NEW k \in Keys, Start(t, k) PROVE OwnerMints'
  <2>1. lock[t] = NoLock
    BY <1>1 DEF Start, TypeOK
  <2>2. CASE Acquire(t, k)
    BY <1>1, <2>1, <2>2, AcquireOwner DEF Start
  <2>3. CASE pc' = [pc EXCEPT ![t] = "sending"] /\ UNCHANGED <<lock, owner>>
    BY <1>1, <2>3 DEF Start, OwnerMints, TypeOK
  <2> QED BY <1>1, <2>2, <2>3 DEF Start
<1>2. ASSUME NEW t \in Tasks, Wake(t) PROVE OwnerMints'
  <2>1. pc[t] = "waiting" /\ owner[lock[t]] = NoTask /\ lock[t] \in Locks
    BY <1>2 DEF Wake, TypeOK
  <2>2. CASE pc' = [pc EXCEPT ![t] = "sending"] /\ Forget(t) /\ UNCHANGED owner
    BY <2>1, <2>2 DEF Forget, OwnerMints, TypeOK
  <2>3. CASE /\ pc' = [pc EXCEPT ![t] = "minting"]
             /\ owner' = [owner EXCEPT ![lock[t]] = t]
             /\ UNCHANGED <<lock, lockOf>>
    BY <2>1, <2>3 DEF OwnerMints, TypeOK
  <2> QED BY <1>2, <2>2, <2>3 DEF Wake
<1>3. ASSUME NEW t \in Tasks, MintDone(t) \/ MintFail(t) PROVE OwnerMints'
  <2>1. /\ pc[t] = "minting" /\ lock[t] \in Locks /\ owner[lock[t]] = t
        /\ pc' \in {[pc EXCEPT ![t] = "sending"], [pc EXCEPT ![t] = "idle"]}
        /\ lock' = [lock EXCEPT ![t] = NoLock]
        /\ owner' = [owner EXCEPT ![lock[t]] = NoTask]
    BY <1>3 DEF MintDone, MintFail, Release, Forget, OwnerMints, TypeOK
  <2>2. ASSUME NEW u \in Tasks, pc'[u] = "minting" PROVE owner'[lock'[u]] = u
    BY <2>1, <2>2 DEF OwnerMints, TypeOK
  <2>3. ASSUME NEW l \in Locks, owner'[l] # NoTask
        PROVE  pc'[owner'[l]] = "minting" /\ lock'[owner'[l]] = l
    BY <2>1, <2>3 DEF OwnerMints, TypeOK
  <2> QED BY <2>2, <2>3 DEF OwnerMints
<1>4. ASSUME NEW t \in Tasks, CancelWait(t) PROVE OwnerMints'
  BY <1>4 DEF CancelWait, Forget, OwnerMints, TypeOK
<1>5. ASSUME NEW t \in Tasks, Answer401(t) PROVE OwnerMints'
  <2>1. lock[t] = NoLock /\ key[t] \in Keys
    BY <1>5 DEF Answer401, TypeOK
  <2> QED BY <1>5, <2>1, AcquireOwner DEF Answer401
<1>6. ASSUME NEW t \in Tasks, Finish(t) PROVE OwnerMints'
  BY <1>6 DEF Finish, OwnerMints, TypeOK
<1>7. ASSUME NEW s \in Systems, SystemStep(s)
      PROVE  OwnerMints'
  BY <1>0, <1>7 DEF SystemStep, InstallKeypair, InstallFails, DeleteSystem, DeleteFails,
                   RestoreSystem, Installed, Deleted
<1>8. ASSUME NEW k \in Keys, Expire(k) PROVE OwnerMints'
  BY <1>0, <1>8 DEF Expire
<1>9. CASE UNCHANGED vars
  BY <1>0, <1>9 DEF vars
<1> QED BY <1>1, <1>2, <1>3, <1>4, <1>5, <1>6, <1>7, <1>8, <1>9 DEF Next, TaskStep, SystemStep

LEMMA QueueStep == IInv /\ [Next]_vars => QueueHoldsWaiters'
<1> SUFFICES ASSUME IInv, [Next]_vars PROVE QueueHoldsWaiters'
  OBVIOUS
<1> USE DEF IInv
<1>0. ASSUME UNCHANGED <<queue, pc, lock>> PROVE QueueHoldsWaiters'
  BY <1>0 DEF QueueHoldsWaiters
<1>1. ASSUME NEW t \in Tasks, pc[t] # "waiting", pc'[t] # "waiting", UNCHANGED queue,
             \A u \in Tasks \ {t} : pc'[u] = pc[u] /\ lock'[u] = lock[u]
      PROVE  QueueHoldsWaiters'
  <2>1. \A l \in Locks : \A i \in 1..Len(queue[l]) : queue[l][i] \in Tasks
    BY DEF TypeOK
  <2>2. ASSUME NEW l \in Locks, NEW i \in 1..Len(queue'[l])
        PROVE  /\ pc'[queue'[l][i]] = "waiting" /\ lock'[queue'[l][i]] = l
               /\ \A j \in 1..Len(queue'[l]) : queue'[l][i] = queue'[l][j] => i = j
    <3>1. /\ queue[l][i] \in Tasks
          /\ pc[queue[l][i]] = "waiting" /\ lock[queue[l][i]] = l
          /\ \A j \in 1..Len(queue[l]) : queue[l][i] = queue[l][j] => i = j
      BY <1>1, <2>1, <2>2 DEF QueueHoldsWaiters
    <3> QED BY <1>1, <3>1
  <2>3. ASSUME NEW u \in Tasks, pc'[u] = "waiting"
        PROVE  \E i \in 1..Len(queue'[lock'[u]]) : queue'[lock'[u]][i] = u
    BY <1>1, <2>3 DEF QueueHoldsWaiters
  <2> QED BY <2>2, <2>3 DEF QueueHoldsWaiters
<1>2. ASSUME NEW t \in Tasks, NEW k \in Keys, Start(t, k) PROVE QueueHoldsWaiters'
  <2>1. lock[t] = NoLock /\ pc[t] = "idle"
    BY <1>2 DEF Start, TypeOK
  <2>2. CASE Acquire(t, k)
    BY <2>1, <2>2, AcquireQueue
  <2>3. CASE pc' = [pc EXCEPT ![t] = "sending"] /\ UNCHANGED <<lock, queue>>
    BY <1>1, <2>1, <2>3 DEF TypeOK
  <2> QED BY <1>2, <2>2, <2>3 DEF Start
<1>3. ASSUME NEW t \in Tasks, Wake(t) PROVE QueueHoldsWaiters'
  <2>1. /\ pc[t] = "waiting" /\ lock[t] \in Locks
        /\ queue[lock[t]] \in Seq(Tasks) /\ queue[lock[t]] # <<>>
        /\ Head(queue[lock[t]]) = t
        /\ queue' = [queue EXCEPT ![lock[t]] = Tail(queue[lock[t]])]
    BY <1>3 DEF Wake, TypeOK
  <2>2. /\ queue' = [queue EXCEPT ![lock[t]] = RemoveAt(queue[lock[t]], 1)]
        /\ 1 \in 1..Len(queue[lock[t]]) /\ queue[lock[t]][1] = t
    BY <2>1, TailRemovesHead
  <2>4. \E i \in 1..Len(queue[lock[t]]) :
           /\ queue[lock[t]][i] = t
           /\ queue' = [queue EXCEPT ![lock[t]] = RemoveAt(queue[lock[t]], i)]
    BY <2>2
  <2>3. /\ pc'[t] # "waiting"
        /\ \A u \in Tasks \ {t} : pc'[u] = pc[u] /\ lock'[u] = lock[u]
    BY <1>3 DEF Wake, Forget, TypeOK
  <2> QED BY <2>1, <2>3, <2>4, RemoveQueue
<1>4. ASSUME NEW t \in Tasks, MintDone(t) \/ MintFail(t) PROVE QueueHoldsWaiters'
  <2>1. /\ pc[t] # "waiting" /\ pc'[t] # "waiting" /\ UNCHANGED queue
        /\ \A u \in Tasks \ {t} : pc'[u] = pc[u] /\ lock'[u] = lock[u]
    BY <1>4 DEF MintDone, MintFail, Forget, TypeOK
  <2> QED BY <1>1, <2>1
<1>5. ASSUME NEW t \in Tasks, CancelWait(t) PROVE QueueHoldsWaiters'
  <2>1. /\ pc[t] = "waiting" /\ lock[t] \in Locks
        /\ DOMAIN queue[lock[t]] = 1..Len(queue[lock[t]])
    BY <1>5 DEF CancelWait, TypeOK
  <2>2. \E i \in 1..Len(queue[lock[t]]) :
           /\ queue[lock[t]][i] = t
           /\ queue' = [queue EXCEPT ![lock[t]] = RemoveAt(queue[lock[t]], i)]
    BY <1>5, <2>1 DEF CancelWait
  <2>3. /\ pc'[t] # "waiting"
        /\ \A u \in Tasks \ {t} : pc'[u] = pc[u] /\ lock'[u] = lock[u]
    BY <1>5 DEF CancelWait, Forget, TypeOK
  <2> QED BY <2>1, <2>2, <2>3, RemoveQueue
<1>6. ASSUME NEW t \in Tasks, Answer401(t) PROVE QueueHoldsWaiters'
  <2>1. lock[t] = NoLock /\ key[t] \in Keys
    BY <1>6 DEF Answer401, TypeOK
  <2> QED BY <1>6, <2>1, AcquireQueue DEF Answer401
<1>7. ASSUME NEW t \in Tasks, Finish(t) PROVE QueueHoldsWaiters'
  <2>1. /\ pc[t] # "waiting" /\ pc'[t] # "waiting" /\ UNCHANGED queue
        /\ \A u \in Tasks \ {t} : pc'[u] = pc[u] /\ lock'[u] = lock[u]
    BY <1>7 DEF Finish, TypeOK
  <2> QED BY <1>1, <2>1
<1>8. ASSUME NEW s \in Systems, SystemStep(s)
      PROVE  QueueHoldsWaiters'
  BY <1>0, <1>8 DEF SystemStep, InstallKeypair, InstallFails, DeleteSystem, DeleteFails,
                   RestoreSystem, Installed, Deleted
<1>9. ASSUME NEW k \in Keys, Expire(k) PROVE QueueHoldsWaiters'
  BY <1>0, <1>9 DEF Expire
<1>10. CASE UNCHANGED vars
  BY <1>0, <1>10 DEF vars
<1> QED BY <1>2, <1>3, <1>4, <1>5, <1>6, <1>7, <1>8, <1>9, <1>10 DEF Next, TaskStep, SystemStep

LEMMA PemStep == IInv /\ [Next]_vars => PemNotAhead'
<1> SUFFICES ASSUME IInv, [Next]_vars, NEW u \in Tasks
             PROVE  pem'[u] <= gen'[SystemOf[key'[u]]]
  BY DEF PemNotAhead
<1>1. /\ pem[u] \in Nat /\ key[u] \in Keys /\ SystemOf[key[u]] \in Systems
      /\ \A s \in Systems : gen[s] \in Nat
      /\ pem[u] <= gen[SystemOf[key[u]]]
  BY DEF IInv, TypeOK, Gens, PemNotAhead
<1>2. CASE UNCHANGED <<pem, gen, key>>
  BY <1>1, <1>2
<1>3. ASSUME NEW t \in Tasks, NEW k \in Keys, Start(t, k)
      PROVE  pem'[u] <= gen'[SystemOf[key'[u]]]
  <2>1. gen' = gen /\ SystemOf[k] \in Systems /\ gen[SystemOf[k]] \in Nat
    BY <1>1, <1>3 DEF Start, disk
  <2>2. CASE u = t
    BY <1>3, <2>1, <2>2 DEF Start, IInv, TypeOK
  <2>3. CASE u # t
    BY <1>1, <1>3, <2>1, <2>3 DEF Start, IInv, TypeOK
  <2> QED BY <2>2, <2>3
<1>4. ASSUME NEW s \in Systems, Installed(s)
      PROVE  pem'[u] <= gen'[SystemOf[key'[u]]]
  BY <1>1, <1>4 DEF Installed, IInv, TypeOK
<1>5. ASSUME NEW t \in Tasks,
             Wake(t) \/ MintDone(t) \/ MintFail(t) \/ CancelWait(t) \/ Answer401(t) \/ Finish(t)
      PROVE  UNCHANGED <<pem, gen, key>>
  BY <1>5 DEF Wake, MintDone, MintFail, CancelWait, Answer401, Finish, disk
<1>6. ASSUME NEW s \in Systems, DeleteSystem(s) \/ DeleteFails(s) \/ RestoreSystem(s)
      PROVE  UNCHANGED <<pem, gen, key>>
  BY <1>6 DEF DeleteSystem, Deleted, DeleteFails, RestoreSystem
<1>7. ASSUME NEW k \in Keys, Expire(k) PROVE UNCHANGED <<pem, gen, key>>
  BY <1>7 DEF Expire, disk
<1>8. CASE UNCHANGED vars
  BY <1>2, <1>8 DEF vars
<1> QED BY <1>2, <1>3, <1>4, <1>5, <1>6, <1>7, <1>8
       DEF Next, TaskStep, SystemStep, InstallKeypair, InstallFails

LEMMA IInvStep == IInv /\ [Next]_vars => IInv'
  BY TypeStep, OneLockStep, OwnerStep, QueueStep, PemStep DEF IInv

LEMMA IInvHolds == Spec => []IInv
  BY IInvInit, IInvStep, PTL DEF Spec

-----------------------------------------------------------------------------
(* What a reader should know of the cache *)

\* The weak lock dictionary never splits a key over two lock objects, whatever
\* is cancelled, fails or is collected.
THEOREM OneLock == Spec => []OneLockPerKey
  BY IInvHolds, PTL DEF IInv

LEMMA ExclusiveFromIInv == IInv => MintExclusive
<1> SUFFICES ASSUME IInv, NEW t \in Tasks, NEW u \in Tasks,
                    pc[t] = "minting", pc[u] = "minting", key[t] = key[u]
             PROVE  t = u
  BY DEF MintExclusive
<1>1. lock[t] # NoLock /\ lock[u] # NoLock
  BY DEF IInv, TypeOK
<1>2. lock[t] = lock[u]
  BY <1>1 DEF IInv, OneLockPerKey
<1> QED BY <1>2 DEF IInv, OwnerMints

\* Requests of one cache key mint one at a time.
THEOREM MutualExclusion == Spec => []MintExclusive
  BY IInvHolds, ExclusiveFromIInv, PTL

\* A waiter stands once in a queue in which, as under the lock itself, only
\* tasks of its own cache key are found: other tenants never hold it up.
THEOREM OwnKeyOnly == Spec => []WaitsOnlyForOwnKey
<1>1. IInv => WaitsOnlyForOwnKey
  <2> SUFFICES ASSUME IInv, NEW t \in Tasks, pc[t] = "waiting"
               PROVE  /\ owner[lock[t]] # NoTask => key[owner[lock[t]]] = key[t]
                      /\ \A i \in DOMAIN queue[lock[t]] : key[queue[lock[t]][i]] = key[t]
                      /\ \E i \in DOMAIN queue[lock[t]] :
                            \A j \in DOMAIN queue[lock[t]] : queue[lock[t]][j] = t <=> j = i
    BY DEF WaitsOnlyForOwnKey
  <2>1. /\ lock[t] \in Locks /\ lock[t] # NoLock
        /\ queue[lock[t]] \in Seq(Tasks)
        /\ DOMAIN queue[lock[t]] = 1..Len(queue[lock[t]])
    BY DEF IInv, TypeOK
  <2>2. \A u \in Tasks : lock[u] = lock[t] => key[u] = key[t]
    BY <2>1 DEF IInv, OneLockPerKey
  <2>3. owner[lock[t]] # NoTask => key[owner[lock[t]]] = key[t]
    BY <2>1, <2>2 DEF IInv, OwnerMints, TypeOK
  <2>4. \A i \in 1..Len(queue[lock[t]]) :
           /\ queue[lock[t]][i] \in Tasks
           /\ lock[queue[lock[t]][i]] = lock[t]
           /\ \A j \in 1..Len(queue[lock[t]]) :
                 queue[lock[t]][i] = queue[lock[t]][j] => i = j
    BY <2>1 DEF IInv, QueueHoldsWaiters
  <2>5. \E i \in 1..Len(queue[lock[t]]) : queue[lock[t]][i] = t
    BY DEF IInv, QueueHoldsWaiters
  <2> QED BY <2>1, <2>2, <2>3, <2>4, <2>5
<1> QED BY <1>1, IInvHolds, PTL

LEMMA StormStep == IInv /\ StormCoalesced /\ [Next]_vars => StormCoalesced'
<1> SUFFICES ASSUME IInv, StormCoalesced, [Next]_vars PROVE StormCoalesced'
  OBVIOUS
<1> USE DEF IInv
<1>0. ASSUME UNCHANGED <<pc, refreshed, key, cache>> PROVE StormCoalesced'
  BY <1>0 DEF StormCoalesced, Usable
<1>1. ASSUME NEW t \in Tasks, NEW k \in Keys, Start(t, k) PROVE StormCoalesced'
  <2>1. \A u \in Tasks \ {t} :
           pc'[u] = pc[u] /\ key'[u] = key[u] /\ refreshed'[u] = refreshed[u]
    BY <1>1, AcquireLock DEF Start, TypeOK
  <2>2. key'[t] = k /\ cache' = cache
    BY <1>1 DEF Start, TypeOK
  <2>3. Usable(k) => pc'[t] # "minting"
    BY <1>1 DEF Start, TypeOK
  <2> QED BY <2>1, <2>2, <2>3 DEF StormCoalesced, Usable
<1>2. ASSUME NEW t \in Tasks, Wake(t) PROVE StormCoalesced'
  <2>1. /\ \A u \in Tasks \ {t} : pc'[u] = pc[u]
        /\ UNCHANGED <<key, refreshed, cache>>
        /\ pc'[t] = "minting" => refreshed[t] \/ ~Usable(key[t])
    BY <1>2 DEF Wake, TypeOK
  <2> QED BY <2>1 DEF StormCoalesced, Usable
<1>3. ASSUME NEW t \in Tasks, MintDone(t) PROVE StormCoalesced'
  <2>1. \A u \in Tasks \ {t} : pc[u] = "minting" => key[u] # key[t]
    BY <1>3, ExclusiveFromIInv DEF MintDone, MintExclusive
  <2>2. /\ pc'[t] = "sending" /\ UNCHANGED <<key, refreshed>>
        /\ \A u \in Tasks \ {t} : pc'[u] = pc[u]
        /\ \A k \in Keys \ {key[t]} : cache'[k] = cache[k]
    BY <1>3 DEF MintDone, TypeOK
  <2>3. \A u \in Tasks : key[u] \in Keys
    BY DEF TypeOK
  <2> QED BY <2>1, <2>2, <2>3 DEF StormCoalesced, Usable
<1>4. ASSUME NEW t \in Tasks, MintFail(t) \/ CancelWait(t) \/ Finish(t) PROVE StormCoalesced'
  <2>1. /\ pc'[t] # "minting" /\ UNCHANGED <<key, refreshed, cache>>
        /\ \A u \in Tasks \ {t} : pc'[u] = pc[u]
    BY <1>4 DEF MintFail, CancelWait, Finish, TypeOK
  <2> QED BY <2>1 DEF StormCoalesced, Usable
<1>5. ASSUME NEW t \in Tasks, Answer401(t) PROVE StormCoalesced'
  <2>1. /\ refreshed'[t] = TRUE /\ UNCHANGED <<key, cache>>
        /\ \A u \in Tasks \ {t} : refreshed'[u] = refreshed[u]
    BY <1>5 DEF Answer401, TypeOK
  <2>2. \A u \in Tasks \ {t} : pc'[u] = pc[u]
    <3>1. key[t] \in Keys /\ Acquire(t, key[t])
      BY <1>5 DEF Answer401, TypeOK
    <3> QED BY <3>1, AcquireLock DEF TypeOK
  <2> QED BY <2>1, <2>2 DEF StormCoalesced, Usable
<1>6. ASSUME NEW s \in Systems, SystemStep(s) PROVE StormCoalesced'
  <2>1. /\ UNCHANGED <<pc, key, refreshed>>
        /\ \A k \in Keys : cache'[k] = NoToken \/ cache'[k] = cache[k]
    BY <1>6 DEF SystemStep, InstallKeypair, InstallFails, DeleteSystem, DeleteFails,
                RestoreSystem, Installed, Deleted, Evict
  <2> QED BY <2>1 DEF StormCoalesced, Usable, TypeOK
<1>7. ASSUME NEW k \in Keys, Expire(k) PROVE StormCoalesced'
  <2>1. UNCHANGED <<pc, key, refreshed>> /\ cache[k] \in Tokens
    BY <1>7 DEF Expire, Usable, TypeOK
  <2>2. \A m \in Keys : cache'[m] = cache[m] \/ cache'[m].fresh = FALSE
    BY <1>7, <2>1 DEF Expire, Tokens, TypeOK
  <2> QED BY <2>1, <2>2 DEF StormCoalesced, Usable, TypeOK
<1>8. CASE UNCHANGED vars
  BY <1>0, <1>8 DEF vars
<1> QED BY <1>1, <1>2, <1>3, <1>4, <1>5, <1>6, <1>7, <1>8 DEF Next, TaskStep, SystemStep

\* No first-call mint runs while the cache has a usable token for its key.
THEOREM Coalescing == Spec => []StormCoalesced
<1>1. Init => StormCoalesced
  BY DEF Init, StormCoalesced
<1> QED BY <1>1, IInvHolds, StormStep, PTL DEF Spec

\* However many users have tokens cached, a completed install or delete leaves
\* none of the old key: a token goes stale only at the end of a mint that had
\* read its key before the replacement, or when the endpoint raises after it
\* changed the disk and so never reaches its eviction.
THEOREM EvictionComplete == Spec => StaleOnlyFromRaceOrFailure
<1>1. ASSUME IInv, [Next]_vars, NEW k \in Keys, Current(k), ~Current(k)'
      PROVE  \/ \E t \in Tasks : /\ pc[t] = "minting" /\ pc'[t] = "sending" /\ key[t] = k
                                 /\ SystemOf[k] \notin live \/ pem[t] < gen[SystemOf[k]]
             \/ InstallFails(SystemOf[k]) \/ DeleteFails(SystemOf[k])
  <2> USE DEF IInv
  <2>0. SystemOf[k] \in Systems
    OBVIOUS
  <2>1. ASSUME UNCHANGED <<live, gen, cache>> PROVE FALSE
    BY <1>1, <2>1 DEF Current
  <2>2. ASSUME NEW t \in Tasks, MintDone(t)
        PROVE  /\ pc[t] = "minting" /\ pc'[t] = "sending" /\ key[t] = k
               /\ SystemOf[k] \notin live \/ pem[t] < gen[SystemOf[k]]
    <3>1. UNCHANGED <<live, gen>>
      BY <2>2 DEF MintDone, disk
    <3>2. key[t] = k
      BY <1>1, <2>2, <3>1 DEF MintDone, TypeOK, Current
    <3>3. cache'[k].gen = pem[t]
      <4>1. PICK f \in BOOLEAN : cache' = [cache EXCEPT ![key[t]] = [gen |-> pem[t], fresh |-> f]]
        BY <2>2 DEF MintDone
      <4>2. cache'[k] = [gen |-> pem[t], fresh |-> f]
        BY <1>1, <3>2, <4>1 DEF TypeOK
      <4> QED BY <4>2
    <3>4. SystemOf[k] \notin live \/ pem[t] # gen[SystemOf[k]]
      BY <1>1, <3>1, <3>3 DEF Current
    <3>5. pem[t] <= gen[SystemOf[k]] /\ pem[t] \in Nat /\ gen[SystemOf[k]] \in Nat
      BY <1>1, <2>0, <3>2 DEF PemNotAhead, TypeOK, Gens
    <3>6. pc[t] = "minting" /\ pc'[t] = "sending"
      BY <1>1, <2>2 DEF MintDone, TypeOK
    <3> QED BY <3>2, <3>4, <3>5, <3>6
  <2>3. ASSUME NEW s \in Systems, InstallKeypair(s) \/ DeleteSystem(s) PROVE FALSE
    <3>1. CASE SystemOf[k] = s
      <4>1. cache'[k] = NoToken
        BY <2>3, <3>1 DEF InstallKeypair, DeleteSystem, Installed, Deleted, Evict
      <4> QED BY <1>1, <4>1 DEF Current
    <3>2. CASE SystemOf[k] # s
      <4>1. /\ cache'[k] = cache[k] /\ gen'[SystemOf[k]] = gen[SystemOf[k]]
            /\ SystemOf[k] \in live => SystemOf[k] \in live'
        BY <1>1, <2>0, <2>3, <3>2 DEF InstallKeypair, DeleteSystem, Installed, Deleted, Evict, TypeOK
      <4> QED BY <1>1, <4>1 DEF Current
    <3> QED BY <3>1, <3>2
  <2>4. ASSUME NEW s \in Systems, RestoreSystem(s) PROVE FALSE
    BY <1>1, <2>4 DEF RestoreSystem, Current
  <2>5. ASSUME NEW m \in Keys, Expire(m) PROVE FALSE
    <3>1. /\ UNCHANGED <<live, gen>>
          /\ cache[m] \in Tokens /\ cache' = [cache EXCEPT ![m].fresh = FALSE]
      BY <1>1, <2>5 DEF Expire, Usable, TypeOK, disk
    <3>2. cache[k] # NoToken => cache'[k].gen = cache[k].gen
      BY <1>1, <3>1 DEF TypeOK, Tokens
    <3>3. cache'[k] # NoToken => cache[k] # NoToken
      BY <1>1, <2>5, <3>1 DEF TypeOK, Usable, Expire
    <3> QED BY <1>1, <3>1, <3>2, <3>3 DEF Current
  <2>6. ASSUME NEW t \in Tasks,
               \/ \E m \in Keys : Start(t, m)
               \/ Wake(t) \/ MintFail(t) \/ CancelWait(t) \/ Answer401(t) \/ Finish(t)
        PROVE  FALSE
    <3>1. UNCHANGED <<live, gen, cache>>
      BY <2>6 DEF Start, Wake, MintFail, CancelWait, Answer401, Finish, disk
    <3> QED BY <2>1, <3>1
  <2>7. CASE UNCHANGED vars
    BY <2>1, <2>7 DEF vars
  <2>8. ASSUME NEW s \in Systems, InstallFails(s) \/ DeleteFails(s)
        PROVE  InstallFails(SystemOf[k]) \/ DeleteFails(SystemOf[k])
    <3>1. CASE SystemOf[k] = s
      BY <2>8, <3>1
    <3>2. CASE SystemOf[k] # s
      <4>1. /\ cache'[k] = cache[k] /\ gen'[SystemOf[k]] = gen[SystemOf[k]]
            /\ SystemOf[k] \in live => SystemOf[k] \in live'
        BY <1>1, <2>0, <2>8, <3>2 DEF InstallFails, DeleteFails, Installed, TypeOK
      <4> QED BY <1>1, <4>1 DEF Current
    <3> QED BY <3>1, <3>2
  <2> QED BY <1>1, <2>2, <2>3, <2>4, <2>5, <2>6, <2>7, <2>8 DEF Next, TaskStep, SystemStep
<1>2. IInv /\ [Next]_vars =>
        [\A k \in Keys : Current(k) /\ ~Current(k)' =>
           \/ \E t \in Tasks : /\ pc[t] = "minting" /\ pc'[t] = "sending" /\ key[t] = k
                               /\ SystemOf[k] \notin live \/ pem[t] < gen[SystemOf[k]]
           \/ InstallFails(SystemOf[k]) \/ DeleteFails(SystemOf[k])]_vars
  BY <1>1
<1> QED BY <1>2, IInvHolds, PTL DEF Spec, StaleOnlyFromRaceOrFailure
=============================================================================
