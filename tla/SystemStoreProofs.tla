-------------------------- MODULE SystemStoreProofs --------------------------
(***************************************************************************)
(* Proofs about services/system_store.py: about SystemStore, for any number  *)
(* of processes and keypairs, and behind it about SystemSelect (with         *)
(* PluginLoader) for any systems, edits and plugins.  The inductive          *)
(* invariant of the store says that whoever is past the flock holds it, and  *)
(* what a staged install knows is still true of the directory.               *)
(***************************************************************************)
EXTENDS SystemStore, SystemSelect, TLAPS

-----------------------------------------------------------------------------
(* The store *)


Locked == {"locked", "staged", "halfway", "installed", "edited", "removing"}

\* A call that is past the lock is the one that holds it.
LockHeld == \A p \in Procs : pc[p] \in Locked => holder = p

\* A call under way has a request, and its phase is one of that request's.
PhaseFitsRequest ==
    \A p \in Procs :
        /\ pc[p] \in Locked \union {"locking"} => op[p] \in Requests
        /\ pc[p] \in {"staged", "halfway"} => op[p] \in Installs
        /\ pc[p] = "edited" => op[p] \in [kind : {"environment"}, flag : BOOLEAN]

\* The stage is the directory with the pair replaced; the checks still hold.
StageCurrent ==
    \A p \in Procs :
      /\ pc[p] = "edited" => json # NoFile
      /\ pc[p] \in {"staged", "halfway"} =>
        /\ json # NoFile
        /\ stage[p] = [json |-> json, key |-> op[p].pair, cert |-> op[p].pair]
        /\ pc[p] = "staged" /\ ~op[p].force => ~HasPair
        /\ pc[p] = "halfway" => cert = op[p].pair

\* The in-place fallback runs only where there is no exchange.
NoFallback == canExchange => ~IsMixed /\ \A p \in Procs : pc[p] # "halfway"

IInv == TypeOK /\ LockHeld /\ PhaseFitsRequest /\ StageCurrent /\ FlagNotLost /\ NoFallback

USE NullAssumption

LEMMA InstallFields ==
    \A r \in Installs : r.kind = "install" /\ r.pair \in Pairs /\ r.force \in BOOLEAN
  BY DEF Installs

LEMMA RequestKinds ==
    \A r \in Requests :
        /\ r.kind = "install" => r \in Installs
        /\ r.kind = "environment" => r \in [kind : {"environment"}, flag : BOOLEAN]
  BY DEF Requests, Installs

LEMMA StageType ==
    \A r \in Installs : \A j \in BOOLEAN : 
        [json |-> j, key |-> r.pair, cert |-> r.pair] \in Stages
  BY InstallFields DEF Stages

LEMMA IInvInit == Init => IInv
<1> SUFFICES ASSUME Init PROVE IInv
  OBVIOUS
<1>1. TypeOK
  <2>1. json \in BOOLEAN \union {NoFile} /\ declared \in BOOLEAN /\ canExchange \in BOOLEAN
    BY Zenon DEF Init
  <2> QED BY <2>1 DEF Init, TypeOK
<1>2. FlagNotLost
  BY Zenon DEF Init, FlagNotLost
<1>3. LockHeld /\ PhaseFitsRequest /\ StageCurrent /\ NoFallback
  BY DEF Init, LockHeld, Locked, PhaseFitsRequest, StageCurrent, NoFallback, IsMixed, HasPair
<1> QED BY <1>1, <1>2, <1>3 DEF IInv

LEMMA TypeStep == IInv /\ [Next]_vars => TypeOK'
<1> SUFFICES ASSUME IInv, [Next]_vars PROVE TypeOK'
  OBVIOUS
<1> UNCHANGED canExchange
  BY DEF Next, vars
<1> USE DEF IInv, TypeOK
<1>1. CASE UNCHANGED vars
  BY <1>1 DEF vars
<1>2. CASE CreateFile
  <2>1. json' \in BOOLEAN \union {NoFile} /\ declared' \in BOOLEAN
    BY <1>2, Zenon DEF CreateFile
  <2> QED BY <1>2, <2>1 DEF CreateFile
<1>3. ASSUME NEW p \in Procs, Step(p) PROVE TypeOK'
  <2>1. CASE Call(p)
    BY <2>1 DEF Call, files
  <2>2. CASE Lock(p)
    BY <2>2 DEF Lock, files
  <2>3. CASE Refuse(p)
    BY <2>3 DEF Refuse, Return, files
  <2>4. CASE Stage(p)
    <3>1. json \in BOOLEAN
      BY <2>4, Zenon DEF Stage
    <3>2. op[p] \in Installs
      BY <2>4, RequestKinds DEF Stage, PhaseFitsRequest, Locked
    <3>3. [json |-> json, key |-> op[p].pair, cert |-> op[p].pair] \in Stages
      BY <3>1, <3>2, StageType
    <3> QED BY <2>4, <3>3 DEF Stage, Goto, files
  <2>5. CASE Exchange(p)
    <3>1. /\ stage[p].json = json /\ json # NoFile
          /\ stage[p].key = op[p].pair /\ stage[p].cert = op[p].pair
      BY <2>5 DEF Exchange, StageCurrent
    <3>2. op[p].pair \in Pairs
      BY <2>5, InstallFields DEF Exchange, PhaseFitsRequest
    <3>3. json \in BOOLEAN
      BY <3>1, Zenon
    <3>4. [json |-> json, key |-> key, cert |-> cert] \in Stages
      BY <3>3 DEF Stages
    <3>5. json' = json /\ key' \in Pairs /\ cert' \in Pairs
      BY <2>5, <3>1, <3>2 DEF Exchange
    <3> QED BY <2>5, <3>4, <3>5 DEF Exchange, Goto
  <2>6. CASE ReplaceCert(p)
    BY <2>6, InstallFields DEF ReplaceCert, StageCurrent, PhaseFitsRequest, Goto
  <2>7. CASE ReplaceKey(p)
    BY <2>7, InstallFields DEF ReplaceKey, StageCurrent, PhaseFitsRequest, Goto
  <2>8. CASE Installed(p)
    BY <2>8 DEF Installed, Return, files
  <2>9. CASE ReadFile(p)
    BY <2>9 DEF ReadFile, Goto, files
  <2>10. CASE ReplaceFile(p)
    <3>1. op[p].flag \in BOOLEAN
      BY <2>10 DEF ReplaceFile, PhaseFitsRequest
    <3>2. json' \in BOOLEAN \union {NoFile} /\ declared' \in BOOLEAN
      BY <2>10, <3>1, Zenon DEF ReplaceFile
    <3> QED BY <2>10, <3>2 DEF ReplaceFile, Return
  <2>11. CASE BeginDelete(p)
    BY <2>11 DEF BeginDelete, Goto, files
  <2>12. CASE Unlink(p)
    BY <2>12 DEF Unlink
  <2>13. CASE Deleted(p)
    BY <2>13 DEF Deleted, Return, files
  <2>14. CASE Fail(p)
    BY <2>14 DEF Fail, Return, files
  <2>15. CASE ReadKey(p)
    BY <2>15 DEF ReadKey, HasPair, Goto, files
  <2>16. CASE ReadCert(p)
    BY <2>16 DEF ReadCert, Return, files
  <2>17. CASE Kill(p)
    BY <2>17 DEF Kill, Return, files
  <2> QED BY <1>3, <2>1, <2>2, <2>3, <2>4, <2>5, <2>6, <2>7, <2>8, <2>9, <2>10, <2>11,
             <2>12, <2>13, <2>14, <2>15, <2>16, <2>17 DEF Step
<1> QED BY <1>1, <1>2, <1>3 DEF Next

LEMMA LockStep == IInv /\ [Next]_vars => (LockHeld /\ PhaseFitsRequest)'
<1> SUFFICES ASSUME IInv, [Next]_vars PROVE (LockHeld /\ PhaseFitsRequest)'
  OBVIOUS
<1> USE DEF IInv, TypeOK, LockHeld, PhaseFitsRequest, Locked
<1>1. CASE UNCHANGED vars
  BY <1>1 DEF vars
<1>2. CASE CreateFile
  BY <1>2 DEF CreateFile
<1>3. ASSUME NEW p \in Procs, Step(p) PROVE (LockHeld /\ PhaseFitsRequest)'
  <2>1. CASE Call(p)
    BY <2>1 DEF Call, files
  <2>2. CASE Lock(p)
    BY <2>2 DEF Lock, files
  <2>3. CASE Refuse(p) \/ Installed(p) \/ ReplaceFile(p) \/ Deleted(p) \/ Fail(p)
             \/ ReadCert(p) \/ Kill(p)
    <3>1. Return(p)
      BY <2>3 DEF Refuse, Installed, ReplaceFile, Deleted, Fail, ReadCert, Kill
    <3> QED BY <3>1 DEF Return
  <2>4. CASE Stage(p)
    BY <2>4, RequestKinds DEF Stage, Goto
  <2>5. CASE Exchange(p)
    BY <2>5 DEF Exchange, Goto
  <2>6. CASE ReplaceCert(p)
    BY <2>6 DEF ReplaceCert, Goto
  <2>7. CASE ReplaceKey(p)
    BY <2>7 DEF ReplaceKey, Goto
  <2>8. CASE ReadFile(p)
    BY <2>8, RequestKinds DEF ReadFile, Goto
  <2>9. CASE BeginDelete(p)
    BY <2>9 DEF BeginDelete, Goto
  <2>10. CASE Unlink(p)
    BY <2>10 DEF Unlink
  <2>11. CASE ReadKey(p)
    BY <2>11 DEF ReadKey, Goto
  <2> QED BY <1>3, <2>1, <2>2, <2>3, <2>4, <2>5, <2>6, <2>7, <2>8, <2>9, <2>10, <2>11 DEF Step
<1> QED BY <1>1, <1>2, <1>3 DEF Next

\* Only the holder of the lock changes the directory, and the operator only
\* where there is no <name>.json.
LEMMA WriterHoldsLock ==
    ASSUME IInv, NEW p \in Procs, Step(p), UNCHANGED files => FALSE
    PROVE  pc[p] \in Locked
  BY DEF Step, files, Call, Lock, Refuse, Stage, Exchange, ReplaceCert, ReplaceKey, Installed,
         ReadFile, ReplaceFile, BeginDelete, Unlink, Deleted, Fail, ReadKey, ReadCert, Kill, Locked

\* A step of one process leaves what the others are doing alone.
LEMMA OthersUntouched ==
    ASSUME TypeOK, NEW p \in Procs, Step(p), NEW q \in Procs, q # p
    PROVE  pc'[q] = pc[q] /\ op'[q] = op[q] /\ stage'[q] = stage[q]
  BY DEF TypeOK, Step, Call, Lock, Refuse, Stage, Exchange, ReplaceCert, ReplaceKey, Installed,
         ReadFile, ReplaceFile, BeginDelete, Unlink, Deleted, Fail, ReadKey, ReadCert, Kill,
         Return, Goto

LEMMA StageStep == IInv /\ [Next]_vars => StageCurrent'
<1> SUFFICES ASSUME IInv, [Next]_vars PROVE StageCurrent'
  OBVIOUS
<1>1. CASE UNCHANGED vars
  BY <1>1 DEF vars, IInv, StageCurrent, HasPair
<1>2. CASE CreateFile
  BY <1>2 DEF CreateFile, IInv, StageCurrent, HasPair
<1>3. ASSUME NEW p \in Procs, Step(p) PROVE StageCurrent'
  <2> DEFINE Current(q) ==
        /\ pc[q] = "edited" => json # NoFile
        /\ pc[q] \in {"staged", "halfway"} =>
            /\ json # NoFile
            /\ stage[q] = [json |-> json, key |-> op[q].pair, cert |-> op[q].pair]
            /\ pc[q] = "staged" /\ ~op[q].force => ~HasPair
            /\ pc[q] = "halfway" => cert = op[q].pair
  <2> SUFFICES ASSUME NEW q \in Procs PROVE Current(q)'
    BY DEF StageCurrent
  <2>1. Current(q)
    BY DEF IInv, StageCurrent
  <2>2. CASE q # p
    <3>1. pc'[q] = pc[q] /\ op'[q] = op[q] /\ stage'[q] = stage[q]
      BY <1>3, <2>2, OthersUntouched DEF IInv
    <3>2. pc[q] \in {"staged", "halfway", "edited"} => UNCHANGED files
      BY <1>3, <2>2, WriterHoldsLock DEF IInv, LockHeld, Locked
    <3> QED BY <2>1, <3>1, <3>2 DEF files, HasPair
  <2>3. CASE q = p
    <3> USE DEF IInv, TypeOK
    <3>1. CASE Stage(p)
      BY <3>1, <2>3 DEF Stage, Goto, files, HasPair
    <3>2. CASE ReplaceCert(p)
      BY <3>2, <2>1, <2>3 DEF ReplaceCert, Goto
    <3>3. CASE ReadFile(p)
      BY <3>3, <2>3 DEF ReadFile, Goto, files
    <3>4. CASE ~Stage(p) /\ ~ReplaceCert(p) /\ ~ReadFile(p)
      <4>1. pc'[p] \notin {"staged", "halfway", "edited"}
        BY <1>3, <3>4 DEF Step, Call, Lock, Refuse, Exchange, ReplaceKey, Installed,
           ReplaceFile, BeginDelete, Unlink, Deleted, Fail, ReadKey, ReadCert, Kill,
           Return, Goto
      <4> QED BY <4>1, <2>3
    <3> QED BY <3>1, <3>2, <3>3, <3>4
  <2> QED BY <2>2, <2>3
<1> QED BY <1>1, <1>2, <1>3 DEF Next

\* What a step may do to the directory.
LEMMA DirectoryStep ==
    ASSUME IInv, NEW p \in Procs, Step(p)
    PROVE  \/ UNCHANGED <<files, declared>>
           \/ /\ canExchange /\ pc[p] = "staged" /\ key' = cert' /\ key' \in Pairs
              /\ op[p].force \/ ~HasPair
              /\ json # NoFile /\ UNCHANGED <<json, declared>>
           \/ /\ ~canExchange /\ pc[p] = "staged" /\ pc'[p] = "halfway"
              /\ op[p].force \/ ~HasPair
              /\ json # NoFile /\ cert' \in Pairs /\ UNCHANGED <<json, key, declared>>
           \/ /\ ~canExchange /\ pc[p] = "halfway" /\ key' = cert' /\ key' \in Pairs
              /\ json # NoFile /\ UNCHANGED <<json, declared>>
           \/ /\ pc[p] = "edited" /\ json # NoFile
              /\ json' = declared' /\ json' \in BOOLEAN /\ UNCHANGED <<key, cert>>
           \/ pc[p] = "removing" /\ json' = NoFile /\ UNCHANGED <<key, cert, declared>>
           \/ pc[p] = "removing" /\ key' = NoFile /\ UNCHANGED <<json, cert, declared>>
           \/ pc[p] = "removing" /\ cert' = NoFile /\ UNCHANGED <<json, key, declared>>
<1> USE DEF IInv, files
<1>1. CASE Exchange(p)
  <2>1. /\ stage[p].json = json /\ json # NoFile
        /\ stage[p].key = op[p].pair /\ stage[p].cert = op[p].pair
    <3>1. /\ stage[p] = [json |-> json, key |-> op[p].pair, cert |-> op[p].pair]
          /\ json # NoFile
      BY <1>1, Zenon DEF Exchange, StageCurrent
    <3> QED BY <3>1
  <2>2. op[p].pair \in Pairs
    BY <1>1, InstallFields DEF Exchange, PhaseFitsRequest
  <2>3. op[p].force \/ ~HasPair
    BY <1>1, Zenon DEF Exchange, StageCurrent
  <2> QED BY <1>1, <2>1, <2>2, <2>3 DEF Exchange
<1>2. CASE ReplaceCert(p)
  <2>1. /\ stage[p] = [json |-> json, key |-> op[p].pair, cert |-> op[p].pair]
        /\ json # NoFile /\ (op[p].force \/ ~HasPair)
    BY <1>2, Zenon DEF ReplaceCert, StageCurrent
  <2>2. op[p].pair \in Pairs
    BY <1>2, InstallFields DEF ReplaceCert, PhaseFitsRequest
  <2> QED BY <1>2, <2>1, <2>2 DEF ReplaceCert, TypeOK, Goto
<1>3. CASE ReplaceKey(p)
  <2>1. ~canExchange
    <3>1. NoFallback /\ pc[p] = "halfway"
      BY <1>3 DEF ReplaceKey
    <3> QED BY <3>1, Zenon DEF NoFallback
  <2>2. stage[p].key = cert /\ cert \in Pairs /\ json # NoFile
    <3>0. op[p].pair \in Pairs
      BY <1>3, InstallFields DEF ReplaceKey, PhaseFitsRequest
    <3>1. stage[p] = [json |-> json, key |-> op[p].pair, cert |-> op[p].pair]
      BY <1>3, Zenon DEF ReplaceKey, StageCurrent
    <3>2. cert = op[p].pair /\ json # NoFile
      BY <1>3, Zenon DEF ReplaceKey, StageCurrent
    <3> QED BY <3>0, <3>1, <3>2
  <2> QED BY <1>3, <2>1, <2>2 DEF ReplaceKey
<1>4. CASE ReplaceFile(p)
  <2>1. op[p].flag \in BOOLEAN
    BY <1>4 DEF ReplaceFile, PhaseFitsRequest
  <2>2. pc[p] = "edited" /\ json # NoFile /\ UNCHANGED <<key, cert>>
    BY <1>4 DEF ReplaceFile, StageCurrent
  <2>3. json' = op[p].flag /\ declared' = op[p].flag
    BY <1>4 DEF ReplaceFile
  <2>4. json' = declared' /\ json' \in BOOLEAN
    BY <2>1, <2>3, Zenon
  <2> QED BY <2>2, <2>4
<1>5. CASE Unlink(p)
  BY <1>5 DEF Unlink
<1>6. CASE ~Exchange(p) /\ ~ReplaceCert(p) /\ ~ReplaceKey(p) /\ ~ReplaceFile(p) /\ ~Unlink(p)
  BY <1>6 DEF Step, Call, Lock, Refuse, Stage, Installed, ReadFile, BeginDelete, Deleted,
     Fail, ReadKey, ReadCert, Kill
<1> QED BY <1>1, <1>2, <1>3, <1>4, <1>5, <1>6

LEMMA FlagStep == IInv /\ [Next]_vars => FlagNotLost'
<1> SUFFICES ASSUME IInv, [Next]_vars PROVE FlagNotLost'
  OBVIOUS
<1> USE DEF IInv, FlagNotLost
<1>1. CASE UNCHANGED vars
  BY <1>1 DEF vars
<1>2. CASE CreateFile
  BY <1>2, Zenon DEF CreateFile
<1>3. ASSUME NEW p \in Procs, Step(p) PROVE FlagNotLost'
  BY <1>3, DirectoryStep DEF files
<1> QED BY <1>1, <1>2, <1>3 DEF Next

LEMMA FallbackStep == IInv /\ [Next]_vars => NoFallback'
<1> SUFFICES ASSUME IInv, [Next]_vars PROVE NoFallback'
  OBVIOUS
<1> UNCHANGED canExchange
  BY DEF Next, vars
<1> USE DEF IInv, NoFallback, IsMixed, HasPair
<1>1. CASE UNCHANGED vars
  BY <1>1 DEF vars
<1>2. CASE CreateFile
  BY <1>2 DEF CreateFile
<1>3. ASSUME NEW p \in Procs, Step(p), canExchange
      PROVE  ~IsMixed' /\ \A q \in Procs : pc'[q] # "halfway"
  <2>1. ~IsMixed'
    BY <1>3, DirectoryStep DEF files
  <2>2. ASSUME NEW q \in Procs PROVE pc'[q] # "halfway"
    <3>1. CASE q # p
      BY <1>3, <3>1, OthersUntouched
    <3>2. CASE q = p
      BY <1>3, <3>2 DEF TypeOK, Step, Call, Lock, Refuse, Stage, Exchange, ReplaceCert,
         ReplaceKey, Installed, ReadFile, ReplaceFile, BeginDelete, Unlink, Deleted, Fail,
         ReadKey, ReadCert, Kill, Return, Goto
    <3> QED BY <3>1, <3>2
  <2> QED BY <2>1, <2>2
<1> QED BY <1>1, <1>2, <1>3 DEF Next

LEMMA IInvStep == IInv /\ [Next]_vars => IInv'
  BY TypeStep, LockStep, StageStep, FlagStep, FallbackStep DEF IInv

LEMMA IInvHolds == Spec => []IInv
  BY IInvInit, IInvStep, PTL DEF Spec

-----------------------------------------------------------------------------
\* Types of the directory, the lock and the calls, for any processes and pairs.
THEOREM TypeCorrect == Spec => []TypeOK
  BY IInvHolds, PTL DEF IInv

\* install's exchange: key and certificate are one pair, at every moment and
\* after every crash, where directories can be exchanged.
THEOREM PairAtomic == Spec => []PairNeverMixed
<1>1. IInv => PairNeverMixed
  BY DEF IInv, NoFallback, PairNeverMixed
<1> QED BY <1>1, IInvHolds, PTL

\* install copies the directory under the lock set_production takes: no flag is lost.
THEOREM FlagKept == Spec => []FlagNotLost
  BY IInvHolds, PTL DEF IInv

\* install's check under the lock: without ?force=true no pair is replaced.
THEOREM UnforcedInstall == Spec => UnforcedNeverReplaces
<1>1. ASSUME IInv, [Next]_vars
      PROVE  [\A p \in Procs :
                pc[p] = "staged" /\ ~op[p].force /\ (key' # key \/ cert' # cert)
                  => ~HasPair]_vars
  <2> SUFFICES ASSUME NEW p \in Procs, pc[p] = "staged", ~op[p].force,
                      key' # key \/ cert' # cert
               PROVE  ~HasPair
    OBVIOUS
  <2> QED BY <1>1 DEF IInv, StageCurrent
<1> QED BY <1>1, IInvHolds, PTL DEF Spec, UnforcedNeverReplaces

\* The fallback alone mixes a pair, and only its first rename does.
THEOREM OnlyFallbackMixes == Spec => MixedOnlyByFallback
<1>1. ASSUME IInv, [Next]_vars
      PROVE  [~IsMixed /\ IsMixed' =>
                ~canExchange /\ key' = key /\ \E p \in Procs : pc'[p] = "halfway"]_vars
  <2> SUFFICES ASSUME ~IsMixed, IsMixed'
               PROVE  ~canExchange /\ key' = key /\ \E p \in Procs : pc'[p] = "halfway"
    OBVIOUS
  <2>1. ~(UNCHANGED vars) /\ ~CreateFile
    BY DEF vars, CreateFile, IsMixed, HasPair
  <2>2. PICK p \in Procs : Step(p)
    BY <1>1, <2>1 DEF Next
  <2>3. ~canExchange /\ pc'[p] = "halfway" /\ UNCHANGED key
    BY <1>1, <2>2, DirectoryStep DEF files, IsMixed, HasPair
  <2> QED BY <2>3
<1> QED BY <1>1, IInvHolds, PTL DEF Spec, MixedOnlyByFallback

\* Every step of the store is a step of what it promises, or invisible.
THEOREM Refinement == Spec => KeepsPromise
<1>1. Init => Promise!Init
  <2> SUFFICES ASSUME Init PROVE Promise!Init
    OBVIOUS
  <2>1. json \in BOOLEAN \union {NoFile} /\ canExchange \in BOOLEAN
    BY Zenon DEF Init
  <2>2. (IF ~HasPair THEN NoPair ELSE IF IsMixed THEN Mixed ELSE key) \in Pairs \union {NoPair}
    BY DEF Init, HasPair
  <2> QED BY <2>1, <2>2 DEF Promise!Init
<1>2. ASSUME IInv, [Next]_vars
      PROVE  [Promise!Next]_<<canExchange, json,
                  IF ~HasPair THEN NoPair ELSE IF IsMixed THEN Mixed ELSE key>>
  <2> USE DEF HasPair, IsMixed
  <2>1. CASE UNCHANGED vars
    BY <2>1 DEF vars
  <2>2. CASE Next
    <3>1. UNCHANGED canExchange
      BY <2>2 DEF Next
    <3>2. CASE CreateFile
      <4>1. json = NoFile /\ json' \in BOOLEAN
        BY <3>2, Zenon DEF CreateFile
      <4>2. UNCHANGED <<key, cert>>
        BY <3>2 DEF CreateFile
      <4>3. Promise!Create
        BY <4>1, <4>2, Zenon DEF Promise!Create
      <4> QED BY <3>1, <4>3 DEF Promise!Next
    <3>3. ASSUME NEW p \in Procs, Step(p)
          PROVE  Promise!Next \/ UNCHANGED <<canExchange, json, key, cert>>
      <4>1. CASE UNCHANGED files
        BY <3>1, <4>1 DEF files
      <4>2. CASE key' = cert' /\ key' \in Pairs /\ json # NoFile /\ UNCHANGED json
        <5>1. Promise!Install
          BY <4>2 DEF Promise!Install
        <5> QED BY <3>1, <5>1 DEF Promise!Next
      <4>3. CASE ~canExchange /\ json # NoFile /\ cert' \in Pairs /\ UNCHANGED <<json, key>>
        <5>1. key # NoFile /\ key # cert' => Promise!Half
          BY <4>3 DEF Promise!Half
        <5>2. key # NoFile /\ key = cert' => Promise!Install
          BY <4>3 DEF Promise!Install
        <5>3. key = NoFile => Promise!RemovePair
          BY <4>3 DEF Promise!RemovePair
        <5> QED BY <3>1, <5>1, <5>2, <5>3 DEF Promise!Next
      <4>4. CASE json # NoFile /\ json' \in BOOLEAN /\ UNCHANGED <<key, cert>>
        <5>1. Promise!SetProduction
          BY <4>4, Zenon DEF Promise!SetProduction
        <5> QED BY <3>1, <5>1 DEF Promise!Next
      <4>5. CASE json' = NoFile /\ UNCHANGED <<key, cert>>
        <5>1. Promise!RemoveFile
          BY <4>5 DEF Promise!RemoveFile
        <5> QED BY <3>1, <5>1 DEF Promise!Next
      <4>6. CASE (key' = NoFile \/ cert' = NoFile) /\ UNCHANGED json
        <5>1. Promise!RemovePair
          BY <4>6 DEF Promise!RemovePair
        <5> QED BY <3>1, <5>1 DEF Promise!Next
      <4> QED BY <1>2, <3>3, <4>1, <4>2, <4>3, <4>4, <4>5, <4>6, DirectoryStep DEF files
    <3> QED BY <2>2, <3>2, <3>3 DEF Next
  <2> QED BY <1>2, <2>1, <2>2
<1> QED BY <1>1, <1>2, IInvHolds, PTL DEF Spec, KeepsPromise, Promise!Spec

-----------------------------------------------------------------------------
(* Which system a call is for, and the plugins loaded before.                 *)

\* The loader's state: entries are loaded in their order, each once.
LoaderTypes ==
    /\ entries \in Seq(STRING) /\ at \in 0..Len(entries) /\ registering \in BOOLEAN
    /\ registering => at \in DOMAIN entries
    /\ plugins \in [DOMAIN entries -> {"absent", "loaded", "failed"}]
    /\ tools \in [Tools -> Nat \union {Nobody}]
    /\ types \in [Types -> Nat \union {Nobody}]
    /\ DOMAIN statusFns = Names
    /\ \A i \in DOMAIN entries : (i > at \/ (i = at /\ registering)) => plugins[i] = "absent"

\* A registry that shows nothing of an entry that is not loaded.
Clean(byTool, byType) ==
    /\ byTool \in [Tools -> Nat \union {Nobody}]
    /\ byType \in [Types -> Nat \union {Nobody}]
    /\ byType[CoreType] = 0
    /\ \A t \in PluginTypes : byType[t] \in Loaded \union {Nobody}
    /\ \A t \in Tools :
          byTool[t] \in Loaded \union (IF Loaded = {} THEN {0} ELSE {0, Nobody})

\* The snapshot a failure goes back to is clean; beside what is, only the entry
\* that registers has been at work.
SnapshotClean ==
    IF registering
    THEN /\ Clean(saved.tools, saved.types)
         /\ types[CoreType] = 0
         /\ \A t \in PluginTypes : types[t] \in Loaded \union {Nobody, at}
         /\ \A t \in Tools : tools[t] \in Loaded \union {0, Nobody, at}
    ELSE Clean(tools, types)

\* A status under the name of a failed entry is not its own.
StatusesClean == \A i \in DOMAIN entries : plugins[i] = "failed" => statusFns[entries[i]] # i

LoaderIInv == LoaderTypes /\ SnapshotClean /\ StatusesClean

LEMMA LoaderInit ==
    ASSUME InitLoader
    PROVE  LoaderIInv
<1> USE LoaderAssumption DEF InitLoader, Core
<1>1. LoaderTypes
  <2>1. entries \in Seq(STRING) /\ Len(entries) \in Nat /\ DOMAIN entries = 1..Len(entries)
    OBVIOUS
  <2>2. at = 0 /\ registering = FALSE /\ plugins = [i \in DOMAIN entries |-> "absent"]
    OBVIOUS
  <2>3. types \in [Types -> Nat \union {Nobody}] /\ tools \in [Tools -> Nat \union {Nobody}]
    OBVIOUS
  <2>4. plugins \in [DOMAIN entries -> {"absent", "loaded", "failed"}]
    BY <2>2
  <2>5. at \in 0..Len(entries)
    BY <2>1, <2>2
  <2>6. \A i \in DOMAIN entries : plugins[i] = "absent"
    BY <2>2
  <2>7. DOMAIN statusFns = Names
    OBVIOUS
  <2> HIDE LoaderAssumption DEF InitLoader
  <2> QED BY <2>1, <2>2, <2>3, <2>4, <2>5, <2>6, <2>7 DEF LoaderTypes
<1>2. SnapshotClean
  BY DEF SnapshotClean, Clean, Types, Loaded
<1>3. StatusesClean
  BY DEF StatusesClean
<1> QED BY <1>1, <1>2, <1>3 DEF LoaderIInv

\* Only the entry that registers sets a status, and one that fails gives up the one
\* under its name.
LEMMA StatusesKept ==
    ASSUME LoaderIInv, LoaderStep
    PROVE  DOMAIN statusFns' = Names' /\ StatusesClean'
<1> USE LoaderAssumption DEF LoaderIInv, LoaderTypes, StatusesClean, registry
<1>1. UNCHANGED entries /\ Names' = Names
  BY DEF LoaderStep, BeginEntry, Register, FailEntry, Succeed, Ended, Names
<1>2. CASE BeginEntry
  BY <1>1, <1>2 DEF BeginEntry
<1>3. CASE Register
  <2>1. at \in DOMAIN entries /\ plugins[at] = "absent" /\ UNCHANGED <<entries, plugins>>
    BY <1>3 DEF Register
  <2>2. CASE UNCHANGED statusFns
    BY <1>1, <2>1, <2>2
  <2>3. ASSUME NEW n \in Names, statusFns' = [statusFns EXCEPT ![n] = at]
        PROVE  DOMAIN statusFns' = Names' /\ StatusesClean'
    <3>1. DOMAIN statusFns' = Names
      BY <2>3
    <3>2. \A m \in Names : statusFns'[m] = IF m = n THEN at ELSE statusFns[m]
      BY <2>3
    <3>3. \A i \in DOMAIN entries : entries[i] \in Names
      BY DEF Names
    <3> QED BY <1>1, <2>1, <3>1, <3>2, <3>3
  <2> QED BY <1>3, <2>2, <2>3 DEF Register
<1>4. CASE FailEntry
  <2>1. /\ at \in DOMAIN entries /\ plugins[at] = "absent"
        /\ plugins' = [plugins EXCEPT ![at] = "failed"]
        /\ statusFns' = [statusFns EXCEPT ![entries[at]] = Nobody]
    BY <1>4 DEF FailEntry, Ended
  <2>2. DOMAIN statusFns' = Names
    BY <2>1
  <2>3. \A m \in Names : statusFns'[m] = IF m = entries[at] THEN Nobody ELSE statusFns[m]
    BY <2>1
  <2>4. \A i \in DOMAIN entries : i # at => plugins'[i] = plugins[i]
    BY <2>1
  <2>5. \A i \in DOMAIN entries : entries[i] \in Names /\ i # Nobody
    BY DEF Names
  <2> QED BY <1>1, <2>1, <2>2, <2>3, <2>4, <2>5
<1>5. CASE Succeed
  <2>1. /\ UNCHANGED <<entries, statusFns>> /\ at \in DOMAIN entries
        /\ plugins' = [plugins EXCEPT ![at] = "loaded"]
    BY <1>5 DEF Succeed, Ended
  <2>2. \A i \in DOMAIN entries : plugins'[i] = "failed" => plugins[i] = "failed"
    BY <2>1
  <2> QED BY <1>1, <2>1, <2>2
<1> QED BY <1>2, <1>3, <1>4, <1>5 DEF LoaderStep

\* An entry that has run is loaded, or it leaves the loaded ones as they were.
LEMMA LoadedAfter ==
    ASSUME LoaderIInv, NEW how \in {"loaded", "failed"}, Ended(how)
    PROVE  /\ at \in DOMAIN entries /\ at \notin Loaded
           /\ Loaded' = IF how = "loaded" THEN Loaded \union {at}
                                                  ELSE Loaded
<1>1. at \in DOMAIN entries /\ plugins[at] = "absent"
  BY DEF Ended, LoaderIInv, LoaderTypes
<1>2. plugins' = [plugins EXCEPT ![at] = how]
  BY DEF Ended
<1>3. DOMAIN plugins = DOMAIN entries /\ DOMAIN plugins' = DOMAIN entries
  BY <1>2 DEF LoaderIInv, LoaderTypes
<1>4. \A i \in DOMAIN entries : plugins'[i] = IF i = at THEN how ELSE plugins[i]
  BY <1>2, <1>3
<1> QED BY <1>1, <1>3, <1>4 DEF Loaded

LEMMA LoaderStepKeeps ==
    ASSUME LoaderIInv, LoaderStep
    PROVE  LoaderIInv'
<1> USE LoaderAssumption, StatusesKept DEF LoaderIInv, registry
<1>1. CASE BeginEntry
  <2>1. LoaderTypes'
    BY <1>1 DEF BeginEntry, LoaderTypes
  <2>2. SnapshotClean'
    BY <1>1 DEF BeginEntry, SnapshotClean, Clean, Loaded, Types
  <2> QED BY <2>1, <2>2
<1>2. CASE Register
  <2> USE <1>2 DEF Register
  <2>1. UNCHANGED <<entries, at, registering, saved, plugins>> /\ registering
    OBVIOUS
  <2>2. at \in Nat
    BY DEF LoaderTypes
  <2>3. ASSUME NEW t \in Tools, NEW by \in {at, Nobody},
               tools' = [tools EXCEPT ![t] = by], UNCHANGED types
        PROVE  LoaderIInv'
    BY <2>1, <2>2, <2>3 DEF LoaderTypes, SnapshotClean, Clean, Loaded
  <2>4. ASSUME NEW t \in Types, types[t] = Nobody,
               types' = [types EXCEPT ![t] = at], UNCHANGED tools
        PROVE  LoaderIInv'
    <3>1. t # CoreType
      BY <2>1, <2>4 DEF SnapshotClean
    <3> QED BY <2>1, <2>2, <2>4, <3>1 DEF LoaderTypes, SnapshotClean, Clean, Loaded,
                                          Types
  <2>5. CASE UNCHANGED <<tools, types>>
    BY <2>1, <2>5 DEF LoaderTypes, SnapshotClean, Clean, Loaded
  <2> QED BY <2>3, <2>4, <2>5
<1>3. CASE FailEntry
  <2>1. Ended("failed") /\ tools' = saved.tools /\ types' = saved.types
    BY <1>3 DEF FailEntry
  <2>2. Loaded' = Loaded /\ at \in DOMAIN entries
    BY <2>1, LoadedAfter
  <2>3. Clean(saved.tools, saved.types)
    BY <2>1 DEF SnapshotClean, Ended
  <2>4. LoaderTypes'
    <3>1. tools' \in [Tools -> Nat \union {Nobody}] /\ types' \in [Types -> Nat \union {Nobody}]
      BY <2>1, <2>3 DEF Clean
    <3>2. registering' = FALSE /\ UNCHANGED <<entries, at>>
          /\ plugins' = [plugins EXCEPT ![at] = "failed"]
      BY <2>1 DEF Ended
    <3>3. plugins' \in [DOMAIN entries' -> {"absent", "loaded", "failed"}]
      BY <2>2, <3>2 DEF LoaderTypes
    <3>4. \A i \in DOMAIN entries' : i > at' => plugins'[i] = "absent"
      BY <2>2, <3>2 DEF LoaderTypes
    <3> QED BY <2>2, <3>1, <3>2, <3>3, <3>4 DEF LoaderTypes
  <2>5. SnapshotClean'
    BY <2>1, <2>2, <2>3 DEF SnapshotClean, Clean, Ended
  <2> QED BY <2>4, <2>5
<1>4. CASE Succeed
  <2>1. Ended("loaded") /\ UNCHANGED <<tools, types>>
    BY <1>4 DEF Succeed
  <2>2. Loaded' = Loaded \union {at} /\ at \in DOMAIN entries
    BY <2>1, LoadedAfter
  <2>3. LoaderTypes'
    <3>1. registering' = FALSE /\ UNCHANGED <<entries, at, tools, types>>
          /\ plugins' = [plugins EXCEPT ![at] = "loaded"]
      BY <2>1 DEF Ended
    <3>2. plugins' \in [DOMAIN entries' -> {"absent", "loaded", "failed"}]
      BY <2>2, <3>1 DEF LoaderTypes
    <3>3. \A i \in DOMAIN entries' : i > at' => plugins'[i] = "absent"
      BY <2>2, <3>1 DEF LoaderTypes
    <3> QED BY <2>2, <3>1, <3>2, <3>3 DEF LoaderTypes
  <2>4. SnapshotClean'
    BY <2>1, <2>2 DEF LoaderTypes, SnapshotClean, Clean, Ended
  <2> QED BY <2>3, <2>4
<1> QED BY <1>1, <1>2, <1>3, <1>4 DEF LoaderStep

-----------------------------------------------------------------------------
\* Where the call is: what it has resolved so far, and that pages are left to ask for.
Resolving ==
    /\ callPc \in {"config", "key"} => chosen \in Systems
    /\ callPc = "key" => config \in Good
    /\ callPc \notin {"done", "refused"} =>
          (v4 = Nothing /\ pages = <<>>) \/ Len(pages) < MaxPages
    /\ callPc # "refused" => refusal = Nothing

\* Only a default is looked for by reading, and what was read of a system nobody has
\* edited since is what it holds, or that it cannot be read.
ReadTruly ==
    callPc = "read" =>
        /\ asked = Nothing
        /\ \A s \in calm \ (todo \union missed) :
              file[s] = Absent \/ <<s, file[s]>> \in raws \/ <<s, Untyped>> \in raws

SelectIInv ==
    LoaderIInv /\ SelectTypeOK /\ Resolving /\ ReadTruly /\ DefaultDecidedRight

LEMMA SelectIInvInit ==
    ASSUME SelectInit
    PROVE  SelectIInv
<1> USE CallAssumption DEF SelectInit
<1>1. LoaderIInv
  BY LoaderInit
<1>2. SelectTypeOK
  BY DEF SelectTypeOK
<1>3. Resolving /\ ReadTruly
  BY DEF Resolving, ReadTruly
<1>4. DefaultDecidedRight
  BY DEF DefaultDecidedRight, DefaultIsNoGuess, UnknownIsTrue
<1> QED BY <1>1, <1>2, <1>3, <1>4 DEF SelectIInv

LEMMA LoaderKept ==
    ASSUME LoaderIInv, [SelectNext]_selectVars
    PROVE  LoaderIInv'
<1>1. ASSUME UNCHANGED loader PROVE LoaderIInv'
  BY <1>1 DEF loader, LoaderIInv, LoaderTypes, SnapshotClean, StatusesClean, Clean,
                   Loaded, Names
<1>2. CASE Load
  BY <1>2, LoaderStepKeeps DEF Load
<1>3. CASE Serve \/ Named \/ List \/ Decide \/ Config
           \/ Key
  BY <1>1, <1>3 DEF Serve, Named, List, Decide, Config,
                    Key
<1>4. ASSUME NEW s \in Systems, Read(s) \/ Edit(s) PROVE LoaderIInv'
  BY <1>1, <1>4 DEF Read, Edit
<1>5. CASE UNCHANGED selectVars
  BY <1>1, <1>5 DEF selectVars, loader
<1> QED BY <1>2, <1>3, <1>4, <1>5 DEF SelectNext

LEMMA SelectTypeStep ==
    ASSUME SelectTypeOK, Resolving, [SelectNext]_selectVars
    PROVE  SelectTypeOK' /\ Resolving'
<1> USE CallAssumption DEF SelectTypeOK, Resolving, loader, directory,
            extract, listing, RefuseCall
<1>1. CASE Load
  BY <1>1 DEF Load
<1>2. CASE Serve
  BY <1>2 DEF Serve
<1>3. CASE Named
  BY <1>3 DEF Named
<1>4. CASE List
  BY <1>4 DEF List
<1>5. CASE Decide
  BY <1>5 DEF Decide, Matches
<1>6. CASE Config
  BY <1>6 DEF Config
<1>7. CASE Key
  <2> USE <1>7 DEF Key
  <2>1. chosen \in Systems /\ config \in Good /\ refusal = Nothing
    OBVIOUS
  <2>2. ASSUME NEW code, RefuseCall(code, "key"), UNCHANGED <<v4, pages, chosen, config>>
        PROVE  SelectTypeOK' /\ Resolving'
    BY <2>1, <2>2
  <2> DEFINE Past == callPc' = IF Len(pages') = MaxPages THEN "done" ELSE "resolve"
  <2>3. CASE v4 = Nothing /\ v4' = (config.version = "v4") /\ UNCHANGED pages /\ Past
             /\ chosen' = Nothing /\ config' = Nothing /\ UNCHANGED refusal
    <3>1. v4' \in BOOLEAN /\ pages' = pages
      BY <2>3
    <3> QED BY <2>1, <2>3, <3>1
  <2>4. CASE v4 # Nothing /\ v4' = v4 /\ pages' = Append(pages, Asked) /\ Past
             /\ chosen' = Nothing /\ config' = Nothing /\ UNCHANGED refusal
    <3>1. Asked \in [system : Systems, host : Hosts, version : {"v2", "v4"}]
      BY <2>1 DEF Asked, Good
    <3>2. Len(pages) < MaxPages /\ v4' = v4 /\ pages' = Append(pages, Asked)
      BY <2>4
    <3>3. /\ pages' \in Seq([system : Systems, host : Hosts, version : {"v2", "v4"}])
          /\ Len(pages') = Len(pages) + 1
      BY <3>1, <3>2
    <3> QED BY <2>1, <2>4, <3>2, <3>3
  <2> QED BY <2>2, <2>3, <2>4
<1>8. ASSUME NEW s \in Systems, Read(s) PROVE SelectTypeOK' /\ Resolving'
  BY <1>8 DEF Read, Raws, Kinds
<1>9. ASSUME NEW s \in Systems, Edit(s) PROVE SelectTypeOK' /\ Resolving'
  <2> USE <1>9 DEF Edit
  <2>1. file' \in [Systems -> Kinds]
    OBVIOUS
  <2>2. hasKey' \in [Systems -> BOOLEAN]
    <3>1. CASE UNCHANGED hasKey
      BY <3>1
    <3>2. CASE hasKey' = [hasKey EXCEPT ![s] = ~@]
      BY <3>2, Zenon
    <3> QED BY <3>1, <3>2
  <2>3. edits' \in 0..MaxEdits
    OBVIOUS
  <2> QED BY <2>1, <2>2, <2>3
<1>10. CASE UNCHANGED selectVars
  BY <1>10 DEF selectVars
<1> QED BY <1>1, <1>2, <1>3, <1>4, <1>5, <1>6, <1>7, <1>8, <1>9, <1>10 DEF SelectNext

\* Whoever decides knows of every system that stood there all the time, unless it
\* holds nothing or another type, or could not be listed.
LEMMA DecisionKnows ==
    ASSUME SelectTypeOK, ReadTruly, callPc = "read", todo = {},
           Unreadable = {}
    PROVE  \A s \in calm : s \in Matches \/ file[s] \in {Absent, Other} \/ s \in missed
<1> SUFFICES ASSUME NEW s \in calm, file[s] \notin {Absent, Other}, s \notin missed
             PROVE  s \in Matches
  OBVIOUS
<1>1. s \in Systems /\ file[s] \in Kinds
  BY DEF SelectTypeOK
<1>2. <<s, file[s]>> \in raws
  BY <1>1 DEF ReadTruly, Unreadable
<1>3. file[s] # Untyped
  BY <1>1, <1>2 DEF Unreadable
<1> QED BY <1>1, <1>2, <1>3 DEF Kinds, Matches

LEMMA DecidedStep ==
    ASSUME SelectIInv, [SelectNext]_selectVars
    PROVE  ReadTruly' /\ DefaultDecidedRight'
<1> USE DEF SelectIInv, ReadTruly, DefaultDecidedRight, DefaultIsNoGuess,
            UnknownIsTrue, loader, directory, extract, listing
<1>1. CASE Load \/ Serve
  BY <1>1 DEF Load, Serve
<1>2. CASE Named
  BY <1>2 DEF Named, RefuseCall
<1>3. CASE List
  BY <1>3, CallAssumption DEF List, SelectTypeOK, Resolving
<1>4. CASE Decide
  <2> USE <1>4 DEF Decide
  <2>1. CASE Matches = {} /\ Unreadable = {}
    BY <2>1, DecisionKnows DEF RefuseCall
  <2>2. CASE UNCHANGED chosen /\ (RefuseCall("system_required", "default")
                                  \/ RefuseCall("system_invalid", "default"))
    BY <2>2 DEF RefuseCall
  <2>3. ASSUME NEW s \in Systems, Matches = {s}, Unreadable = {}, callPc' = "config", chosen' = s, UNCHANGED refusal
        PROVE  ReadTruly' /\ DefaultDecidedRight'
    BY <2>3, DecisionKnows
  <2> QED BY <2>1, <2>2, <2>3
<1>5. CASE Config
  BY <1>5 DEF Config, RefuseCall
<1>6. CASE Key
  BY <1>6 DEF Key, RefuseCall
<1>7. ASSUME NEW s \in Systems, Read(s) PROVE ReadTruly' /\ DefaultDecidedRight'
  BY <1>7 DEF Read, Raws
<1>8. ASSUME NEW s \in Systems, Edit(s) PROVE ReadTruly' /\ DefaultDecidedRight'
  <2>1. /\ calm' = calm \ {s}
        /\ UNCHANGED <<asked, callPc, todo, raws, missed, chosen, refusal>>
    BY <1>8 DEF Edit
  <2>2. \A r \in calm' : r \in calm /\ file'[r] = file[r]
    BY <1>8, <2>1 DEF Edit, SelectTypeOK
  <2> QED BY <2>1, <2>2
<1>9. CASE UNCHANGED selectVars
  BY <1>9 DEF selectVars
<1> QED BY <1>1, <1>2, <1>3, <1>4, <1>5, <1>6, <1>7, <1>8, <1>9 DEF SelectNext

LEMMA SelectStep ==
    ASSUME SelectIInv,
           [SelectNext]_selectVars
    PROVE  SelectIInv'
<1>1. LoaderIInv'
  BY LoaderKept DEF SelectIInv
<1>2. SelectTypeOK' /\ Resolving'
  BY SelectTypeStep DEF SelectIInv
<1> QED BY <1>1, <1>2, DecidedStep DEF SelectIInv

LEMMA SelectHolds == SelectSpec => []SelectIInv
<1>1. SelectInit => SelectIInv
  BY SelectIInvInit
<1>2. SelectIInv /\ [SelectNext]_selectVars => SelectIInv'
  BY SelectStep
<1> QED BY <1>1, <1>2, PTL DEF SelectSpec

\* Types of a call's state, for any systems, limits and edits of SYSTEMS_DIR.
THEOREM SelectTypeCorrect == SelectSpec => []SelectTypeOK
<1>1. SelectIInv => SelectTypeOK
  BY DEF SelectIInv
<1> QED BY <1>1, SelectHolds, PTL

\* When a plugin fails, tools and types are as if it had never run, and no status of it
\* is left under its own name.
THEOREM FailuresRolledBack == SelectSpec => []FailuresUndone
<1>1. SelectIInv => FailuresUndone
  BY DEF SelectIInv, LoaderIInv, LoaderTypes, SnapshotClean, StatusesClean, Clean,
            FailuresUndone
<1> QED BY <1>1, SelectHolds, PTL

\* Whatever is edited while the files are read, a default and "there is none" are right
\* for every system that stood there unchanged all the time and could be listed.
THEOREM DefaultRight == SelectSpec => []DefaultDecidedRight
<1>1. SelectIInv => DefaultDecidedRight
  BY DEF SelectIInv
<1> QED BY <1>1, SelectHolds, PTL
=============================================================================
