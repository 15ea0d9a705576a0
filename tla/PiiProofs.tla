------------------------------- MODULE PiiProofs -------------------------------
(***************************************************************************)
(* Proofs about the two PII components: about the vault (PiiVault) for any   *)
(* handles, systems, values and keys; and about what the filter shows of a   *)
(* page (PiiExchange) for any maps, configurations, records of any nesting   *)
(* and leaves.  The vault's inductive invariant says that a handle past its  *)
(* key shares the one key of the file, and that every row and token comes    *)
(* from one key.                                                             *)
(***************************************************************************)
EXTENDS PiiVault, PiiExchange, TLAPS

-----------------------------------------------------------------------------
(* The vault *)

KeyHolders == {"create", "check", "alter", "ready", "save", "return"}

\* Whoever has a key has the file's, and while one writes it nobody has one.
OneKey ==
    /\ \A h \in Handles : pc[h] \in KeyHolders => key[h] \in Keys /\ keyFile = key[h]
    /\ \A h \in Handles : pc[h] = "write" => keyFile = "empty" /\ table = "none"
    /\ \A g, h \in Handles : pc[g] = "write" /\ pc[h] = "write" => g = h
    /\ keyFile = "absent" => table = "none" /\ \A h \in Handles : pc[h] = "idle"
    /\ table = "none" => rows = {} /\ issued = {}
    /\ \A h \in Handles : pc[h] \in KeyHolders \ {"create"} => table # "none"

\* Only a system's handle has tokens pending, and they are accounted for.
PendingKnown ==
    \A h \in Handles : pc[h] \in {"save", "return"} =>
        tenant[h] \in Tenants /\ {tenant[h]} \X batch[h] \subseteq wanted

Accounted == \A r \in rows : r.tenant \in Tenants => <<r.tenant, r.value>> \in wanted

\* Every token, and every row of a tenant, was made with key k.
MadeWith(k) ==
    /\ keyFile \in Keys => keyFile = k
    /\ \A a \in issued : a.hex = Digest(k, a.tenant, a.value)
    /\ \A r \in rows : r \in OldRows \/ (r.tenant \in Tenants /\ r.hex = Digest(k, r.tenant, r.value))

OneOrigin == (rows \subseteq OldRows /\ issued = {}) \/ \E k \in Keys : MadeWith(k)

IInv == TypeOK /\ OneKey /\ PendingKnown /\ Accounted /\ OneOrigin

\* What is handed out has its row.
Backed ==
    /\ \A a \in issued : [hex |-> a.hex, value |-> a.value, tenant |-> a.tenant] \in rows
    /\ \A h \in Handles : pc[h] = "return" => \A v \in batch[h] :
          [hex |-> HexOf(h, v), value |-> v, tenant |-> tenant[h]] \in rows

-----------------------------------------------------------------------------
\* What a batch inserts: rows of the handle's tenant with their own digests.
LEMMA InsertsAre ==
    ASSUME NEW h \in Handles, NEW new \in Inserts(h)
    PROVE  /\ \A r \in new : /\ r.value \in batch[h] /\ r.tenant = tenant[h]
                             /\ r.hex = HexOf(h, r.value)
                             /\ r = [hex |-> r.hex, value |-> r.value, tenant |-> r.tenant]
           /\ \A v \in batch[h] : \E r \in new : r.hex = HexOf(h, v)
BY DEF Inserts

LEMMA InitInv == Init => IInv
<1> SUFFICES ASSUME Init PROVE IInv
  OBVIOUS
<1> USE VaultAssumption
<1>1. TypeOK
  <2>1. rows \subseteq Rows
    BY DEF Init, Rows, Issuers
  <2> QED
    BY <2>1 DEF Init, TypeOK, Contents, Issuers
<1>2. OneKey
  BY DEF Init, OneKey, KeyHolders, Contents
<1>3. PendingKnown /\ Accounted /\ OneOrigin
  BY DEF Init, PendingKnown, Accounted, OneOrigin
<1> QED
  BY <1>1, <1>2, <1>3 DEF IInv

\* A handle's digests are digests of the system's tokens.
LEMMA HexType ==
    ASSUME TypeOK, OneKey, NEW h \in Handles, pc[h] \in {"save", "return"}
    PROVE  \A v \in Values : HexOf(h, v) \in Hexes
BY VaultAssumption DEF TypeOK, OneKey, KeyHolders, HexOf, Contents

\* What a page adds to the tokens handed out: of its values, with their digests.
LEMMA Handed ==
    ASSUME NEW h \in Handles, Return(h), NEW a \in issued' \ issued
    PROVE  \E v \in batch[h], t \in FieldTiers :
               a = [tenant |-> tenant[h], value |-> v, tier |-> t, hex |-> HexOf(h, v)]
<1>1. PICK places \in SUBSET (batch[h] \X FieldTiers) : issued' = issued \union Handout(h, places)
  BY DEF Return
<1>2. PICK p \in places :
          a = [tenant |-> tenant[h], value |-> p[1], tier |-> p[2], hex |-> HexOf(h, p[1])]
  BY <1>1 DEF Handout
<1>3. p[1] \in batch[h] /\ p[2] \in FieldTiers
  OBVIOUS
<1> QED BY <1>2, <1>3

LEMMA TypeStep == IInv /\ [Next]_vars => TypeOK'
<1> SUFFICES ASSUME IInv, [Next]_vars PROVE TypeOK'
  OBVIOUS
<1> USE DEF TypeOK, Goto
<1>0. TypeOK /\ OneKey /\ PendingKnown
  BY DEF IInv
<1>1. ASSUME NEW h \in Handles, Open(h) PROVE TypeOK'
  BY <1>0, <1>1 DEF Open, Contents
<1>2. ASSUME NEW h \in Handles, WriteKey(h) PROVE TypeOK'
  BY <1>0, <1>2 DEF WriteKey, Contents
<1>3. ASSUME NEW h \in Handles, ReadKey(h) PROVE TypeOK'
  BY <1>0, <1>3 DEF ReadKey, Contents
<1>4. ASSUME NEW h \in Handles, CreateTable(h) PROVE TypeOK'
  BY <1>0, <1>4 DEF CreateTable
<1>5. ASSUME NEW h \in Handles, CheckTable(h) PROVE TypeOK'
  BY <1>0, <1>5 DEF CheckTable
<1>6. ASSUME NEW h \in Handles, AlterTable(h) PROVE TypeOK'
  BY <1>0, <1>6 DEF AlterTable
<1>7. ASSUME NEW h \in Handles, Tokenize(h) PROVE TypeOK'
  <2>1. PICK b \in SUBSET Values : /\ batch' = [batch EXCEPT ![h] = b]
                                   /\ wanted' = wanted \union ({tenant[h]} \X b)
    BY <1>7 DEF Tokenize
  <2>2. tenant[h] \in Tenants
    BY <1>0, <1>7 DEF Tokenize, Issuers
  <2> QED
    BY <1>0, <1>7, <2>1, <2>2 DEF Tokenize
<1>8. ASSUME NEW h \in Handles, Save(h) PROVE TypeOK'
  <2>1. rows' \subseteq Rows
    <3>1. CASE rows' = rows
      BY <1>0, <3>1
    <3>2. ASSUME NEW new \in Inserts(h), rows' = Stored(new) PROVE rows' \subseteq Rows
      <4>1. \A r \in new : r \in Rows
        BY <1>0, <1>8, InsertsAre, HexType DEF Save, Rows
      <4> QED
        BY <1>0, <3>2, <4>1 DEF Stored
    <3> QED
      BY <1>8, <3>1, <3>2 DEF Save
  <2> QED
    BY <1>0, <1>8, <2>1 DEF Save
<1>9. ASSUME NEW h \in Handles, Return(h) PROVE TypeOK'
  <2>1. \A v \in batch[h] : HexOf(h, v) \in Hexes /\ tenant[h] \in Tenants
    BY <1>0, <1>9, HexType DEF Return, PendingKnown
  <2>2. \A a \in issued' \ issued : a \in [tenant : Tenants, value : Values, tier : FieldTiers, hex : Hexes]
    <3>1. batch[h] \subseteq Values
      BY <1>0
    <3>2. SUFFICES ASSUME NEW a \in issued' \ issued
                   PROVE  a \in [tenant : Tenants, value : Values, tier : FieldTiers, hex : Hexes]
      OBVIOUS
    <3>3. PICK v \in batch[h], t \in FieldTiers :
              a = [tenant |-> tenant[h], value |-> v, tier |-> t, hex |-> HexOf(h, v)]
      BY <1>9, Handed
    <3> QED
      BY <2>1, <3>1, <3>3
  <2>3. issued' \subseteq [tenant : Tenants, value : Values, tier : FieldTiers, hex : Hexes]
    BY <1>0, <2>2
  <2>4. /\ UNCHANGED <<keyFile, synced, table, rows, tenant, key, wanted>>
        /\ batch' = [batch EXCEPT ![h] = {}] /\ pc' = [pc EXCEPT ![h] = "ready"]
    BY <1>9 DEF Return
  <2>5. batch' \in [Handles -> SUBSET Values]
    BY <1>0, <2>4
  <2> QED
    BY <1>0, <2>3, <2>4, <2>5
<1>10. ASSUME NEW h \in Handles, Fail(h) PROVE TypeOK'
  BY <1>0, <1>10 DEF Fail
<1>11. ASSUME NEW h \in Handles, Drop(h) PROVE TypeOK'
  BY <1>0, <1>11 DEF Drop, Forgotten, Issuers
<1>12. CASE Writeback
  BY <1>0, <1>12 DEF Writeback
<1>13. CASE PowerLoss
  BY <1>0, <1>13 DEF PowerLoss, Forgotten, Issuers, Contents
<1>14. CASE UNCHANGED vars
  BY <1>0, <1>14 DEF vars
<1> QED
  BY <1>1, <1>2, <1>3, <1>4, <1>5, <1>6, <1>7, <1>8, <1>9, <1>10, <1>11, <1>12, <1>13, <1>14
     DEF Next

LEMMA OneKeyStep == IInv /\ [Next]_vars => OneKey'
<1> SUFFICES ASSUME IInv, [Next]_vars PROVE OneKey'
  OBVIOUS
<1> USE VaultAssumption DEF OneKey, KeyHolders, Goto, Contents
<1>0. TypeOK /\ OneKey
  BY DEF IInv
<1>a. /\ pc \in [Handles -> {"idle", "write", "read", "create", "check", "alter", "ready", "save",
                            "return", "failed"}]
      /\ key \in [Handles -> Contents \union {Unset}]
      /\ keyFile \in Contents \union {"absent"}
  BY <1>0 DEF TypeOK
<1>1. ASSUME NEW h \in Handles, Open(h) PROVE OneKey'
  BY <1>0, <1>a, <1>1 DEF Open
<1>2. ASSUME NEW h \in Handles, WriteKey(h) PROVE OneKey'
  BY <1>0, <1>a, <1>2 DEF WriteKey
<1>3. ASSUME NEW h \in Handles, ReadKey(h) PROVE OneKey'
  BY <1>0, <1>a, <1>3 DEF ReadKey
<1>4. ASSUME NEW h \in Handles, CreateTable(h) PROVE OneKey'
  BY <1>0, <1>a, <1>4 DEF CreateTable
<1>5. ASSUME NEW h \in Handles, CheckTable(h) PROVE OneKey'
  BY <1>0, <1>a, <1>5 DEF CheckTable
<1>6. ASSUME NEW h \in Handles, AlterTable(h) PROVE OneKey'
  BY <1>0, <1>a, <1>6 DEF AlterTable
<1>7. ASSUME NEW h \in Handles, Tokenize(h) PROVE OneKey'
  BY <1>0, <1>a, <1>7 DEF Tokenize
<1>8. ASSUME NEW h \in Handles, Save(h) PROVE OneKey'
  BY <1>0, <1>a, <1>8 DEF Save
<1>9. ASSUME NEW h \in Handles, Return(h) PROVE OneKey'
  BY <1>0, <1>a, <1>9 DEF Return
<1>10. ASSUME NEW h \in Handles, Fail(h) PROVE OneKey'
  BY <1>0, <1>a, <1>10 DEF Fail
<1>11. ASSUME NEW h \in Handles, Drop(h) PROVE OneKey'
  BY <1>0, <1>a, <1>11 DEF Drop, Forgotten
<1>12. CASE Writeback
  BY <1>0, <1>a, <1>12 DEF Writeback
<1>13. CASE PowerLoss
  BY <1>0, <1>a, <1>13 DEF PowerLoss, Forgotten
<1>14. CASE UNCHANGED vars
  BY <1>0, <1>14 DEF vars
<1> QED
  BY <1>1, <1>2, <1>3, <1>4, <1>5, <1>6, <1>7, <1>8, <1>9, <1>10, <1>11, <1>12, <1>13, <1>14
     DEF Next

LEMMA PendingStep == IInv /\ [Next]_vars => PendingKnown'
<1> SUFFICES ASSUME IInv, [Next]_vars PROVE PendingKnown'
  OBVIOUS
<1> USE DEF PendingKnown, Goto
<1>0. TypeOK /\ PendingKnown
  BY DEF IInv
<1>a. /\ pc \in [Handles -> {"idle", "write", "read", "create", "check", "alter", "ready", "save",
                            "return", "failed"}]
      /\ tenant \in [Handles -> Issuers]
      /\ batch \in [Handles -> SUBSET Values]
  BY <1>0 DEF TypeOK
<1>1. ASSUME NEW h \in Handles, Open(h) PROVE PendingKnown'
  BY <1>0, <1>a, <1>1 DEF Open
<1>2. ASSUME NEW h \in Handles, WriteKey(h) PROVE PendingKnown'
  BY <1>0, <1>a, <1>2 DEF WriteKey
<1>3. ASSUME NEW h \in Handles, ReadKey(h) PROVE PendingKnown'
  BY <1>0, <1>a, <1>3 DEF ReadKey
<1>4. ASSUME NEW h \in Handles, CreateTable(h) PROVE PendingKnown'
  BY <1>0, <1>a, <1>4 DEF CreateTable
<1>5. ASSUME NEW h \in Handles, CheckTable(h) PROVE PendingKnown'
  BY <1>0, <1>a, <1>5 DEF CheckTable
<1>6. ASSUME NEW h \in Handles, AlterTable(h) PROVE PendingKnown'
  BY <1>0, <1>a, <1>6 DEF AlterTable
<1>7. ASSUME NEW h \in Handles, Tokenize(h) PROVE PendingKnown'
  <2>1. PICK b \in SUBSET Values : /\ batch' = [batch EXCEPT ![h] = b]
                                   /\ wanted' = wanted \union ({tenant[h]} \X b)
    BY <1>7 DEF Tokenize
  <2>2. tenant[h] \in Tenants /\ tenant' = tenant /\ pc' = [pc EXCEPT ![h] = "save"]
    BY <1>a, <1>7 DEF Tokenize, Issuers
  <2>3. ASSUME NEW g \in Handles, pc'[g] \in {"save", "return"}
        PROVE  tenant'[g] \in Tenants /\ {tenant'[g]} \X batch'[g] \subseteq wanted'
    <3>1. CASE g = h
      BY <1>a, <2>1, <2>2, <3>1
    <3>2. CASE g # h
      BY <1>0, <1>a, <2>1, <2>2, <2>3, <3>2
    <3> QED
      BY <3>1, <3>2
  <2> QED
    BY <2>3
<1>8. ASSUME NEW h \in Handles, Save(h) PROVE PendingKnown'
  BY <1>0, <1>a, <1>8 DEF Save
<1>9. ASSUME NEW h \in Handles, Return(h) PROVE PendingKnown'
  BY <1>0, <1>a, <1>9 DEF Return
<1>10. ASSUME NEW h \in Handles, Fail(h) PROVE PendingKnown'
  BY <1>0, <1>a, <1>10 DEF Fail
<1>11. ASSUME NEW h \in Handles, Drop(h) PROVE PendingKnown'
  BY <1>0, <1>a, <1>11 DEF Drop, Forgotten
<1>12. CASE Writeback
  BY <1>0, <1>a, <1>12 DEF Writeback
<1>13. CASE PowerLoss
  BY <1>0, <1>a, <1>13 DEF PowerLoss, Forgotten
<1>14. CASE UNCHANGED vars
  BY <1>0, <1>14 DEF vars
<1> QED
  BY <1>1, <1>2, <1>3, <1>4, <1>5, <1>6, <1>7, <1>8, <1>9, <1>10, <1>11, <1>12, <1>13, <1>14
     DEF Next

\* Only Save changes the rows, and only with rows of its own handle.
LEMMA RowsStep ==
    ASSUME IInv, [Next]_vars
    PROVE  \/ rows' = rows
           \/ \E h \in Handles : Save(h) /\ \E new \in Inserts(h) : rows' = Stored(new)
BY DEF Next, Open, WriteKey, ReadKey, CreateTable, CheckTable, AlterTable, Tokenize, Save, Return,
       Fail, Drop, Writeback, PowerLoss, vars

LEMMA HistoryStep ==
    ASSUME IInv, [Next]_vars
    PROVE  /\ wanted \subseteq wanted'
           /\ issued' = issued \/ \E h \in Handles : Return(h)
BY DEF Next, Open, WriteKey, ReadKey, CreateTable, CheckTable, AlterTable, Tokenize, Save, Return,
       Fail, Drop, Writeback, PowerLoss, vars

\* The key file is only made, kept or lost; it is never another key.
LEMMA KeyFileStep ==
    ASSUME IInv, [Next]_vars, keyFile' \in Keys
    PROVE  keyFile' = keyFile \/ \E h \in Handles : WriteKey(h)
BY VaultAssumption DEF Next, Open, WriteKey, ReadKey, CreateTable, CheckTable, AlterTable, Tokenize, Save, Return,
       Fail, Drop, Writeback, PowerLoss, vars

LEMMA AccountedStep == IInv /\ [Next]_vars => Accounted'
<1> SUFFICES ASSUME IInv, [Next]_vars PROVE Accounted'
  OBVIOUS
<1>0. PendingKnown /\ Accounted
  BY DEF IInv
<1>1. CASE rows' = rows
  BY <1>0, <1>1, HistoryStep DEF Accounted
<1>2. ASSUME NEW h \in Handles, Save(h), NEW new \in Inserts(h), rows' = Stored(new)
      PROVE  Accounted'
  <2>1. \A r \in new : <<r.tenant, r.value>> \in wanted
    BY <1>0, <1>2, InsertsAre DEF PendingKnown, Save
  <2> QED
    BY <1>0, <1>2, <2>1, HistoryStep DEF Accounted, Stored
<1> QED
  BY <1>1, <1>2, RowsStep

LEMMA OriginStep == IInv /\ [Next]_vars => OneOrigin'
<1> SUFFICES ASSUME IInv, [Next]_vars PROVE OneOrigin'
  OBVIOUS
<1>0. TypeOK /\ OneKey /\ PendingKnown /\ OneOrigin
  BY DEF IInv
<1>1. CASE \E h \in Handles : WriteKey(h)
  <2>1. PICK h \in Handles : WriteKey(h)
    BY <1>1
  <2>2. rows' = {} /\ issued' = {}
    BY <1>0, <2>1 DEF WriteKey, OneKey
  <2> QED
    BY <2>2 DEF OneOrigin
<1>2. ASSUME NEW h \in Handles, Save(h), NEW new \in Inserts(h), rows' = Stored(new)
      PROVE  OneOrigin'
  <2>1. keyFile \in Keys /\ key[h] = keyFile /\ tenant[h] \in Tenants
    BY <1>0, <1>2 DEF Save, OneKey, KeyHolders, PendingKnown
  <2>2. keyFile' = keyFile /\ issued' = issued
    BY <1>2 DEF Save
  <2>3. MadeWith(keyFile)
    BY <1>0, <2>1 DEF OneOrigin, MadeWith
  <2>4. \A r \in new : r.tenant \in Tenants /\ r.hex = Digest(keyFile, r.tenant, r.value)
    BY <2>1, InsertsAre DEF HexOf
  <2>5. MadeWith(keyFile)'
    BY <1>2, <2>2, <2>3, <2>4 DEF MadeWith, Stored
  <2> QED
    BY <2>1, <2>2, <2>5 DEF OneOrigin
<1>3. ASSUME NEW h \in Handles, Return(h)
      PROVE  OneOrigin'
  <2>1. keyFile \in Keys /\ key[h] = keyFile
    BY <1>0, <1>3 DEF Return, OneKey, KeyHolders
  <2>2. keyFile' = keyFile /\ rows' = rows
    BY <1>3 DEF Return
  <2>3. MadeWith(keyFile)
    BY <1>0, <2>1 DEF OneOrigin, MadeWith
  <2>4. \A a \in issued' : a.hex = Digest(keyFile, a.tenant, a.value)
    <3>1. SUFFICES ASSUME NEW a \in issued' \ issued
                   PROVE  a.hex = Digest(keyFile, a.tenant, a.value)
      BY <2>3 DEF MadeWith
    <3>2. PICK v \in batch[h], t \in FieldTiers :
              a = [tenant |-> tenant[h], value |-> v, tier |-> t, hex |-> HexOf(h, v)]
      BY <1>3, Handed
    <3> QED
      BY <2>1, <3>2 DEF HexOf
  <2>5. MadeWith(keyFile)'
    BY <2>2, <2>3, <2>4 DEF MadeWith
  <2> QED
    BY <2>1, <2>2, <2>5 DEF OneOrigin
<1>4. ASSUME rows' = rows, issued' = issued, keyFile' \in Keys => keyFile' = keyFile
      PROVE  OneOrigin'
  BY <1>0, <1>4 DEF OneOrigin, MadeWith
<1> QED
  BY <1>1, <1>2, <1>3, <1>4, RowsStep, HistoryStep, KeyFileStep

\* Every reachable state of the vault has the inductive invariant.
THEOREM Invariance == Spec => []IInv
<1>1. IInv /\ [Next]_vars => IInv'
  BY TypeStep, OneKeyStep, PendingStep, AccountedStep, OriginStep DEF IInv
<1> QED
  BY <1>1, InitInv, PTL DEF Spec

\* Types of the vault and its handles, for any number of them.
THEOREM TypeCorrect == Spec => []TypeOK
BY Invariance, PTL DEF IInv

\* OneTokenPerTier: one value has one digest on a system, and one token per tier, for any
\* handles that open, fail and die in any order, and across losses of power.
THEOREM OneToken == Spec => []OneTokenPerTier
<1>1. IInv => OneTokenPerTier
  <2> SUFFICES ASSUME IInv, NEW a \in issued, NEW b \in issued,
                      a.tenant = b.tenant, a.value = b.value
               PROVE  a.hex = b.hex /\ (TokenText(a) = TokenText(b) <=> a.tier = b.tier)
    BY DEF OneTokenPerTier
  <2>1. a.hex = b.hex
    BY DEF IInv, OneOrigin, MadeWith
  <2> QED
    BY <2>1 DEF TokenText
<1> QED
  BY <1>1, Invariance, PTL

\* OwnSystemOnly: no handle of a system resolves a value that was not that
\* system's, whatever the digests do.
THEOREM SystemsApart == Spec => []OwnSystemOnly
<1>1. IInv => OwnSystemOnly
  <2> SUFFICES ASSUME IInv, NEW t \in Tenants, NEW x \in Hexes, NEW v \in Resolve(t, x)
               PROVE  <<t, v>> \in wanted
    BY DEF OwnSystemOnly
  <2>1. PICK r \in rows : r.tenant = t /\ r.value = v
    BY VaultAssumption DEF Resolve
  <2> QED
    BY <2>1 DEF IInv, Accounted
<1> QED
  BY <1>1, Invariance, PTL

\* FirstWriteWins: a row, once there, stays as it is.
THEOREM RowsStay == Spec => FirstWriteWins
<1>1. IInv /\ [Next]_vars => [rows \subseteq rows']_rows
  BY RowsStep DEF Stored
<1> QED
  BY <1>1, Invariance, PTL DEF Spec, FirstWriteWins

\* ColumnBeforeUse: whoever added the column, and whatever failed over it.
THEOREM MigratedBeforeUse == Spec => []ColumnBeforeUse
<1> USE DEF ColumnBeforeUse, Goto
<1>1. Init => ColumnBeforeUse
  BY DEF Init
<1>2. IInv /\ ColumnBeforeUse /\ [Next]_vars => ColumnBeforeUse'
  <2> SUFFICES ASSUME IInv, ColumnBeforeUse, [Next]_vars PROVE ColumnBeforeUse'
    OBVIOUS
  <2>1. pc \in [Handles -> {"idle", "write", "read", "create", "check", "alter", "ready", "save",
                            "return", "failed"}]
    BY DEF IInv, TypeOK
  <2>2. table = "tenant" => table' = "tenant"
    BY DEF Next, Open, WriteKey, ReadKey, CreateTable, CheckTable, AlterTable, Tokenize, Save,
           Return, Fail, Drop, Writeback, PowerLoss, vars
  <2>3. ASSUME NEW h \in Handles, CheckTable(h) \/ AlterTable(h) PROVE ColumnBeforeUse'
    BY <2>1, <2>2, <2>3 DEF CheckTable, AlterTable
  <2>4. ASSUME NEW h \in Handles, Tokenize(h) \/ Save(h) \/ Return(h) PROVE ColumnBeforeUse'
    BY <2>1, <2>2, <2>4 DEF Tokenize, Save, Return
  <2>5. ASSUME NEW h \in Handles,
               Open(h) \/ WriteKey(h) \/ ReadKey(h) \/ CreateTable(h) \/ Fail(h) \/ Drop(h)
        PROVE  ColumnBeforeUse'
    BY <2>1, <2>2, <2>5 DEF Open, WriteKey, ReadKey, CreateTable, Fail, Drop, Forgotten
  <2>6. CASE Writeback \/ PowerLoss \/ UNCHANGED vars
    BY <2>1, <2>2, <2>6 DEF Writeback, PowerLoss, Forgotten, vars
  <2> QED
    BY <2>3, <2>4, <2>5, <2>6 DEF Next
<1> QED
  BY <1>1, <1>2, Invariance, PTL DEF Spec

-----------------------------------------------------------------------------
LEMMA Apart ==
    ASSUME NoCollisions, NEW k \in Keys, NEW t \in Tenants, NEW u \in Tenants,
           NEW v \in Values, NEW w \in Values, Digest(k, t, v) = Digest(k, u, w)
    PROVE  t = u /\ v = w
BY DEF NoCollisions

\* After a save every value of the batch has its own row: a row that was there
\* with its digest is the same row.
LEMMA SaveBacks ==
    ASSUME NoCollisions, IInv, NEW h \in Handles, Save(h),
           NEW new \in Inserts(h), rows' = Stored(new), NEW v \in batch[h]
    PROVE  [hex |-> HexOf(h, v), value |-> v, tenant |-> tenant[h]] \in rows'
<1>0. TypeOK /\ OneKey /\ PendingKnown /\ OneOrigin
  BY DEF IInv
<1>1. keyFile \in Keys /\ key[h] = keyFile /\ tenant[h] \in Tenants
  BY <1>0 DEF Save, OneKey, KeyHolders, PendingKnown
<1>2. MadeWith(keyFile)
  BY <1>0, <1>1 DEF OneOrigin, MadeWith
<1>3. batch[h] \subseteq Values /\ rows \subseteq Rows
  BY <1>0 DEF TypeOK
<1>4. PICK r \in new : r.hex = HexOf(h, v)
  BY InsertsAre
<1>5. /\ r.value \in batch[h] /\ r.tenant = tenant[h] /\ r.hex = HexOf(h, r.value)
      /\ r = [hex |-> r.hex, value |-> r.value, tenant |-> r.tenant]
  BY InsertsAre
<1>6. r.value = v
  <2>1. Digest(keyFile, tenant[h], r.value) = Digest(keyFile, tenant[h], v)
    BY <1>1, <1>4, <1>5 DEF HexOf
  <2>2. r.value \in Values /\ v \in Values
    BY <1>3, <1>5
  <2> QED
    BY <1>1, <2>1, <2>2, Apart
<1>7. CASE r.hex \notin Taken
  BY <1>4, <1>5, <1>6, <1>7 DEF Stored
<1>8. CASE r.hex \in Taken
  <2>1. PICK s \in rows : s.hex = r.hex
    BY <1>8 DEF Taken
  <2>2. s \notin OldRows
    BY <1>1, <1>3, <1>4, <2>1 DEF NoCollisions, HexOf
  <2>3. s.tenant \in Tenants /\ s.hex = Digest(keyFile, s.tenant, s.value)
    BY <1>2, <2>2 DEF MadeWith
  <2>4. s.value \in Values /\ s = [hex |-> s.hex, value |-> s.value, tenant |-> s.tenant]
    BY <1>3 DEF Rows
  <2>5. s.tenant = tenant[h] /\ s.value = v
    <3>1. Digest(keyFile, s.tenant, s.value) = Digest(keyFile, tenant[h], v)
      BY <1>1, <1>4, <2>1, <2>3 DEF HexOf
    <3>2. v \in Values
      BY <1>3
    <3> QED
      BY <1>1, <2>3, <2>4, <3>1, <3>2, Apart
  <2>6. [hex |-> HexOf(h, v), value |-> v, tenant |-> tenant[h]] \in rows
    BY <1>4, <2>1, <2>4, <2>5
  <2> QED
    BY <2>6 DEF Stored
<1> QED
  BY <1>7, <1>8

LEMMA BackedStep ==
    ASSUME NoCollisions, IInv, Backed, [Next]_vars
    PROVE  Backed'
<1> USE DEF Goto
<1>0. TypeOK
  BY DEF IInv
<1>a. /\ pc \in [Handles -> {"idle", "write", "read", "create", "check", "alter", "ready", "save",
                            "return", "failed"}]
      /\ key \in [Handles -> Contents \union {Unset}]
      /\ tenant \in [Handles -> Issuers] /\ batch \in [Handles -> SUBSET Values]
  BY <1>0 DEF TypeOK
<1>b. rows \subseteq rows'
  BY RowsStep DEF Stored
\* A handle that stays at "return" keeps what its digests are made of.
<1>c. ASSUME issued' = issued,
             \A g \in Handles : pc'[g] = "return" =>
                /\ pc[g] = "return" /\ key'[g] = key[g] /\ tenant'[g] = tenant[g]
                /\ batch'[g] = batch[g]
      PROVE  Backed'
  BY <1>b, <1>c DEF Backed, HexOf
<1>1. ASSUME NEW h \in Handles, Open(h) PROVE Backed'
  <2>1. issued' = issued
    BY <1>1 DEF Open
  <2> QED
    BY <1>a, <1>c, <1>1, <2>1 DEF Open
<1>2. ASSUME NEW h \in Handles, WriteKey(h) PROVE Backed'
  <2>1. issued' = issued
    BY <1>2 DEF WriteKey
  <2> QED
    BY <1>a, <1>c, <1>2, <2>1 DEF WriteKey
<1>3. ASSUME NEW h \in Handles, ReadKey(h) PROVE Backed'
  <2>1. issued' = issued
    BY <1>3 DEF ReadKey
  <2> QED
    BY <1>a, <1>c, <1>3, <2>1 DEF ReadKey
<1>4. ASSUME NEW h \in Handles, CreateTable(h) PROVE Backed'
  <2>1. issued' = issued
    BY <1>4 DEF CreateTable
  <2> QED
    BY <1>a, <1>c, <1>4, <2>1 DEF CreateTable
<1>5. ASSUME NEW h \in Handles, CheckTable(h) PROVE Backed'
  <2>1. issued' = issued
    BY <1>5 DEF CheckTable
  <2> QED
    BY <1>a, <1>c, <1>5, <2>1 DEF CheckTable
<1>6. ASSUME NEW h \in Handles, AlterTable(h) PROVE Backed'
  <2>1. issued' = issued
    BY <1>6 DEF AlterTable
  <2> QED
    BY <1>a, <1>c, <1>6, <2>1 DEF AlterTable
<1>7. ASSUME NEW h \in Handles, Tokenize(h) PROVE Backed'
  <2>1. issued' = issued
    BY <1>7 DEF Tokenize
  <2> QED
    BY <1>a, <1>c, <1>7, <2>1 DEF Tokenize
<1>8. ASSUME NEW h \in Handles, Fail(h) PROVE Backed'
  <2>1. issued' = issued
    BY <1>8 DEF Fail
  <2> QED
    BY <1>a, <1>c, <1>8, <2>1 DEF Fail
<1>9. ASSUME NEW h \in Handles, Save(h) PROVE Backed'
  <2>1. issued' = issued /\ key' = key /\ tenant' = tenant /\ batch' = batch
    BY <1>9 DEF Save
  <2>2. CASE pc' = [pc EXCEPT ![h] = "failed"]
    BY <1>a, <1>c, <2>1, <2>2
  <2>3. ASSUME NEW new \in Inserts(h), rows' = Stored(new), pc' = [pc EXCEPT ![h] = "return"]
        PROVE  Backed'
    <3>1. ASSUME NEW g \in Handles, pc'[g] = "return", NEW v \in batch[g]
          PROVE  [hex |-> HexOf(g, v), value |-> v, tenant |-> tenant[g]] \in rows'
      <4>1. CASE g = h
        BY <1>9, <2>3, <3>1, <4>1, SaveBacks
      <4>2. CASE g # h
        BY <1>a, <1>b, <2>3, <3>1, <4>2 DEF Backed
      <4> QED
        BY <4>1, <4>2
    <3> QED
      BY <1>b, <2>1, <3>1 DEF Backed, HexOf
  <2> QED
    BY <1>9, <2>2, <2>3 DEF Save
<1>10. ASSUME NEW h \in Handles, Return(h) PROVE Backed'
  <2>1. rows' = rows /\ key' = key /\ tenant' = tenant
    BY <1>10 DEF Return
  <2>2. \A a \in issued' : [hex |-> a.hex, value |-> a.value, tenant |-> a.tenant] \in rows'
    <3>1. ASSUME NEW v \in batch[h]
          PROVE  [hex |-> HexOf(h, v), value |-> v, tenant |-> tenant[h]] \in rows'
      BY <1>10, <2>1, <3>1 DEF Backed, Return
    <3>2. ASSUME NEW a \in issued
          PROVE  [hex |-> a.hex, value |-> a.value, tenant |-> a.tenant] \in rows'
      BY <2>1, <3>2 DEF Backed
    <3>3. ASSUME NEW a \in issued', a \notin issued
          PROVE  [hex |-> a.hex, value |-> a.value, tenant |-> a.tenant] \in rows'
      <4>1. PICK v \in batch[h], t \in FieldTiers :
                a = [tenant |-> tenant[h], value |-> v, tier |-> t, hex |-> HexOf(h, v)]
        BY <1>10, <3>3, Handed
      <4>2. a.hex = HexOf(h, v) /\ a.value = v /\ a.tenant = tenant[h]
        BY <4>1
      <4> QED
        BY <3>1, <4>2
    <3> QED
      BY <3>2, <3>3
  <2>3. \A g \in Handles : pc'[g] = "return" => pc[g] = "return" /\ batch'[g] = batch[g]
    BY <1>a, <1>10 DEF Return
  <2> QED
    BY <2>1, <2>2, <2>3 DEF Backed, HexOf
<1>11. ASSUME NEW h \in Handles, Drop(h) PROVE Backed'
  BY <1>a, <1>c, <1>11 DEF Drop, Forgotten
<1>12. CASE Writeback
  BY <1>c, <1>12 DEF Writeback
<1>13. CASE PowerLoss
  BY <1>c, <1>13 DEF PowerLoss, Forgotten
<1>14. CASE UNCHANGED vars
  BY <1>c, <1>14 DEF vars
<1> QED
  BY <1>1, <1>2, <1>3, <1>4, <1>5, <1>6, <1>7, <1>8, <1>9, <1>10, <1>11, <1>12, <1>13, <1>14
     DEF Next

\* TokensResolve: as long as no two digests collide, every token that left the
\* server resolves on its system to its value and to nothing else.
THEOREM TokensKept ==
    ASSUME NoCollisions
    PROVE  Spec => []TokensResolve
<1>1. Init => Backed
  BY DEF Init, Backed
<1>2. IInv /\ Backed => TokensResolve
  <2> SUFFICES ASSUME IInv, Backed, NEW a \in issued PROVE Resolve(a.tenant, a.hex) = {a.value}
    BY DEF TokensResolve
  <2>1. a.tenant \in Tenants /\ a.value \in Values
    BY DEF IInv, TypeOK
  <2>2. [hex |-> a.hex, value |-> a.value, tenant |-> a.tenant] \in rows
    BY DEF Backed
  <2>3. PICK k \in Keys : MadeWith(k)
    BY DEF IInv, OneOrigin
  <2>4. ASSUME NEW s \in rows, s.hex = a.hex, s.tenant = a.tenant PROVE s.value = a.value
    <3>1. s.tenant \in Tenants /\ s.hex = Digest(k, s.tenant, s.value)
      <4>1. s \notin OldRows
        BY VaultAssumption, <2>1, <2>4
      <4> QED
        BY <2>3, <4>1 DEF MadeWith
    <3>2. a.hex = Digest(k, a.tenant, a.value)
      BY <2>3 DEF MadeWith
    <3>3. s.value \in Values
      BY DEF IInv, TypeOK, Rows
    <3> QED
      <4>1. Digest(k, s.tenant, s.value) = Digest(k, a.tenant, a.value)
        BY <2>4, <3>1, <3>2
      <4> QED
        BY <2>1, <3>1, <3>3, <4>1, Apart
  <2>5. a.tenant # Unset
    BY VaultAssumption, <2>1
  <2>6. a.value \in Resolve(a.tenant, a.hex)
    BY <2>2 DEF Resolve
  <2>7. \A v \in Resolve(a.tenant, a.hex) : v = a.value
    BY <2>4, <2>5 DEF Resolve
  <2> QED
    BY <2>6, <2>7
<1>3. IInv /\ Backed /\ [Next]_vars => Backed'
  BY BackedStep
<1> QED
  BY <1>1, <1>2, <1>3, Invariance, PTL DEF Spec

-----------------------------------------------------------------------------
(* The walk: what the filter shows *)

\* A filter that is on: its tier, and the tiers its map gives.
IsFilter(pii) == pii.tier \in 1..3 /\ IsMap(pii.map) /\ "*" \in DOMAIN pii.map

LEMMA FieldsInMap ==
    ASSUME NEW map, IsMap(map), NEW e, NEW f \in DOMAIN FieldsOf(map, e)
    PROVE  e \in DOMAIN map /\ f \in DOMAIN map[e] /\ FieldsOf(map, e)[f] = map[e][f]
<1>1. CASE e \in DOMAIN map
  BY <1>1 DEF FieldsOf
<1>2. CASE e \notin DOMAIN map
  BY <1>2 DEF FieldsOf
<1> QED BY <1>1, <1>2

\* The filter of every configuration the system may have is one, or is off.
LEMMA FilterIsOne ==
    ASSUME NEW c \in Configs
    PROVE  FilterOf(c).tier = 0 \/ IsFilter(FilterOf(c))
<1>1. FilterOf(c).tier \in 0..3
  BY ConfigsAssumption DEF FilterOf, TierFor
<1>2. IsMap(Merged(c.extra))
  <2>0. DOMAIN Merged(c.extra) \intersect {"none", AnyEntity} = {}
    BY ConfigsAssumption, MapAssumption DEF Merged, IsMap
  <2> SUFFICES ASSUME NEW e \in DOMAIN Merged(c.extra), NEW f \in DOMAIN Merged(c.extra)[e]
               PROVE  f # "Value" /\ Merged(c.extra)[e][f] \in 1..3
    BY <2>0 DEF IsMap
  <2>1. f \in DOMAIN FieldsOf(c.extra, e) \union DOMAIN FieldsOf(BuiltIn, e)
    BY DEF Merged
  <2>2. IsMap(c.extra) /\ IsMap(BuiltIn)
    BY ConfigsAssumption, MapAssumption
  <2>3. CASE f \in DOMAIN FieldsOf(c.extra, e)
    <3>1. Merged(c.extra)[e][f] = c.extra[e][f]
      BY <2>1, <2>3 DEF Merged
    <3> QED BY <2>2, <2>3, <3>1, FieldsInMap DEF IsMap
  <2>4. CASE f \notin DOMAIN FieldsOf(c.extra, e)
    <3>1. Merged(c.extra)[e][f] = BuiltIn[e][f]
      BY <2>1, <2>4 DEF Merged
    <3> QED BY <2>1, <2>2, <2>4, <3>1, FieldsInMap DEF IsMap
  <2> QED BY <2>3, <2>4
<1>3. "*" \in DOMAIN Merged(c.extra)
  BY MapAssumption DEF Merged
<1> QED BY <1>1, <1>2, <1>3 DEF IsFilter, FilterOf

LEMMA LeastOf ==
    ASSUME NEW S \in SUBSET (1..3), S # {}
    PROVE  Least(S) \in S /\ \A m \in S : Least(S) <= m
<1>1. \E n \in S : \A m \in S : n <= m
  <2>1. CASE 1 \in S
    BY <2>1
  <2>2. CASE 1 \notin S /\ 2 \in S
    BY <2>2
  <2>3. CASE 1 \notin S /\ 2 \notin S
    <3>1. \A n \in S : n = 3
      BY <2>3
    <3>2. PICK n \in S : TRUE
      OBVIOUS
    <3> QED BY <3>1, <3>2
  <2> QED BY <2>1, <2>2, <2>3
<1> QED BY <1>1 DEF Least

LEMMA RuleIsTiers ==
    ASSUME NEW pii, IsFilter(pii), NEW entity, NEW f
    PROVE  Rule(pii.map, entity, f) \in SUBSET (1..3)
<1>1. IsMap(pii.map) /\ "*" \in DOMAIN pii.map
  BY DEF IsFilter
<1>2. Tiers(pii.map, f) \in SUBSET (1..3)
  BY <1>1 DEF Tiers, IsMap
<1>3. f \in DOMAIN FieldsOf(pii.map, entity) => FieldsOf(pii.map, entity)[f] \in 1..3
  BY <1>1, FieldsInMap DEF IsMap
<1>4. f \in DOMAIN pii.map["*"] => pii.map["*"][f] \in 1..3
  BY <1>1 DEF IsMap
<1> QED BY <1>2, <1>3, <1>4 DEF Rule

\* A tier the filter covers; 0 only where every rule is above it.
LEMMA TierWithin ==
    ASSUME NEW pii, IsFilter(pii), NEW entity, NEW f
    PROVE  /\ Tier(pii, entity, f) \in 0..pii.tier
           /\ Tier(pii, entity, f) = 0 => \A t \in Rule(pii.map, entity, f) : t > pii.tier
<1> DEFINE rule == Rule(pii.map, entity, f)
           least == Least(rule)
           tier == Tier(pii, entity, f)
<1>1. rule \in SUBSET (1..3) /\ pii.tier \in 1..3
  BY RuleIsTiers DEF IsFilter
<1>2. CASE rule = {}
  BY <1>1, <1>2 DEF Tier
<1>3. CASE rule # {}
  <2>1. least \in rule /\ \A m \in rule : least <= m
    BY <1>1, <1>3, LeastOf
  <2>2. tier = IF least <= pii.tier THEN least ELSE 0
    BY <1>3 DEF Tier
  <2> HIDE DEF rule, least, tier
  <2>3. least \in 1..3 /\ \A m \in rule : m \in 1..3 /\ least <= m
    BY <1>1, <2>1
  <2>4. tier \in 0..pii.tier
    BY <1>1, <2>2, <2>3
  <2>5. tier = 0 => \A t \in rule : t > pii.tier
    BY <1>1, <2>2, <2>3
  <2> QED BY <2>4, <2>5 DEF rule, tier
<1> QED BY <1>2, <1>3

LEMMA TokenIs ==
    ASSUME NEW tier, NEW f, NEW value
    PROVE  /\ Token(tier, f, value).kind \in {"token", "redacted"}
           /\ Token(tier, f, value).tier = tier
           /\ Token(tier, f, value).kind = "token" => Token(tier, f, value).value = value
  BY DEF Token

\* A cell before the walk has a value where it can become a token.
LEMMA CellIs ==
    ASSUME NEW cell \in Cells
    PROVE  /\ cell.kind \in {"gone", "link", "nested", "text", "texts", "number"}
           /\ cell.kind \in {"text", "texts", "number"} =>
                 cell.value \in DOMAIN Spelling \ {Foreign}
  BY DEF Cells, Gone

\* What a walk of a record makes of a cell: no link is left; a token has a tier the
\* filter covers and a value of the record; and where entities nobody has reviewed
\* fail closed, a text is left only by an entity of the map and no rule.
WalkedWell(pii, own, f, cell, failClosed) ==
    /\ cell.kind # "link"
    /\ cell.kind \in {"token", "redacted"} => cell.tier \in 1..pii.tier
    /\ cell.kind \in {"token", "text", "number"} => cell.value \in DOMAIN Spelling \ {Foreign}
    /\ (failClosed /\ cell.kind = "text") =>
          own \in DOMAIN pii.map /\ \A t \in Rule(pii.map, own, f) : t > pii.tier

\* The walk of one record, before its property bag is looked at.
CellWalked(pii, cell, judged, f) ==
    LET tier == Tier(pii, judged.entity, f) IN
    CASE cell.kind = "link" -> Gone
      [] cell.kind \in {"text", "texts"} /\ judged.unknown -> Token(1, f, cell.value)
      [] cell.kind \in Scalars /\ tier # 0 /\ ~(cell.kind = "text" /\ judged.unknown) ->
           Token(tier, f, cell.value)
      [] OTHER -> cell

LEMMA CellWalkedWell ==
    ASSUME NEW pii, IsFilter(pii), NEW type, NEW top, NEW v4, NEW failClosed \in BOOLEAN,
           NEW f, NEW cell \in Cells
    PROVE  WalkedWell(pii, IF type = "none" THEN top ELSE type, f,
                      CellWalked(pii, cell, Judged(pii, type, top, v4, failClosed), f),
                      failClosed)
<1> DEFINE judged == Judged(pii, type, top, v4, failClosed)
           own == IF type = "none" THEN top ELSE type
           tier == Tier(pii, judged.entity, f)
           out == CellWalked(pii, cell, judged, f)
           values == DOMAIN Spelling \ {Foreign}
<1>1. /\ cell.kind \in {"gone", "link", "nested", "text", "texts", "number"}
      /\ cell.kind \in {"text", "texts", "number"} => cell.value \in values
  BY CellIs
<1>2. pii.tier \in 1..3 /\ tier \in 0..pii.tier
  BY TierWithin DEF IsFilter
<1>3. judged.unknown \in BOOLEAN
  BY DEF Judged
<1>4. CASE cell.kind = "link"
  <2>1. out = Gone
    BY <1>4 DEF CellWalked, Scalars
  <2> QED BY <2>1 DEF Gone, WalkedWell
<1>5. CASE cell.kind \in {"text", "texts"} /\ judged.unknown
  <2>1. out = Token(1, f, cell.value)
    BY <1>5 DEF CellWalked, Scalars
  <2> QED BY <1>1, <1>2, <1>5, <2>1, TokenIs DEF WalkedWell
<1>6. CASE cell.kind \in Scalars /\ tier # 0 /\ ~(cell.kind = "text" /\ judged.unknown)
  <2>1. out = Token(tier, f, cell.value)
    BY <1>6 DEF CellWalked, Scalars
  <2>2. tier \in 1..pii.tier /\ cell.value \in values
    BY <1>1, <1>2, <1>6 DEF Scalars
  <2> HIDE DEF tier
  <2> QED BY <2>1, <2>2, TokenIs DEF WalkedWell
<1>7. CASE /\ cell.kind # "link" /\ ~(cell.kind \in {"text", "texts"} /\ judged.unknown)
           /\ ~(cell.kind \in Scalars /\ tier # 0 /\ ~(cell.kind = "text" /\ judged.unknown))
  <2>1. out = cell
    BY <1>7 DEF CellWalked
  <2>2. (failClosed /\ cell.kind = "text") =>
            own \in DOMAIN pii.map /\ \A t \in Rule(pii.map, own, f) : t > pii.tier
    <3> SUFFICES ASSUME failClosed = TRUE, cell.kind = "text"
                 PROVE  own \in DOMAIN pii.map /\ \A t \in Rule(pii.map, own, f) : t > pii.tier
      OBVIOUS
    <3>1. judged.unknown = FALSE /\ tier = 0
      BY <1>3, <1>7 DEF Scalars
    <3>2. judged = Judged(pii, type, top, v4, TRUE)
      OBVIOUS
    <3>3. own \in DOMAIN pii.map /\ judged.entity = own
      <4>1. ~Judged(pii, type, top, v4, TRUE).unknown
        BY <3>1, <3>2
      <4>2. /\ (IF type = "none" THEN top ELSE type) \in DOMAIN pii.map
            /\ Judged(pii, type, top, v4, TRUE).entity = IF type = "none" THEN top ELSE type
        BY <4>1 DEF Judged
      <4> QED BY <3>2, <4>2
    <3> QED BY <3>1, <3>3, TierWithin
  <2> QED BY <1>1, <1>7, <2>1, <2>2 DEF WalkedWell
<1> QED BY <1>4, <1>5, <1>6, <1>7

\* What the record at a place is judged as, and its cells before its property bag is
\* looked at: by its own type, the record asked for falling back on the entity asked.
JudgedAt(pii, record, top, v4, failClosed, p) ==
    Judged(pii, record.type[p], IF p = <<>> THEN top ELSE Below(top), v4, failClosed)
Before(pii, record, top, v4, failClosed, p) ==
    [f \in Fields |->
        CellWalked(pii, record.cells[p][f], JudgedAt(pii, record, top, v4, failClosed, p), f)]

\* The walk of a whole record, place by place.
LEMMA VisitIs ==
    ASSUME NEW pii, NEW P, NEW record \in Records(P), NEW top, NEW v4, NEW failClosed,
           NEW p \in P
    PROVE  Visit(pii, record, top, v4, failClosed).cells[p]
             = Bagged(pii, JudgedAt(pii, record, top, v4, failClosed, p).unknown,
                        Before(pii, record, top, v4, failClosed, p))
<1>1. /\ record = [type |-> record.type, cells |-> record.cells]
      /\ DOMAIN record.type = P
  BY DEF Records
<1>2. Visit(pii, record, top, v4, failClosed)
        = [record EXCEPT !.cells = [q \in P |->
              Bagged(pii, JudgedAt(pii, record, top, v4, failClosed, q).unknown,
                       Before(pii, record, top, v4, failClosed, q))]]
  BY <1>1 DEF Visit, Places, CellWalked, JudgedAt, Before
<1> QED BY <1>1, <1>2

\* The walk of a whole record: every cell of every place is walked well.
LEMMA VisitWell ==
    ASSUME NEW pii, IsFilter(pii), NEW P, NEW record \in Records(P),
           NEW top, NEW v4, NEW failClosed \in BOOLEAN
    PROVE  LET out == Visit(pii, record, top, v4, failClosed)
               own(p) == IF record.type[p] = "none" /\ p = <<>> THEN top ELSE record.type[p]
           IN  /\ Places(out) = P
               /\ \A p \in P, f \in Fields :
                     WalkedWell(pii, own(p), f, out.cells[p][f], failClosed)
<1> DEFINE out == Visit(pii, record, top, v4, failClosed)
           asked(p) == IF p = <<>> THEN top ELSE Below(top)
           own(p) == IF record.type[p] = "none" /\ p = <<>> THEN top ELSE record.type[p]
           judged(p) == JudgedAt(pii, record, top, v4, failClosed, p)
           before(p) == Before(pii, record, top, v4, failClosed, p)
<1>1. /\ record = [type |-> record.type, cells |-> record.cells]
      /\ DOMAIN record.type = P
      /\ \A p \in P : \A f \in Fields : record.cells[p][f] \in Cells
  BY DEF Records
<1>2. \A p \in P : own(p) = IF record.type[p] = "none" THEN asked(p) ELSE record.type[p]
  BY DEF Below
<1>3. Places(out) = P
  BY <1>1 DEF Visit, Places
<1>4. \A p \in P : out.cells[p] = Bagged(pii, judged(p).unknown, before(p))
  BY VisitIs
<1>5. ASSUME NEW p \in P, NEW f \in Fields
      PROVE  WalkedWell(pii, own(p), f, out.cells[p][f], failClosed)
  <2>1. \A g \in Fields : /\ before(p)[g] = CellWalked(pii, record.cells[p][g], judged(p), g)
                            /\ WalkedWell(pii, own(p), g, before(p)[g], failClosed)
    BY <1>1, <1>2, CellWalkedWell DEF Before, JudgedAt
  <2> DEFINE cells == before(p)
             name == cells["Name"]
             value == cells["Value"]
             tier == Tier(pii, "*", name.value)
             bagged == Bagged(pii, judged(p).unknown, cells)
  <2>2. DOMAIN cells = Fields
    BY DEF Before
  <2> HIDE DEF cells
  <2>3. CASE bagged[f] = cells[f]
    BY <1>4, <2>1, <2>3 DEF cells
  <2>4. CASE bagged[f] # cells[f]
    <3>1. f = "Value" /\ value.kind \in Scalars /\ tier # 0
          /\ bagged[f] = Token(tier, name.value, value.value)
      BY <2>2, <2>4 DEF Bagged
    <3>2. tier \in 1..pii.tier
      BY <3>1, TierWithin DEF IsFilter
    <3>3. value.value \in DOMAIN Spelling \ {Foreign}
      BY <2>1, <3>1 DEF cells, WalkedWell, Scalars
    <3> HIDE DEF tier
    <3> QED BY <1>4, <3>1, <3>2, <3>3, TokenIs DEF WalkedWell, cells
  <2> QED BY <2>3, <2>4
<1> QED BY <1>3, <1>5

\* What a leaf leaves as: a token of a value the vault may hold, or its text, inside a
\* CompoundEmployee only in a segment of the map.
LEMMA LeafWell ==
    ASSUME NEW pii, IsFilter(pii), NEW leaf \in Leaves
    PROVE  /\ Leaf(pii, leaf).kind = "token" =>
                 Leaf(pii, leaf).value \in DOMAIN Spelling \ {Foreign}
           /\ Leaf(pii, leaf).kind = "text" =>
                 leaf.segment \in DOMAIN pii.map \/ ~leaf.inside
<1>1. leaf.inside \in BOOLEAN /\ leaf.value \in DOMAIN Spelling \ {Foreign}
  BY LeavesAssumption
<1>2. ASSUME leaf.segment \notin DOMAIN pii.map, leaf.inside = TRUE
      PROVE  Leaf(pii, leaf) = Token(1, leaf.field, leaf.value)
  BY <1>2 DEF Leaf
<1>3. \E tier : Leaf(pii, leaf) = IF tier = 0 THEN [kind |-> "text", value |-> leaf.value]
                                    ELSE Token(tier, leaf.field, leaf.value)
  BY DEF Leaf
<1>4. CASE Leaf(pii, leaf) = [kind |-> "text", value |-> leaf.value]
  <2>1. Leaf(pii, leaf).kind = "text"
    BY <1>4
  <2>2. leaf.segment \in DOMAIN pii.map \/ leaf.inside = FALSE
    <3> SUFFICES ASSUME leaf.segment \notin DOMAIN pii.map, leaf.inside # FALSE
                 PROVE  FALSE
      OBVIOUS
    <3>1. Leaf(pii, leaf) = Token(1, leaf.field, leaf.value)
      BY <1>1, <1>2
    <3>2. Token(1, leaf.field, leaf.value).kind \in {"token", "redacted"}
      BY TokenIs
    <3> QED BY <2>1, <3>1, <3>2
  <2> QED BY <2>1, <2>2
<1>5. CASE \E tier : Leaf(pii, leaf) = Token(tier, leaf.field, leaf.value)
  BY <1>1, <1>5 DEF Token
<1> QED BY <1>3, <1>4, <1>5

\* What a walk leaves for the vault are values it may hold.
LEMMA PendingWell ==
    ASSUME NEW pii, IsFilter(pii), NEW P, NEW record \in Records(P),
           NEW top, NEW v4, NEW failClosed \in BOOLEAN
    PROVE  Pending(Visit(pii, record, top, v4, failClosed)) \subseteq DOMAIN Spelling \ {Foreign}
<1> DEFINE out == Visit(pii, record, top, v4, failClosed)
<1>1. \A p \in Places(out), f \in Fields :
         out.cells[p][f].kind = "token" => out.cells[p][f].value \in DOMAIN Spelling \ {Foreign}
  BY VisitWell DEF WalkedWell
<1> HIDE DEF out
<1>2. Pending(out) \subseteq DOMAIN Spelling \ {Foreign}
  BY <1>1 DEF Pending
<1> QED BY <1>2 DEF out

\* Without a filter a page has no tokens and leaves nothing for the vault.
LEMMA PlainPending ==
    ASSUME NEW P, NEW record \in Records(P)
    PROVE  /\ Places(record) = P
           /\ \A p \in P, f \in Fields : record.cells[p][f].kind \notin TokenKinds
           /\ Pending(record) = {}
<1>1. Places(record) = P /\ \A p \in P : \A f \in Fields : record.cells[p][f] \in Cells
  BY DEF Records, Places
<1>2. \A p \in P, f \in Fields : record.cells[p][f].kind \notin TokenKinds
  BY <1>1, CellIs DEF TokenKinds
<1>3. Pending(record) = {}
  BY <1>1, <1>2 DEF Pending, TokenKinds
<1> QED BY <1>1, <1>2, <1>3

-----------------------------------------------------------------------------
\* The two are inductive together: what is shown is shown in the step that walks it,
\* with the filter of the configuration.
ExchangeInv == ExchangeTypeOK /\ FailsClosed

\* The filter that is on is one.
LEMMA PiiIsFilter ==
    ASSUME ExchangeTypeOK
    PROVE  Pii.tier = 0 \/ IsFilter(Pii)
  BY FilterIsOne DEF ExchangeTypeOK, Pii

LEMMA ExchangeInvInit ==
    ASSUME ExchangeInit
    PROVE  ExchangeInv
  BY DEF ExchangeInit, ExchangeInv, ExchangeTypeOK, FailsClosed, IsRecord

\* A page that is shown keeps the invariant, for any entity asked and either way of
\* walking it.
LEMMA ShowInv ==
    ASSUME ExchangeInv, NEW p \in Pages, NEW top, NEW failClosed \in BOOLEAN,
           Show(p, top, failClosed), UNCHANGED <<config, subs>>
    PROVE  ExchangeInv'
<1> DEFINE record == p.record
           out == IF Filtered THEN Visit(Pii, record, top, p.v4, failClosed) ELSE record
<1>1. /\ p \in [record : Records(Places(p.record)), top : STRING, v4 : BOOLEAN,
                failClosed : BOOLEAN]
      /\ Pii' = Pii /\ (Filtered <=> Pii.tier # 0) /\ (Filtered' <=> Filtered)
  BY PagesAssumption DEF Pii, Filtered
<1>2. record \in Records(Places(record))
  BY <1>1
<1>3. CASE Filtered /\ step' = "idle" /\ UNCHANGED <<vault, page, shown>>
  BY <1>1, <1>3 DEF ExchangeInv, ExchangeTypeOK, FailsClosed, IsRecord
<1>4. CASE /\ page' = [p EXCEPT !.top = top, !.failClosed = failClosed] /\ shown' = out
           /\ vault' = vault \union Pending(out) /\ step' = "shown"
  <2>1. /\ "record" \in DOMAIN page' /\ page'.record = record /\ page'.top = top
        /\ page'.failClosed = failClosed
    BY <1>1, <1>4
  <2>2. CASE ~Filtered
    <3>1. out = record
      BY <2>2
    <3>2. /\ Pending(out) = {}
          /\ \A q \in Places(out), f \in Fields : out.cells[q][f].kind \notin TokenKinds
      BY <1>2, <3>1, PlainPending
    <3> HIDE DEF out
    <3>3. ExchangeTypeOK'
      BY <1>1, <1>4, <2>2, <3>2 DEF ExchangeInv, ExchangeTypeOK
    <3> QED BY <1>1, <2>1, <2>2, <3>3 DEF ExchangeInv, FailsClosed, IsRecord
  <2>3. CASE Filtered
    <3> DEFINE own(q) == IF record.type[q] = "none" /\ q = <<>> THEN top ELSE record.type[q]
    <3>1. IsFilter(Pii)
      BY <1>1, <2>3, PiiIsFilter DEF ExchangeInv
    <3>2. out = Visit(Pii, record, top, p.v4, failClosed)
      BY <2>3
    <3>3. /\ Places(out) = Places(record)
          /\ \A q \in Places(record), f \in Fields :
                WalkedWell(Pii, own(q), f, out.cells[q][f], failClosed)
      BY <1>2, <3>1, <3>2, VisitWell
    <3>4. Pending(out) \subseteq DOMAIN Spelling \ {Foreign}
      BY <1>2, <3>1, <3>2, PendingWell
    <3> HIDE DEF out
    <3>5. ExchangeTypeOK'
      BY <1>1, <1>4, <2>3, <3>3, <3>4 DEF ExchangeInv, ExchangeTypeOK, WalkedWell, TokenKinds
    <3>6. failClosed => LeftPlain(record, out, top)
      BY <3>3 DEF LeftPlain, WalkedWell
    <3>7. failClosed => LeftPlain(page.record, shown, page.top)'
      BY <1>1, <1>4, <2>1, <3>6 DEF LeftPlain
    <3> QED BY <1>4, <2>1, <3>5, <3>7 DEF ExchangeInv, FailsClosed, IsRecord
  <2> QED BY <2>2, <2>3
<1> QED BY <1>3, <1>4 DEF Show

LEMMA ExchangeStep ==
    ASSUME ExchangeInv, [ExchangeNext]_exchangeVars
    PROVE  ExchangeInv'
<1>1. CASE ReadPage
  <2>1. PICK p \in Pages : Show(p, p.top, p.failClosed)
    BY <1>1 DEF ReadPage
  <2>2. p.failClosed \in BOOLEAN
    BY PagesAssumption
  <2>3. UNCHANGED <<config, subs>>
    BY <1>1 DEF ReadPage, exchange
  <2> QED BY <2>1, <2>2, <2>3, ShowInv
<1>2. CASE ReadLeaf
  <2>1. PICK leaf \in Leaves :
           LET out == IF Filtered THEN Leaf(Pii, leaf) ELSE [kind |-> "text", value |-> leaf.value]
           IN  /\ page' = leaf /\ shown' = out /\ step' = "shown"
               /\ vault' = vault \union (IF out.kind = "token" THEN {out.value} ELSE {})
    BY <1>2 DEF ReadLeaf
  <2>2. /\ UNCHANGED <<config, subs>>
        /\ Pii' = Pii /\ (Filtered <=> Pii.tier # 0) /\ (Filtered' <=> Filtered)
    BY <1>2 DEF ReadLeaf, exchange, Pii, Filtered
  <2>3. "record" \notin DOMAIN page'
    BY <2>1, LeavesAssumption
  <2>4. CASE ~Filtered
    <3>1. vault' = vault
      BY <2>1, <2>4
    <3> QED BY <2>1, <2>2, <2>3, <2>4, <3>1
         DEF ExchangeInv, ExchangeTypeOK, FailsClosed, IsRecord
  <2>5. CASE Filtered
    <3>1. IsFilter(Pii)
      BY <2>2, <2>5, PiiIsFilter DEF ExchangeInv
    <3>2. /\ shown' = Leaf(Pii, leaf) /\ page' = leaf /\ step' = "shown"
          /\ vault' = vault \union (IF shown'.kind = "token" THEN {shown'.value} ELSE {})
      BY <2>1, <2>5
    <3>3. /\ shown'.kind = "token" => shown'.value \in DOMAIN Spelling \ {Foreign}
          /\ shown'.kind = "text" => page'.segment \in DOMAIN Pii.map \/ ~page'.inside
      BY <3>1, <3>2, LeafWell
    <3> QED BY <2>2, <2>3, <2>5, <3>2, <3>3
         DEF ExchangeInv, ExchangeTypeOK, FailsClosed, IsRecord
  <2> QED BY <2>4, <2>5
<1>3. CASE Write
  BY <1>3 DEF Write, ExchangeInv, ExchangeTypeOK, FailsClosed, IsRecord, Filtered, Pii
<1>4. CASE PiiRequest
  <2>1. /\ UNCHANGED <<config, vault, page, shown>> /\ step' \in {"sent", "refused"}
        /\ ~Filtered => UNCHANGED subs
    BY <1>4 DEF PiiRequest
  <2> QED BY <2>1 DEF ExchangeInv, ExchangeTypeOK, FailsClosed, IsRecord, Filtered, Pii
<1>5. CASE Fault
  <2>1. UNCHANGED <<config, vault, page, shown, subs>> /\ step' = "answered"
    BY <1>5 DEF Fault
  <2> QED BY <2>1 DEF ExchangeInv, ExchangeTypeOK, FailsClosed, IsRecord, Filtered, Pii
<1>6. CASE Detail
  <2>1. UNCHANGED <<config, subs>>
    BY <1>6 DEF Detail, exchange
  <2>2. CASE \E p \in Pages : Show(p, "none", TRUE)
    BY <2>1, <2>2, ShowInv
  <2>3. CASE step' = "idle" /\ UNCHANGED <<vault, page, shown>>
    BY <2>1, <2>3 DEF ExchangeInv, ExchangeTypeOK, FailsClosed, IsRecord, Filtered, Pii
  <2> QED BY <1>6, <2>2, <2>3 DEF Detail
<1>7. CASE Done
  BY <1>7 DEF Done, ExchangeInv, ExchangeTypeOK, FailsClosed, IsRecord, Filtered, Pii
<1>8. CASE UNCHANGED exchangeVars
  <2>1. UNCHANGED <<config, vault, step, page, shown, subs>>
    BY <1>8 DEF exchangeVars
  <2>2. LeftPlain(page.record, shown, page.top)' <=> LeftPlain(page.record, shown, page.top)
    BY <2>1 DEF LeftPlain, Pii
  <2> QED BY <2>1, <2>2 DEF ExchangeInv, ExchangeTypeOK, FailsClosed, IsRecord, Filtered, Pii
<1> QED BY <1>1, <1>2, <1>3, <1>4, <1>5, <1>6, <1>7, <1>8 DEF ExchangeNext

\* Types: only values are kept, never another system's, and only under a filter; a
\* token that is shown has a tier the filter covers (tokenize_records).
THEOREM ExchangeTypeCorrect == ExchangeSpec => []ExchangeTypeOK
<1>1. ExchangeInit => ExchangeInv
  BY ExchangeInvInit
<1>2. ExchangeInv /\ [ExchangeNext]_exchangeVars => ExchangeInv'
  BY ExchangeStep
<1>3. ExchangeInv => ExchangeTypeOK
  BY DEF ExchangeInv
<1> QED BY <1>1, <1>2, <1>3, PTL DEF ExchangeSpec

\* Entities and segments nobody has reviewed fail closed (tokenize_records with
\* fail_closed, tokenize_xml): whatever the map, the records and their nesting, no text
\* of theirs is shown.
THEOREM WalkFailsClosed == ExchangeSpec => []FailsClosed
<1>1. ExchangeInit => ExchangeInv
  BY ExchangeInvInit
<1>2. ExchangeInv /\ [ExchangeNext]_exchangeVars => ExchangeInv'
  BY ExchangeStep
<1>3. ExchangeInv => FailsClosed
  BY DEF ExchangeInv
<1> QED BY <1>1, <1>2, <1>3, PTL DEF ExchangeSpec

\* The guard looks out for what the walk hides (protects and tokenize_records): a field
\* that is shown as a token, by its rule or because nobody has reviewed its entity, is
\* one the guard refuses to compare or sort by.  The guard asks by the entity of the
\* path, or by none behind a navigation, whatever the case of the field's name.  Left out
\* are what no name tells it: a property bag's Value, and fields behind a navigation to
\* an entity nobody has reviewed.
THEOREM GuardCoversWalk ==
    ASSUME NEW pii, IsFilter(pii), NEW P, NEW record \in Records(P),
           NEW v4, NEW failClosed \in BOOLEAN,
           NEW entity, entity \notin {"*", AnyEntity}, NEW p \in P, NEW f \in Fields,
           f # "Value",
           IF p = <<>> THEN record.type[p] \in {"none", entity}
                       ELSE record.type[p] \in DOMAIN pii.map \ {"*"},
           Visit(pii, record, entity, v4, failClosed).cells[p][f].kind \in TokenKinds,
           NEW g \in Fields, Lower[g] = Lower[f]
    PROVE  failClosed => Protects(pii, IF p = <<>> THEN entity ELSE AnyEntity, g)
<1> DEFINE asked == IF p = <<>> THEN entity ELSE Below(entity)
           type == record.type[p]
           own == IF type = "none" THEN asked ELSE type
           judged == JudgedAt(pii, record, entity, v4, failClosed, p)
           cell == record.cells[p][f]
           tier == Tier(pii, judged.entity, f)
<1>1. cell \in Cells /\ cell.kind \notin TokenKinds
  BY CellIs DEF Records, TokenKinds
<1>2. Visit(pii, record, entity, v4, failClosed).cells[p][f] = CellWalked(pii, cell, judged, f)
  <2> DEFINE before == Before(pii, record, entity, v4, failClosed, p)
  <2>1. Visit(pii, record, entity, v4, failClosed).cells[p] = Bagged(pii, judged.unknown, before)
    BY VisitIs
  <2>2. before[f] = CellWalked(pii, cell, judged, f) /\ DOMAIN before = Fields
    BY DEF Before
  <2> HIDE DEF before, judged
  <2> QED BY <2>1, <2>2 DEF Bagged
<1>3. judged.unknown = TRUE \/ tier # 0
  <2>1. judged.unknown \in BOOLEAN
    BY DEF Judged, JudgedAt
  <2>2. CASE judged.unknown = FALSE /\ tier = 0
    <3>1. CellWalked(pii, cell, judged, f) \in {Gone, cell}
      BY <2>2 DEF CellWalked
    <3> QED BY <1>1, <1>2, <3>1 DEF Gone, TokenKinds
  <2> QED BY <2>1, <2>2
<1>4. p = <<>> => own = entity
  OBVIOUS
<1>5. p # <<>> => own \in DOMAIN pii.map \ {"*"} \/ type = "none"
  OBVIOUS
<1> SUFFICES ASSUME failClosed
             PROVE  Protects(pii, IF p = <<>> THEN entity ELSE AnyEntity, g)
  OBVIOUS
<1>6. CASE own \notin DOMAIN pii.map
  <2>1. p = <<>>
    BY <1>5, <1>6 DEF Below
  <2> QED BY <1>4, <1>6, <2>1 DEF Protects
<1>7. CASE own \in DOMAIN pii.map
  <2>1. own # "*"
    BY <1>4 DEF Below
  <2>2. judged.unknown = FALSE /\ judged.entity = own
    BY <1>7, <2>1 DEF Judged, JudgedAt
  <2>3. tier # 0
    BY <1>3, <2>2
  <2>4. PICK t \in Rule(pii.map, own, f) : t <= pii.tier
    <3>1. Rule(pii.map, own, f) \in SUBSET (1..3)
      BY RuleIsTiers
    <3>2. Rule(pii.map, own, f) # {} /\ Least(Rule(pii.map, own, f)) <= pii.tier
      BY <2>2, <2>3 DEF Tier
    <3> QED BY <3>1, <3>2, LeastOf
  <2>5. CASE p = <<>>
    BY <1>4, <2>4, <2>5 DEF Protects
  <2>6. CASE p # <<>>
    <3>1. t \in Rule(pii.map, AnyEntity, f)
      BY <1>7, <2>4, FieldsInMap DEF Rule, Tiers, IsFilter
    <3> QED BY <2>4, <2>6, <3>1 DEF Protects
  <2> QED BY <2>5, <2>6
<1> QED BY <1>6, <1>7
=============================================================================
