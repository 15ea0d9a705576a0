------------------------------- MODULE PiiVault -------------------------------
(***************************************************************************)
(* The PII vault (services/pii_filter.py): the HMAC key and the token table  *)
(* that every process of a deployment shares.  A handle is one Vault object; *)
(* it is opened for one request, and handles of several processes open, save *)
(* and die at the same time.  Steps are system calls and SQL transactions.   *)
(***************************************************************************)
EXTENDS FiniteSets

CONSTANTS
    Handles, Tenants, Values,
    FieldTiers,            \* of the fields a value may stand in
    Keys,             \* what secrets.token_bytes may return
    Hexes,            \* the truncated digests
    Digest(_, _, _),  \* of a key, an issuer and a value
    OldRows,          \* of a vault written before rows had a tenant
    Unset

Contents == Keys \union {"empty"}
Issuers == Tenants \union {Unset}
Rows == [hex : Hexes, value : Values, tenant : Issuers]

ASSUME VaultAssumption ==
    /\ \A k \in Contents, t \in Issuers, v \in Values : Digest(k, t, v) \in Hexes
    /\ OldRows \subseteq [hex : Hexes, value : Values, tenant : {Unset}]
    /\ Unset \notin Tenants /\ "empty" \notin Keys /\ "absent" \notin Keys

VARIABLES
    keyFile,   \* "absent", "empty" (created, not written yet) or a key
    synced,    \* whether the key file outlives the machine's power
    table,     \* "none", "old" (no column for the tenant) or "tenant"
    rows,
    pc,        \* the next call of the handle
    tenant,    \* _tenant; Unset for the reveal CLI
    key,       \* _key
    batch,     \* the values whose tokens are pending
    wanted,    \* history: the issuers and values tokenized
    issued     \* history: the tokens handed out

vars == <<keyFile, synced, table, rows, pc, tenant, key, batch, wanted, issued>>

Init ==
    /\ \/ keyFile = "absent" /\ synced = FALSE /\ table = "none" /\ rows = {}
       \/ keyFile \in Keys /\ synced = TRUE /\ table = "old" /\ rows = OldRows
    /\ pc = [h \in Handles |-> "idle"]
    /\ tenant = [h \in Handles |-> Unset] /\ key = [h \in Handles |-> Unset]
    /\ batch = [h \in Handles |-> {}] /\ wanted = {} /\ issued = {}

Goto(h, label) == pc' = [pc EXCEPT ![h] = label]

-----------------------------------------------------------------------------
\* Mutant: an empty key file is one's own to fill.
OpenNotExclusive(h) ==
    /\ pc[h] = "idle"
    /\ \E t \in Issuers :
          (t = Unset => keyFile # "absent") /\ tenant' = [tenant EXCEPT ![h] = t]
    /\ IF keyFile \in {"absent", "empty"}
       THEN keyFile' = "empty" /\ Goto(h, "write")
       ELSE UNCHANGED keyFile /\ Goto(h, "read")
    /\ UNCHANGED <<synced, table, rows, key, batch, wanted, issued>>

\* Vault() for a tenant, or for none: O_CREAT with O_EXCL lets one handle create
\* the key file, empty; every other one reads it.  The reveal CLI looks for the
\* file first.
Open(h) ==
    /\ pc[h] = "idle"
    /\ \E t \in Issuers :
          (t = Unset => keyFile # "absent") /\ tenant' = [tenant EXCEPT ![h] = t]
    /\ IF keyFile = "absent"
       THEN keyFile' = "empty" /\ Goto(h, "write")
       ELSE UNCHANGED keyFile /\ Goto(h, "read")
    /\ UNCHANGED <<synced, table, rows, key, batch, wanted, issued>>

\* The creator writes a random key, or cannot and leaves the file empty.
WriteKey(h) ==
    /\ pc[h] = "write"
    /\ \/ \E k \in Keys : keyFile' = k /\ key' = [key EXCEPT ![h] = k] /\ Goto(h, "create")
       \/ Goto(h, "failed") /\ UNCHANGED <<keyFile, key>>
    /\ UNCHANGED <<synced, table, rows, tenant, batch, wanted, issued>>

\* A key file that holds no whole key is refused, whoever may be filling it.
ReadKey(h) ==
    /\ pc[h] = "read"
    /\ IF keyFile \in Keys
       THEN key' = [key EXCEPT ![h] = keyFile] /\ Goto(h, "create")
       ELSE UNCHANGED key /\ Goto(h, "failed")
    /\ UNCHANGED <<keyFile, synced, table, rows, tenant, batch, wanted, issued>>

\* CREATE TABLE IF NOT EXISTS.
CreateTable(h) ==
    /\ pc[h] = "create"
    /\ table' = IF table = "none" THEN "tenant" ELSE table
    /\ Goto(h, "check")
    /\ UNCHANGED <<keyFile, synced, rows, tenant, key, batch, wanted, issued>>

\* has_tenant_column.
CheckTable(h) ==
    /\ pc[h] = "check"
    /\ Goto(h, IF table = "tenant" THEN "ready" ELSE "alter")
    /\ UNCHANGED <<keyFile, synced, table, rows, tenant, key, batch, wanted, issued>>

\* ALTER TABLE.  If another handle added the column first it fails, and so it does on
\* a locked database: then has_tenant_column tells, or raises an error of its own.
AlterTable(h) ==
    /\ pc[h] = "alter"
    /\ \/ table' = "tenant" /\ Goto(h, "ready")
       \/ UNCHANGED table /\ Goto(h, "failed")
    /\ UNCHANGED <<keyFile, synced, rows, tenant, key, batch, wanted, issued>>

-----------------------------------------------------------------------------
HexOf(h, v) == Digest(key[h], tenant[h], v)

\* tokenize_records, tokenize_xml or tokenize_value: the tokens of a page are
\* computed and pending.  A handle without a tenant issues none.
Tokenize(h) ==
    /\ pc[h] = "ready" /\ tenant[h] # Unset
    /\ \E b \in SUBSET Values \ {{}} :
          /\ batch' = [batch EXCEPT ![h] = b]
          /\ wanted' = wanted \union ({tenant[h]} \X b)
    /\ Goto(h, "save")
    /\ UNCHANGED <<keyFile, synced, table, rows, tenant, key, issued>>

\* What is inserted for a batch: one row for each digest, and of the values that
\* share a digest any one.
Inserts(h) ==
    {new \in SUBSET [hex : {HexOf(h, v) : v \in batch[h]}, value : batch[h], tenant : {tenant[h]}] :
        /\ \A r \in new : r.hex = HexOf(h, r.value)
        /\ \A v \in batch[h] : \E r \in new : r.hex = HexOf(h, v)
        /\ \A r, s \in new : r.hex = s.hex => r = s}

Taken == {r.hex : r \in rows}

\* INSERT OR IGNORE: the first row of a digest stays.
Stored(new) == rows \union {r \in new : r.hex \notin Taken}

\* Mutant: the tokens are handed out before their rows are committed.
SaveLater(h) ==
    /\ pc[h] = "save"
    /\ Goto(h, "return")
    /\ UNCHANGED <<keyFile, synced, table, rows, tenant, key, batch, wanted, issued>>

\* The transaction of save; a locked or full database fails it as a whole.
Save(h) ==
    /\ pc[h] = "save"
    /\ \/ table = "tenant" /\ (\E new \in Inserts(h) : rows' = Stored(new)) /\ Goto(h, "return")
       \/ UNCHANGED rows /\ Goto(h, "failed")
    /\ UNCHANGED <<keyFile, synced, table, tenant, key, batch, wanted, issued>>

Handout(h, shown) ==
    {[tenant |-> tenant[h], value |-> p[1], tier |-> p[2], hex |-> HexOf(h, p[1])] : p \in shown}

\* The page leaves with its tokens, "[PII-T<tier>-<hex>]": each of its values at the
\* tier of the field it stands in, or at those of several fields.
Return(h) ==
    /\ pc[h] = "return"
    /\ \E shown \in SUBSET (batch[h] \X FieldTiers) :
          batch[h] = {p[1] : p \in shown} /\ issued' = issued \union Handout(h, shown)
    /\ batch' = [batch EXCEPT ![h] = {}] /\ Goto(h, "ready")
    /\ UNCHANGED <<keyFile, synced, table, rows, tenant, key, wanted>>

\* Mutant: the column is not part of the query.
ResolveUnscoped(t, x) == {r.value : r \in {s \in rows : s.hex = x}}

\* load: a tenant sees its own rows only, the reveal CLI sees all.
Resolve(t, x) ==
    {r.value : r \in {s \in rows : s.hex = x /\ (t = Unset \/ s.tenant = t)}}

Forgotten(hs) ==
    /\ pc' = [h \in Handles |-> IF h \in hs THEN "idle" ELSE pc[h]]
    /\ tenant' = [h \in Handles |-> IF h \in hs THEN Unset ELSE tenant[h]]
    /\ key' = [h \in Handles |-> IF h \in hs THEN Unset ELSE key[h]]
    /\ batch' = [h \in Handles |-> IF h \in hs THEN {} ELSE batch[h]]

\* A locked database or a full disk in any call of the constructor, the end of a
\* request, or the end of its process.
Fail(h) ==
    /\ pc[h] \in {"create", "check"} /\ Goto(h, "failed")
    /\ UNCHANGED <<keyFile, synced, table, rows, tenant, key, batch, wanted, issued>>

Drop(h) ==
    /\ pc[h] # "idle" /\ Forgotten({h})
    /\ UNCHANGED <<keyFile, synced, table, rows, wanted, issued>>

\* The kernel writes the key file back in its own time: no call asks for it.
Writeback ==
    /\ keyFile \in Keys /\ synced' = TRUE
    /\ UNCHANGED <<keyFile, table, rows, pc, tenant, key, batch, wanted, issued>>

\* The machine stops.  SQLite synced its rows, and the directory with them.
PowerLoss ==
    /\ Forgotten(Handles)
    /\ \/ UNCHANGED keyFile
       \/ ~synced /\ keyFile # "absent" /\ keyFile' = "empty"
       \/ ~synced /\ table = "none" /\ keyFile' = "absent"
    /\ UNCHANGED <<synced, table, rows, wanted, issued>>

Next ==
    \/ \E h \in Handles :
          \/ Open(h) \/ WriteKey(h) \/ ReadKey(h) \/ CreateTable(h) \/ CheckTable(h)
          \/ AlterTable(h) \/ Tokenize(h) \/ Save(h) \/ Return(h) \/ Fail(h) \/ Drop(h)
    \/ Writeback \/ PowerLoss

Spec == Init /\ [][Next]_vars

-----------------------------------------------------------------------------
\* The values of every variable; only a tenant's handle issues tokens.
TypeOK ==
    /\ keyFile \in Contents \union {"absent"}
    /\ synced \in BOOLEAN /\ table \in {"none", "old", "tenant"}
    /\ rows \subseteq Rows
    /\ pc \in [Handles -> {"idle", "write", "read", "create", "check", "alter", "ready", "save",
                           "return", "failed"}]
    /\ tenant \in [Handles -> Issuers]
    /\ key \in [Handles -> Contents \union {Unset}]
    /\ batch \in [Handles -> SUBSET Values]
    /\ wanted \subseteq Tenants \X Values
    /\ issued \subseteq [tenant : Tenants, value : Values, tier : FieldTiers, hex : Hexes]

TokenText(a) == <<a.tier, a.hex>>

\* One value has one digest on one system, whichever process tokenized it and whatever
\* died while the key was being made (a second key, or a key read while it is written,
\* would split the tokens in two), and so one token in the fields of one tier.  It has
\* another one in the fields of another tier, against "the same value always yields
\* the same token" (pii_filter.py:5, docs/MCP_SERVER.md:94): tokens of User.username
\* (tier 2) and User.email (tier 3) do not join, though either resolves to the value.
OneTokenPerTier ==
    \A a, b \in issued : (a.tenant = b.tenant /\ a.value = b.value) =>
        a.hex = b.hex /\ (TokenText(a) = TokenText(b) <=> a.tier = b.tier)

\* A token that left the server resolves on its system to the value it stands
\* for, although handles die at any point and other systems share the table.
TokensResolve == \A a \in issued : Resolve(a.tenant, a.hex) = {a.value}

\* A system's handle resolves nothing but values of that system's own pages: not
\* another system's, not those of a vault from before tokens were bound, and not
\* even if two digests collide.
OwnSystemOnly ==
    \A t \in Tenants, x \in Hexes : \A v \in Resolve(t, x) : <<t, v>> \in wanted

\* What a digest stands for never changes: a file written with its token reveals
\* to the same value for as long as the vault lives.
FirstWriteWins == [][rows \subseteq rows']_rows

\* Tokens are saved and resolved in a table that has the column, whoever added it: a
\* handle that lost the race for it (or its check afterwards) does not go on without.
ColumnBeforeUse == \A h \in Handles : pc[h] \in {"ready", "save", "return"} => table = "tenant"

\* No two (issuer, value) pairs share a digest under one key, and none has the
\* digest of an old row: what 64 bits make likely, and TokensResolve needs.
NoCollisions ==
    /\ \A k \in Keys, t, u \in Tenants, v, w \in Values :
          Digest(k, t, v) = Digest(k, u, w) => t = u /\ v = w
    /\ \A r \in OldRows, k \in Keys, t \in Tenants, v \in Values : r.hex # Digest(k, t, v)
=============================================================================
