----------------------------- MODULE ResultFiles -----------------------------
(***************************************************************************)
(* The files under {results_dir}/mcp that the MCP tools write their results *)
(* to (mcp_server.py), and the clock they are pruned by.  Of the files, the  *)
(* model keeps the pages of one call; the other calls of the process and of   *)
(* other processes write theirs at any time.                                  *)
(***************************************************************************)
EXTENDS Integers

CONSTANTS
    Retention,  \* results_retention_days, in ticks of the clock; 0 keeps files forever
    Budget,     \* max_extract_seconds
    Delay       \* MAX_REQUEST_SECONDS

\* Settings bounds each by itself only; this relation is the deployment's
\* (by default: 1800 s and 600 s to 7 days).
ASSUME DurationsAssumption ==
    /\ Retention \in Nat /\ Budget \in Nat \ {0} /\ Delay \in Nat
    /\ Retention = 0 \/ Budget + Delay <= Retention

VARIABLES
    now,    \* since the call began
    sentAt, \* when the request under way was sent
    disk    \* the files of the call that are there: page and st_mtime

clock == <<now, sentAt>>

InitFiles == now = 0 /\ sentAt = 0 /\ disk = {}

\* Last modified before the cutoff.
Old(file) == Retention # 0 /\ file.at < now - Retention

\* _prune, as _write calls it first.
Pruned == {file \in disk : ~Old(file)}

\* _write of a page: under a name no file has (O_EXCL).
Write(page) == disk' = Pruned \union {[page |-> page, at |-> now]}

\* Another call writes a file.
OthersWrite == disk' = Pruned /\ UNCHANGED clock

\* A request ends within its limit (within_request_limit).
Tick == now < sentAt + Delay /\ now' = now + 1 /\ UNCHANGED <<sentAt, disk>>

Send == sentAt' = now /\ UNCHANGED now

\* ExtractBudget.check_time raises.
Late == now > Budget
=============================================================================
