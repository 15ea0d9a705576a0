----------------------------- MODULE SystemStore -----------------------------
(***************************************************************************)
(* One system directory under SYSTEMS_DIR and the calls of several          *)
(* processes on it (services/system_store.py): install, set_production and  *)
(* delete under the flock of .lock, keypair() without it, crashes anywhere. *)
(* A killed process loses its flock; the stage directory it leaves behind    *)
(* is nobody's any more.  <name>.json is reduced to its production flag, a   *)
(* key or certificate file to the pair it belongs to.                        *)
(***************************************************************************)
CONSTANTS
    Procs,          \* calls under way, in any process or thread
    Pairs,          \* keypairs that may be uploaded
    NoFile, NoProc, NoOp, NoStage, NoPair, Mixed

ASSUME NullAssumption ==
    NoFile \notin Pairs \union BOOLEAN /\ NoProc \notin Procs /\ {NoPair, Mixed} \intersect Pairs = {}

VARIABLES
    canExchange,\* the filesystem can swap two directories in one rename
    json,       \* <name>.json: its production flag, or NoFile
    key, cert,  \* private-key.pem and signing-cert.crt: whose they are, or NoFile
    holder,     \* who holds the flock on .lock
    pc, op,     \* per process: where its call is, and what it asks for
    stage,      \* per process: its stage directory
    seen,       \* per process: the key its keypair() has read
    declared    \* history: the production flag last declared

vars == <<canExchange, json, key, cert, holder, pc, op, stage, seen, declared>>
files == <<json, key, cert>>

Installs == [kind : {"install"}, pair : Pairs, force : BOOLEAN]
Requests == Installs \union [kind : {"environment"}, flag : BOOLEAN]
                     \union {[kind |-> "delete"]}
Stages == [json : BOOLEAN, key : Pairs \union {NoFile}, cert : Pairs \union {NoFile}]

Init ==
    /\ canExchange \in BOOLEAN
    /\ json \in BOOLEAN /\ declared = json
    /\ key = NoFile /\ cert = NoFile
    /\ holder = NoProc
    /\ pc = [p \in Procs |-> "idle"] /\ op = [p \in Procs |-> NoOp]
    /\ stage = [p \in Procs |-> NoStage]
    /\ seen = [p \in Procs |-> NoFile]

HasPair == key # NoFile /\ cert # NoFile

\* The end of a call: the stage directory is removed, the lock released.
Return(p) ==
    /\ pc' = [pc EXCEPT ![p] = "idle"]
    /\ op' = [op EXCEPT ![p] = NoOp]
    /\ stage' = [stage EXCEPT ![p] = NoStage]
    /\ holder' = IF holder = p THEN NoProc ELSE holder

Goto(p, l) == pc' = [pc EXCEPT ![p] = l] /\ UNCHANGED <<op, holder>>

-----------------------------------------------------------------------------
Call(p) ==
    /\ pc[p] = "idle"
    /\ \E r \in Requests : op' = [op EXCEPT ![p] = r]
    /\ pc' = [pc EXCEPT ![p] = "locking"]
    /\ UNCHANGED <<files, holder, stage, seen, declared>>

\* _locked
Lock(p) ==
    /\ pc[p] = "locking" /\ holder = NoProc
    /\ holder' = p
    /\ pc' = [pc EXCEPT ![p] = "locked"]
    /\ UNCHANGED <<files, op, stage, seen, declared>>

\* A check under the lock refuses the call: no such system, a pair already
\* there, or an upload that is no valid pair (always possible).
Refuse(p) ==
    /\ pc[p] = "locked"
    /\ json = NoFile \/ op[p].kind = "install"
    /\ Return(p)
    /\ UNCHANGED <<files, seen, declared>>

\* Mutant: the copy overwrites the new certificate with the old one.
StageKeepsCert(p) ==
    /\ pc[p] = "locked" /\ op[p].kind = "install"
    /\ json # NoFile
    /\ op[p].force \/ ~HasPair
    /\ stage' = [stage EXCEPT ![p] =
                    [json |-> json, key |-> op[p].pair,
                     cert |-> IF cert = NoFile THEN op[p].pair ELSE cert]]
    /\ Goto(p, "staged")
    /\ UNCHANGED <<files, seen, declared>>

\* Mutant: the pair that is there is not looked for again under the lock.
StageAnyway(p) ==
    /\ pc[p] = "locked" /\ op[p].kind = "install"
    /\ json # NoFile
    /\ stage' = [stage EXCEPT ![p] = [json |-> json, key |-> op[p].pair, cert |-> op[p].pair]]
    /\ Goto(p, "staged")
    /\ UNCHANGED <<files, seen, declared>>

\* Mutant: the file is written anew instead of copied.
StageFresh(p) ==
    /\ pc[p] = "locked" /\ op[p].kind = "install"
    /\ json # NoFile
    /\ op[p].force \/ ~HasPair
    /\ stage' = [stage EXCEPT ![p] = [json |-> FALSE, key |-> op[p].pair, cert |-> op[p].pair]]
    /\ Goto(p, "staged")
    /\ UNCHANGED <<files, seen, declared>>

\* install: the checks pass; the directory is copied and the new pair written
\* into the copy.
Stage(p) ==
    /\ pc[p] = "locked" /\ op[p].kind = "install"
    /\ json # NoFile
    /\ op[p].force \/ ~HasPair
    /\ stage' = [stage EXCEPT ![p] = [json |-> json, key |-> op[p].pair, cert |-> op[p].pair]]
    /\ Goto(p, "staged")
    /\ UNCHANGED <<files, seen, declared>>

\* _exchange: the staged directory and the system's change places.
Exchange(p) ==
    /\ pc[p] = "staged" /\ canExchange
    /\ json' = stage[p].json /\ key' = stage[p].key /\ cert' = stage[p].cert
    /\ stage' = [stage EXCEPT ![p] = [json |-> json, key |-> key, cert |-> cert]]
    /\ Goto(p, "installed")
    /\ UNCHANGED <<seen, declared>>

\* The fallback: os.replace of the certificate, then of the key.
ReplaceCert(p) ==
    /\ pc[p] = "staged" /\ ~canExchange
    /\ cert' = stage[p].cert
    /\ Goto(p, "halfway")
    /\ UNCHANGED <<json, key, stage, seen, declared>>

ReplaceKey(p) ==
    /\ pc[p] = "halfway"
    /\ key' = stage[p].key
    /\ Goto(p, "installed")
    /\ UNCHANGED <<json, cert, stage, seen, declared>>

\* TemporaryDirectory and _locked exit; install goes on to keypair(name).
Installed(p) ==
    /\ pc[p] = "installed"
    /\ Return(p)
    /\ UNCHANGED <<files, seen, declared>>

\* set_production: the file is read, then replaced by the edited copy.
ReadFile(p) ==
    /\ pc[p] = "locked" /\ op[p].kind = "environment"
    /\ json # NoFile
    /\ Goto(p, "edited")
    /\ UNCHANGED <<files, stage, seen, declared>>

ReplaceFile(p) ==
    /\ pc[p] = "edited"
    /\ json' = op[p].flag /\ declared' = op[p].flag
    /\ Return(p)
    /\ UNCHANGED <<key, cert, seen>>

\* delete: rmtree unlinks the files in directory order.
BeginDelete(p) ==
    /\ pc[p] = "locked" /\ op[p].kind = "delete"
    /\ json # NoFile
    /\ Goto(p, "removing")
    /\ UNCHANGED <<files, stage, seen, declared>>

Unlink(p) ==
    /\ pc[p] = "removing"
    /\ \/ json # NoFile /\ json' = NoFile /\ UNCHANGED <<key, cert>>
       \/ key # NoFile /\ key' = NoFile /\ UNCHANGED <<json, cert>>
       \/ cert # NoFile /\ cert' = NoFile /\ UNCHANGED <<json, key>>
    /\ UNCHANGED <<holder, pc, op, stage, seen, declared>>

Deleted(p) ==
    /\ pc[p] = "removing"
    /\ json = NoFile /\ key = NoFile /\ cert = NoFile
    /\ Return(p)
    /\ UNCHANGED <<files, seen, declared>>

\* An OSError under the lock (disk full, permission): the call unwinds, what it
\* has already changed stays changed.
Fail(p) ==
    /\ pc[p] \in {"staged", "halfway", "edited", "removing"}
    /\ Return(p)
    /\ UNCHANGED <<files, seen, declared>>

\* keypair(), at any time and without the lock: both files are there, the key
\* is read, then the certificate.
ReadKey(p) ==
    /\ pc[p] = "idle" /\ HasPair
    /\ seen' = [seen EXCEPT ![p] = key]
    /\ Goto(p, "reading")
    /\ UNCHANGED <<files, stage, declared>>

ReadCert(p) ==
    /\ pc[p] = "reading"
    /\ seen' = [seen EXCEPT ![p] = NoFile]
    /\ Return(p)
    /\ UNCHANGED <<files, declared>>

\* The process is killed: the kernel drops its flock, its stage stays.
Kill(p) ==
    /\ pc[p] # "idle"
    /\ seen' = [seen EXCEPT ![p] = NoFile]
    /\ Return(p)
    /\ UNCHANGED <<files, declared>>

\* The operator writes <name>.json, as the toolkit never does.
CreateFile ==
    /\ json = NoFile
    /\ json' \in BOOLEAN /\ declared' = json'
    /\ UNCHANGED <<key, cert, holder, pc, op, stage, seen>>

Step(p) ==
    \/ Call(p) \/ Lock(p) \/ Refuse(p)
    \/ Stage(p) \/ Exchange(p) \/ ReplaceCert(p) \/ ReplaceKey(p) \/ Installed(p)
    \/ ReadFile(p) \/ ReplaceFile(p)
    \/ BeginDelete(p) \/ Unlink(p) \/ Deleted(p)
    \/ Fail(p) \/ ReadKey(p) \/ ReadCert(p) \/ Kill(p)

Next == (CreateFile \/ \E p \in Procs : Step(p)) /\ UNCHANGED canExchange

Spec == Init /\ [][Next]_vars

-----------------------------------------------------------------------------
\* Types of the directory, of the flock, and of the calls of the processes.
TypeOK ==
    /\ canExchange \in BOOLEAN
    /\ json \in BOOLEAN \union {NoFile}
    /\ key \in Pairs \union {NoFile} /\ cert \in Pairs \union {NoFile}
    /\ holder \in Procs \union {NoProc}
    /\ pc \in [Procs -> {"idle", "locking", "locked", "staged", "halfway", "installed",
                         "edited", "removing", "reading"}]
    /\ op \in [Procs -> Requests \union {NoOp}]
    /\ stage \in [Procs -> Stages \union {NoStage}]
    /\ seen \in [Procs -> Pairs \union {NoFile}]
    /\ declared \in BOOLEAN

IsMixed == HasPair /\ key # cert

\* The key and the certificate in the directory are one pair, whoever is killed
\* or fails half way (docstring: "a half-written pair is never visible"), where the
\* filesystem can exchange directories.
PairNeverMixed == canExchange => ~IsMixed

\* The flag on disk is the one last declared: an install, which writes a copy
\* of the whole directory back, never brings an older one back.
FlagNotLost == json # NoFile => json = declared

\* An install without ?force=true never replaces a pair, although its check and
\* its swap are steps apart: concurrent installs do not both succeed.
UnforcedNeverReplaces ==
    [][\A p \in Procs :
          pc[p] = "staged" /\ ~op[p].force /\ (key' # key \/ cert' # cert) => ~HasPair]_vars

\* In the fallback the pair on disk is mixed only while an install stands
\* between its two renames, or from then on if that install died or failed; and
\* the file that is ahead is the certificate.
MixedOnlyByFallback ==
    [][~IsMixed /\ IsMixed' =>
          ~canExchange /\ key' = key /\ \E p \in Procs : pc'[p] = "halfway"]_vars

\* The store implements its promise, on either kind of filesystem.
Promise == INSTANCE SystemPromise WITH
              atomic <- canExchange,
              file <- json,
              pair <- IF ~HasPair THEN NoPair ELSE IF IsMixed THEN Mixed ELSE key
\* Whatever processes do, fail at or die in, a system's directory changes only as
\* SystemPromise allows: a pair as a whole, the flag alone.
KeepsPromise == Promise!Spec
=============================================================================
