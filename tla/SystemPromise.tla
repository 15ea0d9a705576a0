---------------------------- MODULE SystemPromise ----------------------------
(***************************************************************************)
(* What SystemStore promises of one system (services/system_store.py, the   *)
(* module docstring): a keypair is replaced as a whole, in one step where    *)
(* the filesystem allows it, and every other content of the directory        *)
(* survives it; the production flag changes alone; a delete takes the parts  *)
(* of the directory away.                                                    *)
(***************************************************************************)
CONSTANTS Pairs, NoPair, Mixed, NoFile

VARIABLES
    atomic, \* directories can be exchanged
    file,   \* the production flag in <name>.json, or NoFile
    pair    \* the keypair a reader of the directory finds, NoPair, or Mixed: of two

Init ==
    /\ atomic \in BOOLEAN /\ file \in BOOLEAN \union {NoFile}
    /\ pair \in Pairs \union {NoPair}

\* An install: the new pair at once, nothing else.
Install ==
    /\ file # NoFile
    /\ pair' \in Pairs
    /\ UNCHANGED file

\* The fallback has a moment, and after a crash a state, between two pairs.
Half ==
    /\ ~atomic /\ file # NoFile
    /\ pair' = Mixed
    /\ UNCHANGED file

SetProduction ==
    /\ file # NoFile
    /\ file' \in BOOLEAN
    /\ UNCHANGED pair

\* A delete unlinks one file after the other.
RemoveFile == file' = NoFile /\ UNCHANGED pair
RemovePair == pair' = NoPair /\ UNCHANGED file

\* The operator writes <name>.json.
Create == file = NoFile /\ file' \in BOOLEAN /\ UNCHANGED pair

Next ==
    (Install \/ Half \/ SetProduction \/ RemoveFile \/ RemovePair \/ Create) /\ UNCHANGED atomic

Spec == Init /\ [][Next]_<<atomic, file, pair>>
=============================================================================
