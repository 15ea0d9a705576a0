----------------------------- MODULE SystemSelect -----------------------------
(***************************************************************************)
(* Which system a call is for: SystemStore.select and config, read by        *)
(* ODataClient._resolve without a lock, file by file, while the operator      *)
(* edits SYSTEMS_DIR; and how extract_all resolves again for every page.      *)
(* One call, since calls only read.  In the MCP server the plugins are        *)
(* loaded first (see PluginLoader): they decide which other types there are.   *)
(***************************************************************************)
EXTENDS PluginLoader

CONSTANTS
    Systems, Hosts,
    Absent,    \* no <name>.json
    Untyped,   \* not JSON, not an object, or without a string as its type
    Other,     \* of the type OtherType
    OtherType,
    Invalid,   \* of the type, but its model refuses it
    Nothing,
    MaxPages,  \* max_pages of the extract
    MaxEdits,  \* bound: changes of SYSTEMS_DIR during the call
    Serving    \* bound: the entry points a call is followed after

ASSUME CallAssumption ==
    /\ MaxPages \in Nat /\ MaxEdits \in Nat
    /\ Nothing # [code |-> "system_unknown", by |-> "default"]

Good == [host : Hosts, version : {"v2", "v4"}]
Kinds == {Absent, Untyped, Other, Invalid} \union Good

VARIABLES
    file, hasKey, edits,  \* SYSTEMS_DIR
    asked,                \* conn.system; Nothing for ""
    callPc,
    todo, raws,           \* names still to read, and what the others held
    calm,                 \* history: the systems not edited since the names were listed
    missed,               \* history: those whose directory could not be listed then
    chosen, config,       \* of the resolution under way
    v4,                   \* of the extract; Nothing before it is known
    pages,                \* the system, host and version each page was asked of
    refusal               \* the code, and what refused: Nothing or [code, by]

selectVars == <<file, hasKey, edits, asked, callPc, todo, raws, calm, missed, chosen, config, v4,
                pages, refusal, entries, at, registering, tools, types, saved, statusFns, plugins>>
directory == <<file, hasKey, edits>>
extract == <<asked, v4, pages>>
listing == <<todo, raws, calm, missed>>

SelectInit ==
    /\ file \in [Systems -> Kinds] /\ hasKey \in [Systems -> BOOLEAN] /\ edits = 0
    /\ asked \in Systems \union {Nothing} /\ callPc = "load" /\ InitLoader
    /\ todo = {} /\ raws = {} /\ calm = {} /\ missed = {} /\ chosen = Nothing /\ config = Nothing
    /\ v4 = Nothing /\ pages = <<>> /\ refusal = Nothing

RefuseCall(code, by) == callPc' = "refused" /\ refusal' = [code |-> code, by |-> by]

\* _TYPES has a model for the other type: a plugin's.
Handled == types[OtherType] # Nobody

\* What config raises for a file.  Whatever it holds, its directory may not be listable
\* (exact_case_path gives None) and the file not readable; a model of the other type
\* may refuse it, and select refuses what that model accepts.
Codes(kind) ==
    {"system_unknown"}
    \union (IF kind = Absent THEN {} ELSE {"system_invalid"})
    \union (IF kind = Other /\ ~Handled THEN {"system_unsupported"} ELSE {})

-----------------------------------------------------------------------------
\* main: every plugin is loaded before the server answers.
Load ==
    /\ callPc = "load" /\ LoaderStep
    /\ UNCHANGED <<directory, extract, callPc, listing, chosen, config, refusal>>

Serve ==
    /\ callPc = "load" /\ ~registering /\ at = Len(entries) /\ entries \in Serving
    /\ callPc' = "resolve"
    /\ UNCHANGED <<loader, directory, extract, listing, chosen, config, refusal>>

\* select(SF_TYPE, name) with a name: config must accept the file.
Named ==
    /\ callPc = "resolve" /\ asked # Nothing
    /\ \/ file[asked] \in Good /\ callPc' = "config" /\ chosen' = asked /\ UNCHANGED refusal
       \/ \E code \in Codes(file[asked]) : RefuseCall(code, "name") /\ UNCHANGED chosen
    /\ UNCHANGED <<loader, directory, extract, listing, config>>

\* names(): those whose directory can be listed, none if SYSTEMS_DIR cannot.
List ==
    /\ callPc = "resolve" /\ asked = Nothing /\ callPc' = "read"
    /\ missed' \in SUBSET {s \in Systems : file[s] # Absent}
    /\ todo' = {s \in Systems : file[s] # Absent} \ missed'
    /\ raws' = {} /\ calm' = Systems
    /\ UNCHANGED <<loader, directory, extract, chosen, config, refusal>>

\* raw(): {} for a file that is missing by now or cannot be read.
Raws(s) == {Untyped} \union ({file[s]} \ {Absent})

Read(s) ==
    /\ callPc = "read" /\ s \in todo
    /\ todo' = todo \ {s} /\ \E k \in Raws(s) : raws' = raws \union {<<s, k>>}
    /\ UNCHANGED <<loader, directory, extract, callPc, calm, missed, chosen, config, refusal>>

Matches == {s \in Systems : \E k \in Good \union {Invalid} : <<s, k>> \in raws}

Unreadable == {s \in Systems : <<s, Untyped>> \in raws}

\* Mutant: one match is enough.
DecideMatch ==
    /\ callPc = "read" /\ todo = {}
    /\ \/ /\ Matches = {} /\ Unreadable = {}
          /\ RefuseCall("system_unknown", "default") /\ UNCHANGED chosen
       \/ /\ Matches \union Unreadable # {} /\ \A s \in Systems : Matches # {s}
          /\ RefuseCall("system_required", "default") /\ UNCHANGED chosen
       \/ \E s \in Systems :
             /\ Matches = {s}
             /\ IF <<s, Invalid>> \in raws
                THEN RefuseCall("system_invalid", "default") /\ UNCHANGED chosen
                ELSE callPc' = "config" /\ chosen' = s /\ UNCHANGED refusal
    /\ UNCHANGED <<loader, directory, extract, listing, config>>

\* The only system of the type, as long as every file that was read has a type.
Decide ==
    /\ callPc = "read" /\ todo = {}
    /\ \/ /\ Matches = {} /\ Unreadable = {}
          /\ RefuseCall("system_unknown", "default") /\ UNCHANGED chosen
       \/ /\ Matches \union Unreadable # {}
          /\ Unreadable # {} \/ \A s \in Systems : Matches # {s}
          /\ RefuseCall("system_required", "default") /\ UNCHANGED chosen
       \/ \E s \in Systems :
             /\ Matches = {s} /\ Unreadable = {}
             /\ IF <<s, Invalid>> \in raws
                THEN RefuseCall("system_invalid", "default") /\ UNCHANGED chosen
                ELSE callPc' = "config" /\ chosen' = s /\ UNCHANGED refusal
    /\ UNCHANGED <<loader, directory, extract, listing, config>>

-----------------------------------------------------------------------------
\* Mutant: what config returns is not looked at.
ConfigAnything ==
    /\ callPc = "config" /\ callPc' = "key" /\ config' = file[chosen]
    /\ UNCHANGED <<loader, directory, extract, listing, chosen, refusal>>

\* config(system): the file is read again.  The model of another type has no host:
\* an AttributeError.
Config ==
    /\ callPc = "config"
    /\ \/ file[chosen] \in Good /\ callPc' = "key" /\ config' = file[chosen] /\ UNCHANGED refusal
       \/ /\ \E code \in Codes(file[chosen])
                         \union (IF file[chosen] = Other /\ Handled THEN {"error"} ELSE {}) :
                RefuseCall(code, "config")
          /\ UNCHANGED config
    /\ UNCHANGED <<loader, directory, extract, listing, chosen>>

Asked == [system |-> chosen, host |-> config.host, version |-> config.version]

\* load_key_pem, the end of _resolve: a key that is there may still not be found or not
\* be readable.  The first resolution of extract_all gives its version, each later one is
\* a request for a page.
Key ==
    /\ callPc = "key"
    /\ \/ /\ \E code \in {"no_key"} \union (IF hasKey[chosen] THEN {"error"} ELSE {}) :
                RefuseCall(code, "key")
          /\ UNCHANGED <<v4, pages, chosen, config>>
       \/ /\ hasKey[chosen]
          /\ IF v4 = Nothing
             THEN v4' = (config.version = "v4") /\ UNCHANGED pages
             ELSE v4' = v4 /\ pages' = Append(pages, Asked)
          /\ callPc' = IF Len(pages') = MaxPages THEN "done" ELSE "resolve"
          /\ chosen' = Nothing /\ config' = Nothing /\ UNCHANGED refusal
    /\ UNCHANGED <<loader, directory, asked, listing>>

\* A system directory is added, edited, deleted or given a key.
Edit(s) ==
    /\ edits < MaxEdits /\ callPc \notin {"load", "done", "refused"}
    /\ \/ \E k \in Kinds \ {file[s]} : file' = [file EXCEPT ![s] = k] /\ UNCHANGED hasKey
       \/ hasKey' = [hasKey EXCEPT ![s] = ~@] /\ UNCHANGED file
    /\ edits' = edits + 1 /\ calm' = calm \ {s}
    /\ UNCHANGED <<loader, extract, callPc, todo, raws, missed, chosen, config, refusal>>

SelectNext ==
    \/ Load \/ Serve \/ Named \/ List \/ Decide \/ Config \/ Key
    \/ \E s \in Systems : Read(s) \/ Edit(s)

SelectSpec == SelectInit /\ [][SelectNext]_selectVars

-----------------------------------------------------------------------------
\* The values of every variable.
SelectTypeOK ==
    /\ file \in [Systems -> Kinds] /\ hasKey \in [Systems -> BOOLEAN] /\ edits \in 0..MaxEdits
    /\ asked \in Systems \union {Nothing}
    /\ callPc \in {"load", "resolve", "read", "config", "key", "done", "refused"}
    /\ todo \subseteq Systems /\ raws \subseteq Systems \X Kinds /\ calm \subseteq Systems
    /\ missed \subseteq Systems
    /\ chosen \in Systems \union {Nothing} /\ config \in Good \union {Nothing}
    /\ v4 \in BOOLEAN \union {Nothing}
    /\ pages \in Seq([system : Systems, host : Hosts, version : {"v2", "v4"}])
    /\ Len(pages) <= MaxPages
    /\ refusal = Nothing \/ (callPc = "refused" /\ DOMAIN refusal = {"code", "by"})

\* A default is a guess only past what could not be listed: whatever is edited while the
\* files are read one by one, no other system that stood there all the time could have
\* been meant, unless its directory was not listable.  A file that cannot be read stops
\* the default.  But names() leaves out a system whose directory cannot be listed
\* (system_store.py:152-155), and another is taken without a word, although select
\* "Fails closed while any file has no readable type" (:407-409).
DefaultIsNoGuess ==
    (asked = Nothing /\ callPc \in {"config", "key"}) =>
        \A s \in calm \ {chosen} : file[s] \in {Absent, Other} \/ s \in missed

\* "There is no system" is only said if none stood there all the time, not even one that
\* cannot be read, except those whose directory, or SYSTEMS_DIR itself, was not listable.
UnknownIsTrue ==
    refusal = [code |-> "system_unknown", by |-> "default"] =>
        \A s \in calm : file[s] \in {Absent, Other} \/ s \in missed

\* DefaultIsNoGuess and UnknownIsTrue: what is decided about a default, a system or none,
\* is right for every system that stood there unchanged, and listable when the names were
\* collected, while the files were read.
DefaultDecidedRight == DefaultIsNoGuess /\ UnknownIsTrue

=============================================================================
