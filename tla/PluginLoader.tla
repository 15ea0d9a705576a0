----------------------------- MODULE PluginLoader -----------------------------
(***************************************************************************)
(* _load_plugins (plugin_api.py), when the MCP server starts: each entry     *)
(* point's register(mcp) adds tools, system types (register_type of          *)
(* services/system_store.py) and status functions; one that raises is rolled  *)
(* back.  An entry is known by its position, the core is 0.                   *)
(***************************************************************************)
EXTENDS Naturals, Sequences

CONSTANTS
    EntryLists,         \* the names of the installed entry points, in their order
    Tools,              \* names of tools; the core has all of them
    PluginTypes,        \* system types of plugins
    CoreType,           \* SF_TYPE
    Nobody

ASSUME LoaderAssumption ==
    /\ EntryLists \subseteq Seq(STRING)
    /\ CoreType \notin PluginTypes /\ Nobody \notin Nat

VARIABLES
    entries,
    at,             \* the entry being loaded, or the last one
    registering,    \* its register(mcp) runs
    tools, types,   \* mcp._tool_manager._tools and _TYPES: who registered each
    saved,          \* saved_tools and saved_types
    statusFns,      \* _status_fns
    plugins         \* what _plugins says of each, for two of one name of the last:
                    \* "absent", "loaded" or "failed"

registry == <<tools, types, statusFns>>
loader == <<entries, at, registering, tools, types, saved, statusFns, plugins>>

Types == PluginTypes \union {CoreType}
Names == {entries[i] : i \in DOMAIN entries}
Core == [tools |-> [t \in Tools |-> 0],
         types |-> [t \in Types |-> IF t = CoreType THEN 0 ELSE Nobody]]

InitLoader ==
    /\ entries \in EntryLists /\ at = 0 /\ registering = FALSE
    /\ tools = Core.tools /\ types = Core.types /\ saved = Core
    /\ statusFns = [n \in Names |-> Nobody]
    /\ plugins = [i \in DOMAIN entries |-> "absent"]

\* The snapshot, then ep.load()(mcp).
BeginEntry ==
    /\ ~registering /\ at < Len(entries)
    /\ at' = at + 1 /\ registering' = TRUE
    /\ saved' = [tools |-> tools, types |-> types]
    /\ UNCHANGED <<entries, registry, plugins>>

\* A tool is replaced by one of the same name, or removed; a type is registered, unless
\* it is another's (then register_type raises); a status is set, under any name.
Register ==
    /\ registering
    /\ \/ \E t \in Tools, by \in {at, Nobody} :
             tools' = [tools EXCEPT ![t] = by] /\ UNCHANGED <<types, statusFns>>
       \/ \E t \in Types :
             /\ types[t] = Nobody
             /\ types' = [types EXCEPT ![t] = at] /\ UNCHANGED <<tools, statusFns>>
       \/ \E n \in Names :
             statusFns' = [statusFns EXCEPT ![n] = at] /\ UNCHANGED <<tools, types>>
    /\ UNCHANGED <<entries, at, registering, saved, plugins>>

Ended(how) ==
    /\ registering /\ registering' = FALSE
    /\ plugins' = [plugins EXCEPT ![at] = how] /\ UNCHANGED <<entries, at, saved>>

\* Mutant: only what the entry added is taken out again.
FailOwnOnly ==
    /\ Ended("failed")
    /\ tools' = [t \in Tools |-> IF tools[t] = at THEN Nobody ELSE tools[t]]
    /\ types' = saved.types
    /\ statusFns' = [statusFns EXCEPT ![entries[at]] = Nobody]

\* The import or register(mcp) raises: tools and types are put back, and the status
\* under the entry's own name goes.
FailEntry ==
    /\ Ended("failed")
    /\ tools' = saved.tools /\ types' = saved.types
    /\ statusFns' = [statusFns EXCEPT ![entries[at]] = Nobody]

Succeed == Ended("loaded") /\ UNCHANGED registry

LoaderStep == BeginEntry \/ Register \/ FailEntry \/ Succeed

-----------------------------------------------------------------------------
Loaded == {i \in DOMAIN plugins : plugins[i] = "loaded"}

\* Between two entries, tools and types are as if the failed ones had never run: what is
\* there is of the core or of a loaded entry, only a loaded entry can have replaced or
\* removed a tool of the core, and the core's system type is never another's.  Status
\* functions are not put back, although the comment at plugin_api.py:134-138 has "or a
\* status fn must not leave any of that behind": only the name of the failed entry is
\* emptied, so one that it set under another name stays, for that plugin to be shown
\* with, and one that was there under its own name is gone.  What does hold of them is
\* that no failed entry is left with a status under its own name.
FailuresUndone ==
    /\ types[CoreType] = 0
    /\ \A i \in DOMAIN entries : plugins[i] = "failed" => statusFns[entries[i]] # i
    /\ ~registering =>
          /\ \A t \in PluginTypes : types[t] \in Loaded \union {Nobody}
          /\ \A t \in Tools : tools[t] \in Loaded \union (IF Loaded = {} THEN {0} ELSE {0, Nobody})
=============================================================================
