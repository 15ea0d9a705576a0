---------------------------- MODULE MetadataCache ----------------------------
(***************************************************************************)
(* The caches of $metadata in the MCP server (mcp_server.py): the entity     *)
(* keys odata_query orders by (_key_cache) and the navigation properties of   *)
(* odata_metadata (_nav_cache), of one system and entity.  A lookup looks,    *)
(* awaits the document and stores what came of it, without a lock; an entry    *)
(* stays for the life of the process.                                         *)
(***************************************************************************)
CONSTANTS
    Tools,      \* tool calls at work beside the query
    Query,      \* the query, see ODataQuery
    Nothing

ASSUME NamesAssumption ==
    Query \notin Tools /\ Nothing \notin {"keys", "navs", "caller", "added"}

VARIABLES
    keyCache,   \* _key_cache: Nothing, or what a lookup found
    navCache,   \* _nav_cache: Nothing, "navs" or the "warning" it failed with
    awaits,     \* the document each call awaits: Nothing, "keys", "fields" or "navs"
    early       \* history: the calls whose lookup began before there was an entry

caches == <<keyCache, navCache>>
metadata == <<keyCache, navCache, awaits, early>>

InitMetadata ==
    /\ keyCache = Nothing /\ navCache = Nothing
    /\ awaits = [c \in Tools \union {Query} |-> Nothing] /\ early = {}

Await(c, document) == awaits' = [awaits EXCEPT ![c] = document]

\* A lookup of an entry that is not there, or of one that is.
Ask(c, document, entry) ==
    /\ Await(c, document)
    /\ early' = IF entry = Nothing THEN early \union {c} ELSE early \ {c}

\* Mutant: a failure is not remembered.
MissOrFailed(entry) == entry \in {Nothing, "unknown"}

\* "if cache_key in _key_cache": a failed lookup is an entry too.
Miss(entry) == entry = Nothing

\* _entity_key_properties of a call: the keys as $metadata has them, or nothing on
\* any failure; it never raises.
StoreKeys(c, found) ==
    /\ awaits[c] = "keys" /\ Await(c, Nothing)
    /\ keyCache' = found /\ early' = early \ {c}
    /\ UNCHANGED navCache

\* The call is cancelled in the await, which "except Exception" does not catch.
Cancelled(c) ==
    /\ awaits[c] # Nothing /\ Await(c, Nothing) /\ early' = early \ {c}
    /\ UNCHANGED caches

-----------------------------------------------------------------------------
(* The other calls *)

\* odata_query of several pages, of the same entity.
AskKeys(c) ==
    /\ awaits[c] = Nothing /\ Miss(keyCache) /\ Ask(c, "keys", keyCache)
    /\ UNCHANGED caches

\* odata_metadata first fetches the fields, which nothing caches.
AskFields(c) ==
    /\ awaits[c] = Nothing /\ Await(c, "fields")
    /\ UNCHANGED <<caches, early>>

\* _field_map fails, or there are navigation properties to go with what it answers,
\* or they are looked up.
FieldsCome(c) ==
    /\ awaits[c] = "fields"
    /\ \/ Await(c, Nothing) /\ UNCHANGED early
       \/ Miss(navCache) /\ Ask(c, "navs", navCache)
    /\ UNCHANGED caches

\* _nav_properties: the answer, or the warning it failed with.
StoreNavs(c) ==
    /\ awaits[c] = "navs" /\ Await(c, Nothing)
    /\ navCache' \in {"navs", "warning"} /\ early' = early \ {c}
    /\ UNCHANGED keyCache

ToolStep(c, keys) ==
    \/ AskKeys(c) \/ AskFields(c) \/ FieldsCome(c) \/ StoreNavs(c) \/ Cancelled(c)
    \/ \E found \in {keys, "unknown"} : StoreKeys(c, found)

-----------------------------------------------------------------------------
\* No call looks up what a lookup has learned, a failure included, and it is only
\* ever replaced by one that had begun before there was an entry.  Such lookups there
\* are, since nothing keeps two calls from missing side by side: each of them fetches the
\* document, against "fetched at most once per system ... per process"
\* (mcp_server.py:568-569, and :749-750), and a late failure puts "unknown" in the place
\* of sortable keys, for good.
ReplacedOnlyByOverlap ==
    [][/\ \A c \in Tools \union {Query} :
             /\ (awaits'[c] = "keys" /\ awaits[c] # "keys") => keyCache = Nothing
             /\ (awaits'[c] = "navs" /\ awaits[c] # "navs") => navCache = Nothing
       /\ (keyCache # Nothing /\ keyCache' # keyCache) =>
             \E c \in early : awaits[c] = "keys" /\ awaits'[c] # "keys"
       /\ (navCache # Nothing /\ navCache' # navCache) =>
             \E c \in early : awaits[c] = "navs" /\ awaits'[c] # "navs"]_metadata
=============================================================================
