SPECIFICATION SelectSpec
CONSTANTS
    Systems = {s1, s2}
    Hosts = {a}
    Absent = Absent
    Untyped = Untyped
    Other = Other
    Invalid = Invalid
    Nothing = Nothing
    MaxPages = 2
    MaxEdits = 2
    EntryLists <- Lists
    Serving <- Alone
    Tools = {"odata_query"}
    PluginTypes = {"other"}
    OtherType = "other"
    CoreType = "successfactors"
    Nobody = Nobody
INVARIANTS SelectTypeOK FailuresUndone DefaultDecidedRight
SYMMETRY Interchangeable
\* A call stops once it has answered or raised.
CHECK_DEADLOCK FALSE
