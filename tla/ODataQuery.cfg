SPECIFICATION QuerySpec
CONSTANTS
    Nothing = Nothing
    Tools = {c1}
    Query = q
    Calls <- MCCalls
INVARIANTS QueryTypeOK WarningsTrue ReportedAsSent
PROPERTIES ReplacedOnlyByOverlap
