SPECIFICATION FairSpec
CONSTANTS
    k1 = k1
    k2 = k2
    s1 = s1
    Tasks = {t1, t2}
    Systems = {s1}
    Keys = {k1, k2}
    SystemOf <- TwoUsers
    MaxGen = 2
    Failing = {s1}
    MaxSessions = 3
    NoTask = NoTask
INVARIANTS LoginCoalesced
PROPERTIES EveryRequestEnds GoodSessionKept StaleOnlyFromRaceOrFailure
