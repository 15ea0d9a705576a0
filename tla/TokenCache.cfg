SPECIFICATION FairSpec
CONSTANTS
    k1 = k1
    k2 = k2
    s1 = s1
    Tasks = {t1, t2}
    Locks = {l1, l2}
    Systems = {s1}
    Keys = {k1, k2}
    SystemOf <- TwoUsers
    MaxGen = 2
    Failing = {s1}
    NoTask = NoTask
    NoLock = NoLock
    NoToken = NoToken
INVARIANTS MintExclusive StormCoalesced
PROPERTIES StaleOnlyFromRaceOrFailure EveryRequestEnds
