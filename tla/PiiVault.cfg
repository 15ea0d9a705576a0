SPECIFICATION Spec
CONSTANTS
    Handles = {h1, h2}
    Tenants = {t1, t2}
    Values = {v1, v2}
    FieldTiers = {tier2, tier3}
    Keys = {k1, k2}
    Hexes <- AllHexes
    Digest <- Injective
    OldRows <- OldVault
    Unset = Unset
    v1 = v1
INVARIANTS OneTokenPerTier TokensResolve OwnSystemOnly
SYMMETRY Interchangeable
