SPECIFICATION ExchangeSpec
CONSTANTS
    BuiltIn <- MCBuiltIn
    Binary = {"photo"}
    Lower <- MCLower
    Spelling <- MCSpelling
    Special <- MCSpecial
    Structural = {"?"}
    Quote = "q"
    Plus = "+"
    Blank = " "
    Configs <- MCConfigs
    Pages <- MCPages
    Leaves <- MCLeaves
    Requests <- MCRequests
    Foreign = "f"
    Answers <- MCRows
    Nothing = Nothing
INVARIANTS ExchangeTypeOK OnlyEqualityTold FailsClosed SentAsMeant EchoHidesValues
