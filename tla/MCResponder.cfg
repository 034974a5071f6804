CONSTANTS
    d1 = d1
    d2 = d2
    NTxns = 2
    Devices = {d1, d2}
    Origins <- TwoOrOne
    PutReplaces = TRUE
    MaxMishaps = 1
    NPeople = 2
    Keys = 2
    MaxTroubles = 1
    MaxBegun = 4
SPECIFICATION FairSpec
INVARIANTS
    AllTypeOK
    DoneMeansVerified
    HistoryOnlyFromInviters
PROPERTIES
    SessionsEnd
    MacsAreAnswered
    InvitersAreServed
