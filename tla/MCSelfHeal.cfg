CONSTANTS
    Sessions = {s1, s2}
    NoFile = NoFile
    Torn = Torn
    MaxTurns = 3
    MaxFlakes = 1
    MaxCrashes = 2
SPECIFICATION FairSpec
INVARIANTS
    TypeOK
    HistoryKeptUnlessMishap
    UpMeansWhole
PROPERTY ComesUp
