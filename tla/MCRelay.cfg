CONSTANTS
    Limits <- SmallLimits
    PollLimit = 2
    MaxPosts = 3
    MaxBreaks = 1
    MaxRewinds = 1
    NoCursor = NoCursor
SPECIFICATION FairSpec
INVARIANTS
    TypeOK
    Mirrored
    Accounted
PROPERTY KeepsUp
\* With nothing new on either side both loops only wait.
CHECK_DEADLOCK FALSE
