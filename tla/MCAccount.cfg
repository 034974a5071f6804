CONSTANTS
    NChildren = 2
    MaxWipes = 1
    MaxMishaps = 2
    NCalls = 2
    Attempts = 4
SPECIFICATION FairSpec
CHECK_DEADLOCK FALSE
INVARIANTS
    AccountTypeOK
    AccountIsWhole
    ExportsAreTrue
PROPERTIES
    SetupEnds
