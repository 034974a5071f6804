CONSTANTS
    Rooms = {a, b}
    Users = {u}
    MaxTries = 2
    MaxResends = 1
    MaxEvents = 2
    MaxCrashes = 0
    Nothing = Nothing
SPECIFICATION FairSpec
INVARIANT MintedStayRecorded
