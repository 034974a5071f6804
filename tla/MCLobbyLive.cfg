CONSTANTS
    Rooms = {a, b}
    Users = {u}
    MaxTries = 2
    MaxResends = 1
    MaxEvents = 2
    MaxCrashes = 1
    Nothing = Nothing
SPECIFICATION FairSpec
PROPERTY EverybodyIsServed
