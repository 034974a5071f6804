CONSTANTS
    Rooms = {a, b}
    Users = {u}
    MaxTries = 2
    MaxEvents = 4
    MaxCrashes = 1
    Nothing = Nothing
SPECIFICATION FairSpec
INVARIANTS
    TypeOK
    SpaceOnlyByHaiku
    FewerRepliesThanTries
    WelcomesBounded
    AdviceWorksUnlessCrashed
PROPERTIES
    KeepsItsBooks
    EverybodyIsServed
