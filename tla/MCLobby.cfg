CONSTANTS
    Rooms = {a, b}
    Users = {u}
    MaxTries = 2
    MaxResends = 1
    MaxEvents = 3
    MaxCrashes = 1
    Nothing = Nothing
SPECIFICATION Spec
SYMMETRY Alike
INVARIANTS
    TypeOK
    SpaceOnlyByHaiku
    BudgetsKept
    OpenMeansInside
PROPERTY KeepsTheBook
