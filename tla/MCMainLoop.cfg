CONSTANTS
    Rooms = {a, b}
    Users = {u}
    Nothing = Nothing
    NoFile = NoFile
    MaxBreaks = 1
    MaxWipes = 1
    People = {p, q}
    Bot = Bot
    Allowlist = {q}
    MaxSent = 3
    MaxMisses = 2
    MaxLoad = 3
SPECIFICATION LoopFairSpec
INVARIANTS
    LoopTypeOK
    ToldRight
    CommandsAreSafe
PROPERTIES
    AreTold
    CommandsAreDone
