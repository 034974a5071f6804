CONSTANTS
    Sessions = {s1, s2}
    NoFile = NoFile
    Torn = Torn
    MaxTurns = 1
    MaxFlakes = 0
    MaxCrashes = 0
SPECIFICATION Spec
INVARIANT HistoryKept
