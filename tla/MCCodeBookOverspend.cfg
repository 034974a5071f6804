CONSTANTS
    k1 = k1
    k2 = k2
    r1 = r1
    r2 = r2
    MainLoop = MainLoop
    Absent = Absent
    Codes = {k1, k2}
    Requests = {r1, r2}
    MaxUses = 2
    MaxBatch = 2
    WelcomeUses = 1
    Seeds <- MCSeeds
SPECIFICATION Spec
INVARIANT GrantedWithinIssued
