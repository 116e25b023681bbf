CONSTANTS
    Jobs = {j1, j2}
    Keys = {k1, k2}
    Procs = {p1, p2}
    Clients = {c1, c2}
    GC = GC
    NoKey = NoKey
    NoProc = NoProc
    StopAllUsed = TRUE

SPECIFICATION Spec
SYMMETRY Symmetry
INVARIANTS OwnersAreAliases NoLostEncoder HeldIsDetached
PROPERTIES SweepSparesLive

