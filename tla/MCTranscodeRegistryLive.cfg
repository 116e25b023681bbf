CONSTANTS
    Jobs = {j1}
    Keys = {k1, k2}
    Procs = {p1, p2}
    Clients = {c1}
    GC = GC
    NoKey = NoKey
    NoProc = NoProc
    StopAllUsed = TRUE

SPECIFICATION FairSpec
PROPERTIES UnwantedEncoderEnds DirReclaimed
