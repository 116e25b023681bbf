CONSTANTS
    Workers = {w1, w2}
    Ids = {c1, c2, c3}
    NoId = NoId
    Nobody = Nobody
    MaxVersion = 3
    MaxCfg = 1
    MaxEvents = 2
    ServerOf <- MCServerOf

SPECIFICATION FairSpec
INVARIANTS ServesUnlessHurt UpdatesGoForward
PROPERTY UpdateSettles
CHECK_DEADLOCK FALSE
