CONSTANTS
    Nothing = Nothing
    Off = Off
    Clients = {c1, c2}
    Ids = {i1, i2, i3}
    Jobs = {j1}
    ActiveWindow = 1
    Retention = 2
    SessionsUntil = 4
    Browsers = {c1, c2}
    Accounts = {o1, o2}
    Secrets = {s1, s2}
    SessionTTL = 1
    AccessUntil = 1
    Addresses = {d1, d2}
    Limit = 2
    Window = 3
    LimiterUntil = 6
    Sources <- MCSources
    Players <- MCPlayers
    Hosts <- MCHosts
    Configs <- MCConfigs
    Nodes <- MCNodes
    DefaultNode = "D128"
    Admins = {c1, c2}
    Accelerators <- MCAccelerators
    ProfileIds <- MCProfileIds
    Values = {0, 1}
    TestsTTL = 1
    MaxSaves = 2
    AdminUntil = 2
    Threads = {c1, c2}
    Files = {f1, f2}
    FoundKeep = 1
    FontsKeep = 1
    Work = 1
    MaxAsks = 4
    Requests = {i1, i2, i3}
    Origins = {c1, c2}
    Places = 2
    OutsidePlaces = 1
    MaxRedirects = 2

SPECIFICATION Spec
INVARIANT NeverPromoted
SYMMETRY Sym
CHECK_DEADLOCK FALSE
