CONSTANTS
    Profiles = {p1, p2}
    NoProfile = NoProfile
    Requests = {r1, r2}
    Nobody = Nobody
    MaxRequests = 3
    MaxExits = 1

SPECIFICATION FairSpec
INVARIANTS OneResolver
PROPERTIES FailClosed VpnComesUp
CHECK_DEADLOCK FALSE
