CONSTANTS
    Nothing = Nothing
    Off = Off
    Viewers = {c1, c2}
    Extractors = {x}
    PieceLength = 3
    Size <- Sizes
    Offset <- Offsets
    Window = 1
    Chunk = 4
    MinVideo = 2
    HeadBytes = 1
    TailBytes = 1
    LowBytes = 3
    HighBytes = 6
    Headers <- RangeHeaders
    Played = {1, 3}
    MaxRequests = 2
    Torrents = {c1, c2}
    Budget = 2
    Target = 1
    Servers = {c1, c2}
    Interval = 1
    StaleAfter = 2
    ClaimUntil = 6
    Names = {"n"}
    NameOf <- MCNameOf
    MaxEvents = 3

SPECIFICATION Spec
SYMMETRY Sym
CONSTRAINT OneKnown
INVARIANTS WaitedIsRushed OneEvictor
PROPERTIES OnlyVerifiedBytes PinsAreSpared ServedAreSpared NothingLeftBehind SweepSparesClaimed
CHECK_DEADLOCK FALSE
