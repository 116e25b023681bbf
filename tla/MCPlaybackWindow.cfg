CONSTANTS
    Viewers = {v1, v2}
    Extractors = {x}
    PieceLength = 3
    Size <- Sizes
    Offset <- Offsets
    Window = 1
    Chunk = 4
    MinVideo = 2
    HeadBytes = 1
    TailBytes = 1
    LowBytes = 3
    HighBytes = 6
    Headers <- RangeHeaders
    Played = {1, 3}
    MaxRequests = 2

SPECIFICATION FairSpec
PROPERTIES StreamsEnd
CHECK_DEADLOCK FALSE
