CONSTANTS
    Torrents = {t1}
    Clients = {c1, c2}
    f1 = f1
    f2 = f2
    episode = episode
    film = film
    Files <- MCFiles
    Specs <- MCSpecs
    Resolve <- MCResolve
    Alerts = Alerts
    Elsewhere = Elsewhere
    Unfocus = Unfocus
    Events = {"download", "play", "pin", "unpin", "delete", "remove", "restart"}
    NoFile = NoFile
    NoHandle = NoHandle
    InTable = InTable
    Removed = Removed
    NoTorrent = NoTorrent
    NoSpec = NoSpec

SPECIFICATION Spec
SYMMETRY Symmetry
CONSTRAINT OneOrEpisode
INVARIANTS WantedIsFetched RemovedStaysGone
PROPERTY PinNeverWidens
