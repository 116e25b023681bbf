CONSTANTS
    Torrents = {t1, t2}
    Copies = {a, b}
    Files = {f1, f2}
    Streams = {s1, s2}
    Seeder = Seeder
    Prefetcher = Prefetcher
    MaxStreams = 2
    Background = {"seed", "prefetch", "swarm"}
    NoHandle = NoHandle
    NoFile = NoFile
    NoTorrent = NoTorrent

SPECIFICATION Spec
SYMMETRY Symmetry
CONSTRAINT FewAtOnce
INVARIANTS ActiveCountsStreams SettledAgrees
