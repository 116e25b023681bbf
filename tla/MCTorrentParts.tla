---------------------------- MODULE MCTorrentParts ----------------------------
(* Small instances of the four parts of TorrentParts, all in one run.        *)
EXTENDS TorrentParts, TLC

\* an episode, a sample and the next episode, in order of names; on disk the
\* second episode follows the first, and they share a piece
Sizes == <<4, 1, 4>>
Offsets == <<0, 8, 4>>

RangeHeaders == {[kind |-> "none", a |-> 0, b |-> 0], [kind |-> "suffix", a |-> 2, b |-> 0]}

MCNameOf == [t \in Torrents |-> "n"]

\* in the evictor's pass, all but one torrent are never pinned and have neither a
\* resume record nor a partfile
OneKnown ==
    part = "evict" =>
      \E t \in Torrents : \A u \in Torrents \ {t} :
        u \notin pinned /\ pinsFile[u] = "no" /\ u \notin nameIndex /\ EP!Parts(u) \notin cached

\* Two torrents, servers and viewers are interchangeable.
Sym == Permutations(Torrents)
=============================================================================
