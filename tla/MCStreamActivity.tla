-------------------------- MODULE MCStreamActivity --------------------------
(* TLC instances of StreamActivity.                                        *)
EXTENDS StreamActivity, TLC

\* What makes an instance large: several torrents, a Handle that was replaced and is
\* used or was, several files, and what runs in the background.
InUse == UNION {high[t] : t \in Torrents} \cup {th[x].file : x \in Streams} \cup {focus[h] : h \in Handles}

Large == {k \in {"torrents", "handles", "files", "background"} :
    CASE k = "torrents"   -> Cardinality(InSession) > 1
      [] k = "handles"    -> \E x \in Threads : th[x].h # NoHandle /\ table[Tor(x)] # th[x].h
      [] k = "files"      -> Cardinality(InUse \ {NoFile}) > 1
      [] k = "background" -> finished \cup paused \cup flag # {} \/ th[Seeder] # Idle \/ th[Prefetcher] # Idle}

FewAtOnce == Cardinality(Large) <= 1 \/ Large = {"handles", "files"}

Symmetry == Permutations(Torrents) \cup Permutations(Copies) \cup Permutations(Files)
            \cup Permutations(Streams)
=============================================================================
