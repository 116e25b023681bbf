-------------------------- MODULE MCFileSelection --------------------------
(* TLC instances of FileSelection: one selector names a file, one does not *)
(* narrow, as the download of a film does not.                             *)
EXTENDS FileSelection, TLC, FiniteSets

CONSTANTS f1, f2, episode, film

MCFiles == {f1, f2}
MCSpecs == {episode, film}
MCResolve == (episode :> f1) @@ (film :> NoFile)

\* both selectors name an episode
MCEpisodes == (episode :> f1) @@ (film :> f2)

\* one selector, for the runs with two clients
MCEpisode == {episode}
MCEpisodeOnly == [s \in MCEpisode |-> f1]

\* One client makes any request.  Two at once make those that meet on a handle, and
\* requests about another torrent save a registry beside one client: both about the
\* episode alone.
Busy == Cardinality({x \in Clients : th[x].pc # "idle"})
Elsewheres == elsewhere # "idle" \/ lost # {}

EpisodeAlone ==
    /\ raced = {}
    /\ \A t \in Torrents : film \notin wanted[t] \cup wantedFile[t]
    /\ \A x \in Clients : th[x].spec # film

OneOrEpisode ==
    /\ Busy > 1 \/ Elsewheres => EpisodeAlone
    /\ Busy > 1 => /\ ~Elsewheres
                  /\ \A x \in Clients : {"saveUnpin", "writeUnpin"} \cap {th[x].pc, th[x].then} = {}
    /\ Elsewheres => \A t \in Torrents : Open(t) => handle[t].wanted \subseteq {f1}

Symmetry == Permutations(Torrents) \cup Permutations(Clients)
=============================================================================
