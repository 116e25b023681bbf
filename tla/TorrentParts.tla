----------------------------- MODULE TorrentParts -----------------------------
(* Four parts of what the server does with a torrent's data that share no       *)
(* state here: a behaviour of the whole is one of any of them, and what belongs *)
(* to the others stays Off.                                                   *)
EXTENDS Naturals, FiniteSets

CONSTANTS
    Nothing, Off,
    Viewers, Extractors, PieceLength, Size, Offset, Window, Chunk,              \* PlaybackWindow
    MinVideo, HeadBytes, TailBytes, LowBytes, HighBytes, Headers, Played, MaxRequests,
    Torrents, Budget, Target,                                                   \* EvictPass
    Servers, Interval, StaleAfter, ClaimUntil,                                  \* EvictorClaim
    Names, NameOf, MaxEvents                                                    \* CacheSweep

ASSUME CacheAssumption ==
    /\ IsFiniteSet(Torrents)
    /\ Budget \in Nat /\ Target \in Nat /\ Target <= Budget

VARIABLES
    part,
    have, prio, due, boosted, focused, filesWanted, active, cursor, prefetched, pf, seq, seqFlag, st, lost, requests,
    cached, loaded, meta, recent, pinned, pinsFile, nameIndex, ev, kept,
    claimTime, claim, loop, muddled,
    disk, records, temps, index, pins, wanted, alerts, sweep, events, safe

PW == INSTANCE PlaybackWindow WITH wanted <- filesWanted
EP == INSTANCE EvictPass WITH disk <- cached, index <- nameIndex
EC == INSTANCE EvictorClaim WITH MaxTime <- ClaimUntil, Nobody <- Nothing, time <- claimTime
CS == INSTANCE CacheSweep

playVars == <<have, prio, due, boosted, focused, filesWanted, active, cursor, prefetched, pf, seq, seqFlag, st, lost, requests>>
evictVars == <<cached, loaded, meta, recent, pinned, pinsFile, nameIndex, ev, kept>>
claimVars == <<claimTime, claim, loop, muddled>>
sweepVars == <<disk, records, temps, index, pins, wanted, alerts, sweep, events, safe>>
allVars == <<part, playVars, evictVars, claimVars, sweepVars>>

Init ==
    /\ part \in {"play", "evict", "claim", "sweep"}
    /\ IF part = "play" THEN PW!Init ELSE have = Off /\ prio = Off /\ due = Off /\ boosted = Off /\ focused = Off /\ filesWanted = Off /\ active = Off /\ cursor = Off /\ prefetched = Off /\ pf = Off /\ seq = Off /\ seqFlag = Off /\ st = Off /\ lost = Off /\ requests = Off
    /\ IF part = "evict" THEN EP!Init ELSE cached = Off /\ loaded = Off /\ meta = Off /\ recent = Off /\ pinned = Off /\ pinsFile = Off /\ nameIndex = Off /\ ev = Off /\ kept = Off
    /\ IF part = "claim" THEN EC!Init ELSE claimTime = Off /\ claim = Off /\ loop = Off /\ muddled = Off
    /\ IF part = "sweep" THEN CS!Init ELSE disk = Off /\ records = Off /\ temps = Off /\ index = Off /\ pins = Off /\ wanted = Off /\ alerts = Off /\ sweep = Off /\ events = Off /\ safe = Off

Play ==
    /\ part = "play" /\ PW!Next
    /\ UNCHANGED <<part, evictVars, claimVars, sweepVars>>
Evict ==
    /\ part = "evict" /\ EP!Next
    /\ UNCHANGED <<part, playVars, claimVars, sweepVars>>
Claim ==
    /\ part = "claim" /\ EC!Next
    /\ UNCHANGED <<part, playVars, evictVars, sweepVars>>
Sweep ==
    /\ part = "sweep" /\ CS!Next
    /\ UNCHANGED <<part, playVars, evictVars, claimVars>>
Next == Play \/ Evict \/ Claim \/ Sweep

Spec == Init /\ [][Next]_allVars

----------------------------------------------------------------------------
\* The values of the variables of the part that runs have their types.
TypeOK ==
    CASE part = "play" -> PW!TypeOK
      [] part = "evict" -> EP!TypeOK
      [] part = "claim" -> EC!TypeOK
      [] part = "sweep" -> CS!TypeOK

\* PlaybackWindow: a byte goes out only from pieces that are on disk.
OnlyVerifiedBytes == [][part = "play" => PW!OnlyVerifiedBytes]_playVars

\* PlaybackWindow: what a stream waits for has a deadline, unless a seek dropped it.
WaitedIsRushed == part = "play" => PW!WaitedIsRushed

\* EvictPass: a pin with a name loses nothing to a pass ...
PinsAreSpared == [][part = "evict" => EP!PinsAreSpared]_evictVars

\* ... nor does a torrent that is served all through it ...
ServedAreSpared == [][part = "evict" => EP!ServedAreSpared]_evictVars

\* ... and of a torrent it stopped, nothing is left but what could not be deleted.
NothingLeftBehind == [][part = "evict" => EP!NothingLeftBehind]_evictVars

\* EvictorClaim: two servers evict at once only in the named cases.
OneEvictor == part = "claim" => EC!OneEvictor

\* CacheSweep: what has been claimed all along is left alone.
SweepSparesClaimed == [][part = "sweep" => CS!SweepSparesSafe]_sweepVars
=============================================================================
