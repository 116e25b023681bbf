---------------------------- MODULE PlaybackWindow ----------------------------
(****************************************************************************)
(* One torrent while it is played: the byte-range requests of viewers and of *)
(* the extractor of embedded subtitles (stream/fileserver.py, ranges.py,      *)
(* api/playback.py), the pieces they rush, the tick that switches between     *)
(* sequential and parallel download, and the prefetch of the next episode      *)
(* (torrent/engine.py, torrent/prefetch.py).                                  *)
(*                                                                          *)
(* libtorrent is external: a piece arrives only if it has a priority or a     *)
(* deadline, and setting file priorities overwrites those of all pieces.      *)
(* Of the deadlines only their presence is kept.                             *)
(****************************************************************************)
EXTENDS Integers, FiniteSets, FiniteSetsExt

CONSTANTS
    Viewers, Extractors,             \* connections that read
    PieceLength, Size, Offset,       \* bytes; of each file, in natural order of names
    Window, Chunk,                   \* pieces rushed ahead, bytes of one read
    MinVideo, HeadBytes, TailBytes,  \* prefetch.py
    LowBytes, HighBytes,             \* adaptive picking
    Headers, Played,                 \* bounds: Range headers [kind, a, b] and files asked for
    MaxRequests                      \* bound: requests of viewers and extractors

Files == DOMAIN Size
NoFile == 0
Streams == Viewers \cup Extractors
LastByte == Max({Offset[f] + Size[f] : f \in Files}) - 1
PiecesForRange(first, last) == (first \div PieceLength)..(last \div PieceLength)
Pieces == PiecesForRange(0, LastByte)
PiecesOf(f) == PiecesForRange(Offset[f], Offset[f] + Size[f] - 1)

VARIABLES
    have,       \* pieces on disk
    prio,       \* libtorrent's priority of each piece
    due,        \* pieces with a deadline
    boosted,    \* Handle._boosted
    focused,    \* Handle._focused_idx
    wanted, active,
    cursor,     \* _read_pos and _read_total
    prefetched, \* _prefetched
    pf,         \* the prefetch loop: what it decided
    seq, seqFlag, \* sequential download, and what _adaptive_seq says of it
    st,         \* the streams
    lost,       \* history: streams whose deadlines a seek has dropped
    requests

pieceVars == <<have, prio, due, boosted>>
fileVars == <<focused, wanted, active, cursor, prefetched>>
vars == <<pieceVars, fileVars, pf, seq, seqFlag, st, lost, requests>>

Closed == [pc |-> "closed", f |-> NoFile, pos |-> 0, end |-> -1, slid |-> -1, drop |-> {}]
NoPlan == [pc |-> "idle", idx |-> NoFile, nxt |-> NoFile]

TypeOK ==
    /\ have \subseteq Pieces /\ due \subseteq Pieces /\ boosted \subseteq Pieces
    /\ prio \in [Pieces -> {0, 1, 4, 7}]
    /\ focused \in Files \cup {NoFile} /\ wanted \subseteq Files
    /\ active = Cardinality({r \in Viewers : st[r].pc \in {"slide", "wait", "sent", "close"}})
    /\ cursor \in [pos : 0..LastByte + 1, total : 0..LastByte + 1]
    /\ prefetched \subseteq Files
    /\ pf \in [pc : {"idle", "check", "arm"}, idx : Files \cup {NoFile}, nxt : Files \cup {NoFile}]
    /\ seq \in BOOLEAN /\ seqFlag \in BOOLEAN
    /\ st \in [Streams -> [pc : {"closed", "refocus", "reset", "open", "slide", "wait", "sent", "close"},
                           f : Files \cup {NoFile}, pos : 0..LastByte + 1, end : -1..LastByte,
                           slid : -1..Max(Pieces), drop : SUBSET Pieces]]
    /\ lost \subseteq Streams
    /\ requests \in 0..MaxRequests

Init ==
    /\ have = {} /\ due = {} /\ boosted = {}
    /\ prio = [p \in Pieces |-> 0]
    /\ focused = NoFile /\ wanted = {} /\ active = 0
    /\ cursor = [pos |-> 0, total |-> 0] /\ prefetched = {}
    /\ pf = NoPlan
    /\ seq = FALSE /\ seqFlag = TRUE
    /\ st = [r \in Streams |-> Closed]
    /\ lost = {} /\ requests = 0

----------------------------------------------------------------------------
(* Priorities.                                                              *)

\* a piece has the priority of the most wanted file it belongs to
Prioritized(fp) == [p \in Pieces |-> Max({fp[f] : f \in {g \in Files : p \in PiecesOf(g)}})]
\* wanted files at 1, the played one at 4 while it is being streamed
Priorities(w, focus) == [f \in Files |-> IF f = focus THEN (IF active > 0 THEN 4 ELSE 1)
                                         ELSE IF f \in w THEN 1 ELSE 0]
\* the priority of the played file alone, as a stream opens or the last closes
PlayedAt(n) == IF focused = NoFile THEN prio
               ELSE Prioritized([f \in Files |-> IF f = focused THEN n ELSE IF f \in wanted THEN 1 ELSE 0])

----------------------------------------------------------------------------
(* A range request.                                                         *)

\* parse_range: no header, bytes=A-, bytes=A-B, bytes=-N
ParseRange(h, total) ==
    CASE h.kind = "none" -> <<0, total - 1>>
      [] h.kind = "suffix" -> <<Max({0, total - h.a}), total - 1>>
      [] h.kind = "open" -> <<h.a, total - 1>>
      [] h.kind = "closed" -> <<h.a, Min({h.b, total - 1})>>

Goto(r, pc) == st' = [st EXCEPT ![r].pc = pc]

\* mutant: the first piece counts as boosted already
ReaderPastFirst(r, f, range, pc) ==
    st' = [st EXCEPT ![r] = [pc |-> pc, f |-> f, pos |-> range[1], end |-> range[2],
                             slid |-> (Offset[f] + range[1]) \div PieceLength, drop |-> {}]]

\* the state of wait_and_read before its first piece
Reader(r, f, range, pc) ==
    st' = [st EXCEPT ![r] = [pc |-> pc, f |-> f, pos |-> range[1], end |-> range[2],
                             slid |-> (Offset[f] + range[1]) \div PieceLength - 1, drop |-> {}]]

Requested == requests < MaxRequests /\ requests' = requests + 1

\* a viewer's request: the file is focused first
Serve(r) ==
    /\ st[r].pc = "closed" /\ Requested
    /\ \E f \in Played, h \in Headers :
         /\ Reader(r, f, ParseRange(h, Size[f]), "refocus")
         /\ IF f = focused
            THEN UNCHANGED <<prio, focused, wanted, cursor, prefetched, seq>>
            ELSE /\ cursor' = [pos |-> 0, total |-> 0] /\ prefetched' = {}
                 /\ wanted' = wanted \cup {f}
                 /\ prio' = Prioritized(Priorities(wanted', f))
                 /\ seq' = TRUE
                 /\ focused' = f
    /\ lost' = lost \ {r}
    /\ UNCHANGED <<have, due, boosted, active, pf, seqFlag>>

\* the set of rushed pieces is taken under its lock
Refocus(r) ==
    /\ st[r].pc = "refocus"
    /\ st' = [st EXCEPT ![r].pc = "reset", ![r].drop = boosted]
    /\ boosted' = {}
    /\ UNCHANGED <<have, prio, due, fileVars, pf, seq, seqFlag, lost, requests>>

\* and those still missing are put back to normal without it
ResetDeadlines(r) ==
    /\ st[r].pc = "reset"
    /\ LET gone == st[r].drop \ have IN
         /\ prio' = [p \in Pieces |-> IF p \in gone THEN 4 ELSE prio[p]]
         /\ due' = due \ gone
    /\ st' = [st EXCEPT ![r].pc = "open", ![r].drop = {}]
    /\ lost' = lost \cup {s \in Streams \ {r} : st[s].pc \in {"slide", "wait", "sent"}}
    /\ UNCHANGED <<have, boosted, fileVars, pf, seq, seqFlag, requests>>

\* note_stream_open: the first stream promotes the played file
Open(r) ==
    /\ st[r].pc = "open"
    /\ active' = active + 1
    /\ prio' = IF active = 0 THEN PlayedAt(4) ELSE prio
    /\ Goto(r, "slide")
    /\ UNCHANGED <<have, due, boosted, focused, wanted, cursor, prefetched, pf, seq, seqFlag, lost, requests>>

\* The extractor reads a range of the file being played, or probes its head;
\* it neither focuses nor counts as a stream.
Extract(r) ==
    /\ st[r].pc = "closed" /\ Requested
    /\ focused # NoFile
    /\ \E h \in Headers : Reader(r, focused, ParseRange(h, Size[focused]), "slide")
    /\ lost' = lost \ {r}
    /\ UNCHANGED <<pieceVars, fileVars, pf, seq, seqFlag>>

At(r) == (Offset[st[r].f] + st[r].pos) \div PieceLength
Far(r) == Min({At(r) + Window, Max(Pieces)})

\* One more piece of the window is rushed.  The extractor keeps away from what
\* is rushed already.
BoostPiece(r) ==
    /\ st[r].pc = "slide" /\ st[r].pos <= st[r].end
    /\ st[r].slid < Far(r)
    /\ LET p == st[r].slid + 1 IN
         /\ st' = [st EXCEPT ![r].slid = p]
         /\ IF r \in Extractors /\ p \in boosted
            THEN UNCHANGED <<prio, due, boosted>>
            ELSE /\ prio' = [prio EXCEPT ![p] = 7]
                 /\ due' = IF p \in have THEN due ELSE due \cup {p}
                 /\ boosted' = boosted \cup {p}
    /\ UNCHANGED <<have, fileVars, pf, seq, seqFlag, lost, requests>>

StartWait(r) ==
    /\ st[r].pc = "slide" /\ st[r].pos <= st[r].end
    /\ st[r].slid >= Far(r)
    /\ Goto(r, "wait")
    /\ UNCHANGED <<pieceVars, fileVars, pf, seq, seqFlag, lost, requests>>

\* mutant: a chunk is cut by the range alone
ChunkOfRange(r) == Min({Chunk, st[r].end - st[r].pos + 1})

\* never past the end of the piece known to be there
ChunkLength(r) ==
    LET pieceLast == (At(r) + 1) * PieceLength - 1 - Offset[st[r].f] IN
    Min({Chunk, st[r].end - st[r].pos + 1, pieceLast - st[r].pos + 1})

\* the piece is there: a chunk goes to the client, and a viewer's cursor is noted
ReadChunk(r) ==
    /\ st[r].pc = "wait" /\ At(r) \in have
    /\ st' = [st EXCEPT ![r].pc = "sent", ![r].pos = @ + ChunkLength(r)]
    /\ cursor' = IF r \in Viewers
                 THEN [pos |-> st[r].pos + ChunkLength(r), total |-> Size[st[r].f]] ELSE cursor
    /\ UNCHANGED <<pieceVars, focused, wanted, active, prefetched, pf, seq, seqFlag, lost, requests>>

\* the client has taken it, after as long as it likes
ClientReads(r) ==
    /\ st[r].pc = "sent"
    /\ Goto(r, "slide")
    /\ UNCHANGED <<pieceVars, fileVars, pf, seq, seqFlag, lost, requests>>

\* mutant: a viewer waits for as long as it takes
WaitForEver(r) ==
    /\ st[r].pc = "slide" /\ st[r].pos > st[r].end
    /\ Goto(r, "close")
    /\ UNCHANGED <<pieceVars, fileVars, pf, seq, seqFlag, lost, requests>>

\* the whole range is out, or the piece did not arrive in time
EndStream(r) ==
    /\ \/ st[r].pc = "slide" /\ st[r].pos > st[r].end
       \/ st[r].pc = "wait" /\ At(r) \notin have
    /\ Goto(r, "close")
    /\ UNCHANGED <<pieceVars, fileVars, pf, seq, seqFlag, lost, requests>>

\* the client goes, or a read fails: the generator is closed
Disconnect(r) ==
    /\ st[r].pc \in {"slide", "wait", "sent"}
    /\ Goto(r, "close")
    /\ UNCHANGED <<pieceVars, fileVars, pf, seq, seqFlag, lost, requests>>

\* note_stream_close: the last viewer demotes the played file
Close(r) ==
    /\ st[r].pc = "close"
    /\ st' = [st EXCEPT ![r] = Closed]
    /\ IF r \in Viewers
       THEN active' = active - 1 /\ prio' = IF active = 1 THEN PlayedAt(1) ELSE prio
       ELSE UNCHANGED <<active, prio>>
    /\ UNCHANGED <<have, due, boosted, focused, wanted, cursor, prefetched, pf, seq, seqFlag, lost, requests>>

----------------------------------------------------------------------------
(* libtorrent, and the policy loops.                                        *)

PieceArrives(p) ==
    /\ p \notin have
    /\ prio[p] > 0 \/ p \in due
    /\ have' = have \cup {p} /\ due' = due \ {p}
    /\ UNCHANGED <<prio, boosted, fileVars, pf, seq, seqFlag, st, lost, requests>>

\* whole pieces on disk from p on, in bytes
Ahead(p) == PieceLength * (Min({q \in p..Max(Pieces) + 1 : q \notin have}) - p)

AdaptiveSequential(bytes) ==
    IF bytes >= HighBytes THEN FALSE ELSE IF bytes <= LowBytes THEN TRUE ELSE seqFlag

\* The playhead is taken to be the first rushed piece; _adaptive_seq is what is
\* compared, whatever focus_file has set meanwhile.
AdaptiveTick ==
    /\ active > 0 /\ boosted # {}
    /\ LET want == AdaptiveSequential(Ahead(Min(boosted))) IN
         /\ seqFlag' = want
         /\ seq' = IF want # seqFlag THEN want ELSE seq
    /\ UNCHANGED <<pieceVars, fileVars, pf, st, lost, requests>>

\* the next video in natural order; samples and extras are too small
NextVideo(f) ==
    LET eligible == {g \in Files : Size[g] >= Max({MinVideo, Size[f] \div 4})}
        later == {g \in eligible : g > f}
    IN IF f \in eligible /\ later # {} THEN Min(later) ELSE NoFile

HeadAndTail(f) ==
    LET last == Offset[f] + Size[f] - 1 IN
    PiecesForRange(Offset[f], Offset[f] + Min({HeadBytes, Size[f]}) - 1)
      \cup PiecesForRange(last - Min({TailBytes, Size[f]}) + 1, last)

FileComplete(f) == PiecesOf(f) \subseteq have
\* nine tenths of the file are read
PositionReached == cursor.total > 0 /\ cursor.pos * 10 >= cursor.total * 9

PrefetchDecide ==
    /\ pf.pc = "idle" /\ active > 0 /\ focused # NoFile /\ PositionReached
    /\ LET nxt == NextVideo(focused) IN
         /\ nxt # NoFile /\ nxt \notin prefetched
         /\ FileComplete(focused)
         /\ pf' = [pc |-> "check", idx |-> focused, nxt |-> nxt]
    /\ UNCHANGED <<pieceVars, fileVars, seq, seqFlag, st, lost, requests>>

\* the decision is dropped if the viewer switched files during the scan
PrefetchCheck ==
    /\ pf.pc = "check"
    /\ pf' = IF focused = pf.idx THEN [pf EXCEPT !.pc = "arm"] ELSE NoPlan
    /\ UNCHANGED <<pieceVars, fileVars, seq, seqFlag, st, lost, requests>>

PrefetchArm ==
    /\ pf.pc = "arm"
    /\ prio' = [p \in Pieces |-> IF p \in HeadAndTail(pf.nxt) THEN 1 ELSE prio[p]]
    /\ prefetched' = prefetched \cup {pf.nxt}
    /\ pf' = NoPlan
    /\ UNCHANGED <<have, due, boosted, focused, wanted, active, cursor, seq, seqFlag, st, lost, requests>>

----------------------------------------------------------------------------
\* what the threads of a request do by themselves
Step(r) ==
    \/ Refocus(r) \/ ResetDeadlines(r) \/ Open(r)
    \/ BoostPiece(r) \/ StartWait(r) \/ ReadChunk(r) \/ EndStream(r) \/ Close(r)

Prefetch == PrefetchDecide \/ PrefetchCheck \/ PrefetchArm

Next ==
    \/ \E r \in Viewers : Serve(r)
    \/ \E r \in Extractors : Extract(r)
    \/ \E r \in Streams : Step(r) \/ ClientReads(r) \/ Disconnect(r)
    \/ \E p \in Pieces : PieceArrives(p)
    \/ AdaptiveTick \/ Prefetch

Spec == Init /\ [][Next]_vars

\* Every request's thread goes on; pieces may never arrive, and clients may
\* never take what they are sent.
FairSpec == Spec /\ \A r \in Streams : WF_vars(Step(r))

----------------------------------------------------------------------------
\* A byte goes out only if every piece it was read from was on disk, wherever
\* the file begins and ends in the torrent (of a step).
OnlyVerifiedBytes ==
    \A r \in Streams :
      st[r].pc = "wait" /\ st'[r].pc = "sent" =>
        PiecesForRange(Offset[st[r].f] + st[r].pos, Offset[st[r].f] + st'[r].pos - 1) \subseteq have

\* A piece a stream waits for has a deadline, unless a later request has
\* dropped the windows of the others.
WaitedIsRushed ==
    \A r \in Viewers \ lost : st[r].pc = "wait" => At(r) \in have \cup due

\* Every stream ends, also when its pieces never arrive; only a client that
\* neither takes its chunk nor goes away holds one open.
StreamsEnd ==
    \A r \in Streams :
      <>[](st[r].pc = "sent") \/ (st[r].pc # "closed" ~> st[r].pc = "closed")

(* What the code does not keep:                                             *)

\* A tick that finds a single viewer with no more than the low mark buffered
\* leaves the download in order.
AdaptiveFollowsPlayhead ==
    [][AdaptiveTick =>
        \A r \in Viewers : active = 1 /\ st[r].pc = "wait" /\ Ahead(At(r)) <= LowBytes => seq']_vars

\* A window is rushed for as long as its stream reads.
WindowStaysRushed == \A r \in Viewers : st[r].pc = "wait" => At(r) \in have \cup due

\* Nothing the viewer still waits for is lowered by a prefetch.
PrefetchNeverLowers ==
    [][pf.pc = "arm" /\ pf'.pc = "idle"
         => \A p \in PiecesOf(focused) \ have : prio'[p] >= prio[p]]_vars
=============================================================================
