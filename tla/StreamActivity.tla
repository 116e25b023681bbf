---------------------------- MODULE StreamActivity ----------------------------
(****************************************************************************)
(* What an open stream does to its torrent and to the others: the count of  *)
(* open streams and the priority of the played file (Handle.mark_active,    *)
(* mark_idle, focus_file), the download caps of the torrents nobody         *)
(* watches, and pausing and resuming by the seed policy, the prefetcher and *)
(* the opening of a stream (Engine.note_stream_open, _enforce_seed_policy,  *)
(* _prefetch_tick in stremiosrv/torrent/engine.py; tracked_stream in        *)
(* stremiosrv/api/playback.py).                                             *)
(*                                                                          *)
(* Only the count is changed under a lock.  What follows from it is set     *)
(* after the lock is released, so every call of the session is a step of    *)
(* its own.  Engine.add puts a new Handle in the table, also for a torrent  *)
(* that is there already, while streams go on with the one they hold.  That *)
(* a torrent leaves the session is left out (see FileSelection).            *)
(****************************************************************************)
EXTENDS Naturals, FiniteSets

CONSTANTS
    Torrents,
    Copies,             \* a torrent has one Handle of each copy at a time: a bound
    Files,
    Streams,            \* the threads that serve a byte range each
    Seeder, Prefetcher, \* the seed policy thread and the prefetch thread
    MaxStreams,         \* the cap on torrents played at once; 0 is none
    Background,         \* what runs besides: a bound on the instance
    NoHandle, NoFile, NoTorrent

Handles == Torrents \X Copies

ASSUME StreamAssumption ==
    /\ IsFiniteSet(Streams)
    /\ Seeder \notin Streams /\ Prefetcher \notin Streams /\ Seeder # Prefetcher
    /\ NoTorrent \notin Torrents /\ NoHandle \notin Handles /\ NoFile \notin Files
    /\ MaxStreams \in Nat
    /\ Background \subseteq {"seed", "prefetch", "swarm"}

Threads == Streams \cup {Seeder, Prefetcher}

VARIABLES
    table,      \* Engine._torrents: the Handle of each torrent, if it is in the session
    active,     \* Handle._active: the streams opened through each Handle
    focus,      \* Handle._focused_idx: the file in focus
    flag,       \* Handle._paused
    high,       \* the session: the files of each torrent with the active priority
    capped,     \* the torrents with a download cap
    finished,   \* the torrents all wanted data of which is there
    paused,     \* the torrents that are paused
    th,         \* the threads
    raced       \* history: the settings two threads wrote at once, or one did that is not
                \* the table's Handle, or that add() left behind, when last decided

vars == <<table, active, focus, flag, high, capped, finished, paused, th, raced>>

\* act is the activity a thread has read and is going to act on
Thread ==
    [pc : {"idle", "admit", "focus", "apply", "set", "open", "resume", "unflag", "mark",
           "promote", "policy", "caps", "limit", "stream", "demote", "pause", "flag"},
     h : Handles \cup {NoHandle}, file : Files \cup {NoFile}, act : BOOLEAN,
     todo : SUBSET Handles, next : Handles \cup {NoHandle}, cap : BOOLEAN, open : BOOLEAN]

Idle == [pc |-> "idle", h |-> NoHandle, file |-> NoFile, act |-> FALSE,
         todo |-> {}, next |-> NoHandle, cap |-> FALSE, open |-> FALSE]

\* the three settings that can be raced: of a torrent, or of all of them
Settings == ({"high", "paused"} \X Torrents) \cup {<<"caps", NoTorrent>>}

TypeOK ==
    /\ table \in [Torrents -> Handles \cup {NoHandle}]
    /\ active \in [Handles -> 0..Cardinality(Streams)]
    /\ focus \in [Handles -> Files \cup {NoFile}]
    /\ flag \in SUBSET Handles
    /\ high \in [Torrents -> SUBSET Files]
    /\ capped \in SUBSET Torrents
    /\ finished \in SUBSET Torrents
    /\ paused \in SUBSET Torrents
    /\ th \in [Threads -> Thread]
    /\ raced \in SUBSET Settings
    /\ \A x \in Threads :
          /\ th[x].pc # "idle" => th[x].h \in Handles
          /\ th[x].pc = "limit" => th[x].next \in Handles

\* The resume record of a torrent, which add() reads, has the priorities it had.
Init ==
    /\ table = [t \in Torrents |-> NoHandle]
    /\ active = [h \in Handles |-> 0]
    /\ focus = [h \in Handles |-> NoFile]
    /\ flag = {}
    /\ high \in [Torrents -> {{}} \cup {{f} : f \in Files}]
    /\ capped = {}
    /\ finished = {}
    /\ paused = {}
    /\ th = [x \in Threads |-> Idle]
    /\ raced = {}

session == <<high, capped, finished, paused>>
fields  == <<active, focus, flag>>

Goto(x, p) == th' = [th EXCEPT ![x].pc = p]

With(S, t, b) == IF b THEN S \cup {t} ELSE S \ {t}

InSession == {t \in Torrents : table[t] # NoHandle}

\* is_active
Watched(h) == active[h] > 0

\* the torrents that are played, as the table has it
Active == {t \in InSession : Watched(table[t])}

Tor(x) == th[x].h[1]

\* the threads about to write a setting
Writing(s) ==
    LET pcs == CASE s[1] = "high"   -> {"apply", "set", "promote", "demote"}
                 [] s[1] = "paused" -> {"resume", "unflag", "pause", "flag"}
                 [] s[1] = "caps"   -> {"caps", "limit"}
    IN  {x \in Threads : th[x].pc \in pcs /\ (s[1] = "caps" \/ Tor(x) = s[2])}

\* A thread that decides to write a setting of a torrent alone, through the Handle of
\* the table, puts it right again.
Decides(s, h) == raced' = With(raced, <<s, h[1]>>, Writing(<<s, h[1]>>) # {} \/ table[h[1]] # h)

----------------------------------------------------------------------------
(* Engine.add, for a request that misses the torrent, or by /create, a     *)
(* download or a subtitle: a fresh Handle.                                 *)

Unused(h) ==
    /\ h \notin {table[t] : t \in Torrents}
    /\ \A x \in Threads : h # th[x].h /\ h \notin th[x].todo /\ h # th[x].next

Add(t) ==
    /\ \E h \in Handles :
          /\ h[1] = t /\ Unused(h)
          /\ table' = [table EXCEPT ![t] = h]
          /\ active' = [active EXCEPT ![h] = 0]
          /\ focus' = [focus EXCEPT ![h] = NoFile]
          /\ flag' = flag \ {h}
    /\ raced' = raced \cup {<<"high", t>>, <<"caps", NoTorrent>>}
                     \cup IF t \in InSession THEN {<<"paused", t>>} ELSE {}
    /\ UNCHANGED <<session, th>>

----------------------------------------------------------------------------
(* GET /<torrent>/<file>                                                   *)

\* the request has the Handle of the torrent, and its metadata
Serve(x, t, f) ==
    /\ th[x].pc = "idle"
    /\ t \in InSession
    /\ th' = [th EXCEPT ![x] = [Idle EXCEPT !.pc = "admit", !.h = table[t], !.file = f, !.open = TRUE]]
    /\ UNCHANGED <<table, fields, session, raced>>

\* it is let in: another stream of a torrent already played is no news
Admit(x) ==
    /\ th[x].pc = "admit"
    /\ MaxStreams = 0 \/ Watched(th[x].h) \/ Cardinality(Active) < MaxStreams
    /\ Goto(x, "focus")
    /\ UNCHANGED <<table, fields, session, raced>>

\* focus_file: the file is the one in focus already, or the priorities are computed,
\* with that of the file after whether a stream is open now
Focus(x) ==
    LET h == th[x].h
    IN  /\ th[x].pc = "focus"
        /\ IF focus[h] = th[x].file
           THEN Goto(x, "open") /\ UNCHANGED raced
           ELSE /\ th' = [th EXCEPT ![x].pc = "apply", ![x].act = Watched(h)]
                /\ Decides("high", h)
        /\ UNCHANGED <<table, fields, session>>

\* prioritize_files; the new file may be there or not
FocusApply(x) ==
    /\ th[x].pc = "apply"
    /\ high' = [high EXCEPT ![Tor(x)] = IF th[x].act THEN {th[x].file} ELSE {}]
    /\ \E b \in {FALSE, "swarm" \in Background} : finished' = With(finished, Tor(x), b)
    /\ Goto(x, "set")
    /\ UNCHANGED <<table, fields, capped, paused, raced>>

\* _focused_idx = idx
FocusSet(x) ==
    /\ th[x].pc = "set"
    /\ focus' = [focus EXCEPT ![th[x].h] = th[x].file]
    /\ Goto(x, "open")
    /\ UNCHANGED <<table, active, flag, session, raced>>

\* refused, a HEAD request, or a client gone before the body starts
ServeEnds(x) ==
    /\ th[x].pc \in {"admit", "open"} /\ x \in Streams
    /\ th' = [th EXCEPT ![x] = Idle]
    /\ UNCHANGED <<table, fields, session, raced>>

\* a stream goes on to be counted, the prefetcher is done
Opened(x) == IF x \in Streams THEN [th[x] EXCEPT !.pc = "mark"] ELSE Idle

\* note_stream_open, and the end of the prefetcher's tick: a torrent that is
\* paused is resumed; a stream leaves a finished one paused
Open(x) ==
    LET h == th[x].h
    IN  /\ th[x].pc = "open"
        /\ IF h \in flag /\ (x \in Streams => h[1] \notin finished)
           THEN Goto(x, "resume") /\ Decides("paused", h)
           ELSE th' = [th EXCEPT ![x] = Opened(x)] /\ UNCHANGED raced
        /\ UNCHANGED <<table, fields, session>>

\* resume: first the session ...
Resume(x) ==
    /\ th[x].pc = "resume"
    /\ paused' = paused \ {Tor(x)}
    /\ Goto(x, "unflag")
    /\ UNCHANGED <<table, fields, high, capped, finished, raced>>

\* ... then the flag
Unflag(x) ==
    /\ th[x].pc = "unflag"
    /\ flag' = flag \ {th[x].h}
    /\ th' = [th EXCEPT ![x] = Opened(x)]
    /\ UNCHANGED <<table, active, focus, session, raced>>

\* mark_active, under the lock: the first stream promotes the file in focus
Mark(x) ==
    LET h == th[x].h
    IN  /\ th[x].pc = "mark"
        /\ active' = [active EXCEPT ![h] = @ + 1]
        /\ IF active[h] = 0 THEN Goto(x, "promote") /\ Decides("high", h)
                            ELSE Goto(x, "policy") /\ UNCHANGED raced
        /\ UNCHANGED <<table, focus, flag, session>>

Focused(x) == {focus[th[x].h]} \cap Files

Promote(x) ==
    /\ th[x].pc = "promote"
    /\ high' = [high EXCEPT ![Tor(x)] = @ \cup Focused(x)]
    /\ Goto(x, "policy")
    /\ UNCHANGED <<table, fields, capped, finished, paused, raced>>

\* the stream x is no longer counted: the last of its Handle goes on to demote
Ends(x, last) ==
    /\ th' = [th EXCEPT ![x].pc = IF last THEN "demote" ELSE "policy", ![x].open = FALSE]
    /\ IF last THEN Decides("high", th[x].h) ELSE UNCHANGED raced
    /\ UNCHANGED <<table, focus, flag, session>>

\* mutant: the last two streams both demote
CloseEarly(x) ==
    LET h == th[x].h
    IN  /\ th[x].pc = "stream"
        /\ active' = [active EXCEPT ![h] = @ - 1]
        /\ Ends(x, active[h] <= 2)

\* mutant: a stream that ends before another one of its torrent is not counted down
CloseLastOnly(x) ==
    LET h == th[x].h
    IN  /\ th[x].pc = "stream"
        /\ active' = [active EXCEPT ![h] = IF @ = 2 THEN @ ELSE @ - 1]
        /\ Ends(x, active[h] = 1)

\* the stream ends, by itself or because the client is gone: mark_idle, under
\* the lock; the last one demotes the file
Close(x) ==
    LET h == th[x].h
    IN  /\ th[x].pc = "stream"
        /\ active' = [active EXCEPT ![h] = @ - 1]
        /\ Ends(x, active[h] = 1)

Demote(x) ==
    /\ th[x].pc = "demote"
    /\ high' = [high EXCEPT ![Tor(x)] = @ \ Focused(x)]
    /\ Goto(x, "policy")
    /\ UNCHANGED <<table, fields, capped, finished, paused, raced>>

\* _apply_bandwidth_policy: is anything being played? ...
Policy(x) ==
    /\ th[x].pc = "policy"
    /\ th' = [th EXCEPT ![x].pc = "caps", ![x].act = Active # {},
                        ![x].todo = {table[t] : t \in InSession}]
    /\ raced' = With(raced, <<"caps", NoTorrent>>, Writing(<<"caps", NoTorrent>>) # {})
    /\ UNCHANGED <<table, fields, session>>

\* ... then, torrent after torrent: is it? ...
Cap(x, h) ==
    /\ th[x].pc = "caps" /\ h \in th[x].todo
    /\ th' = [th EXCEPT ![x].pc = "limit", ![x].todo = @ \ {h}, ![x].next = h,
                        ![x].cap = th[x].act /\ ~Watched(h)]
    /\ UNCHANGED <<table, fields, session, raced>>

\* ... and cap it, or lift its cap
Limit(x) ==
    /\ th[x].pc = "limit"
    /\ capped' = With(capped, th[x].next[1], th[x].cap)
    /\ th' = [th EXCEPT ![x].pc = "caps", ![x].next = NoHandle, ![x].cap = FALSE]
    /\ UNCHANGED <<table, fields, high, finished, paused, raced>>

CapsDone(x) ==
    /\ th[x].pc = "caps" /\ th[x].todo = {}
    /\ th' = [th EXCEPT ![x] = IF th[x].open THEN [Idle EXCEPT !.pc = "stream", !.h = th[x].h, !.open = TRUE]
                               ELSE Idle]
    /\ UNCHANGED <<table, fields, session, raced>>

----------------------------------------------------------------------------
(* The seed policy, the prefetcher and the swarm                           *)

\* should_stop_seeding: a finished torrent, not paused, whose time has come
StopSeeding(t) ==
    /\ "seed" \in Background /\ th[Seeder].pc = "idle"
    /\ t \in finished \cap InSession /\ table[t] \notin flag
    /\ th' = [th EXCEPT ![Seeder] = [Idle EXCEPT !.pc = "pause", !.h = table[t]]]
    /\ Decides("paused", table[t])
    /\ UNCHANGED <<table, fields, session>>

\* pause: first the session ...
Pause ==
    /\ th[Seeder].pc = "pause"
    /\ paused' = paused \cup {Tor(Seeder)}
    /\ Goto(Seeder, "flag")
    /\ UNCHANGED <<table, fields, high, capped, finished, raced>>

\* ... then the flag
Flag ==
    /\ th[Seeder].pc = "flag"
    /\ flag' = flag \cup {th[Seeder].h}
    /\ th' = [th EXCEPT ![Seeder] = Idle]
    /\ UNCHANGED <<table, active, focus, session, raced>>

\* _prefetch_tick: the head of the next file is wanted now
Prefetch(t) ==
    /\ "prefetch" \in Background /\ th[Prefetcher].pc = "idle"
    /\ t \in Active
    /\ finished' = finished \ {t}
    /\ th' = [th EXCEPT ![Prefetcher] = [Idle EXCEPT !.pc = "open", !.h = table[t]]]
    /\ UNCHANGED <<table, fields, high, capped, paused, raced>>

\* the swarm delivers
Complete(t) ==
    /\ "swarm" \in Background /\ t \in InSession \ (finished \cup paused)
    /\ finished' = finished \cup {t}
    /\ UNCHANGED <<table, fields, high, capped, paused, th, raced>>

----------------------------------------------------------------------------
StreamStep(x) ==
    \/ Admit(x) \/ Focus(x) \/ FocusApply(x) \/ FocusSet(x) \/ ServeEnds(x) \/ Mark(x) \/ Promote(x)
    \/ Close(x) \/ Demote(x) \/ Policy(x) \/ Limit(x) \/ CapsDone(x)
    \/ \E t \in Torrents, f \in Files : Serve(x, t, f)
    \/ \E h \in Handles : Cap(x, h)

Next ==
    \/ \E x \in Streams : StreamStep(x)
    \/ \E x \in Streams \cup {Prefetcher} : Open(x) \/ Resume(x) \/ Unflag(x)
    \/ \E t \in Torrents : Add(t) \/ StopSeeding(t) \/ Prefetch(t) \/ Complete(t)
    \/ Pause \/ Flag

Spec == Init /\ [][Next]_vars

----------------------------------------------------------------------------
\* A thread's decision has not been acted on yet.
Settled(s) == s \notin raced /\ Writing(s) = {}

\* The count agrees with the streams that were opened through a Handle and not
\* closed, also while another Handle of the torrent has taken its place.
ActiveCountsStreams ==
    \A h \in Handles :
        active[h] = Cardinality({x \in Streams :
            th[x].h = h /\ th[x].open /\ th[x].pc \in {"promote", "policy", "caps", "limit", "stream"}})

\* Whatever happened before: once a thread alone has decided on a setting through the
\* table's Handle, and has written it, the file in focus has the active priority
\* exactly while a stream is open, the bandwidth policy caps the torrents that are not
\* played while another one is, and the flag the seed policy and note_stream_open
\* decide by tells whether the session has paused the torrent - until two threads
\* decide at once, or add() replaces the Handle or brings a torrent.
SettledAgrees ==
    /\ \A t \in InSession :
         /\ Settled(<<"high", t>>) =>
              (focus[table[t]] \in high[t] <=> t \in Active)
         /\ Settled(<<"paused", t>>) => (table[t] \in flag <=> t \in paused)
    /\ Settled(<<"caps", NoTorrent>>) /\ (\A x \in Streams : th[x].pc \notin {"promote", "demote", "policy"})
         => capped = IF Active = {} THEN {} ELSE InSession \ Active

(* What the comments say and the code does not keep                        *)

Quiet == \A x \in Threads : th[x].pc \in {"idle", "stream"}

\* The torrents a stream is open on.
Played == {Tor(x) : x \in {y \in Streams : th[y].pc = "stream"}}

\* A paused torrent whose file "still needs downloading" is resumed, "else
\* playback would stall on a paused torrent".
PlayingIsNotPaused ==
    Quiet => Played \cap paused \subseteq finished

\* "The first concurrent stream promotes the played file to full (active)
\* priority so it out-competes the background fill": a torrent added again while
\* it is played is demoted by the next stream that ends.
WatchedIsActive == Quiet => \A t \in Played : high[t] # {}

\* "Cap the download rate of the OTHERS so active playback isn't crowded": a
\* torrent that joins while another is played has no cap.
OthersAreCapped == Quiet /\ Played # {} => InSession \ Played \subseteq capped

\* The caps are lifted "when nothing is playing".
CapsAreLifted == Quiet /\ Played = {} => capped = {}

\* At most max_streams torrents are streamed at once.
MaxStreamsRespected == MaxStreams = 0 \/ Cardinality(Active) <= MaxStreams
=============================================================================
