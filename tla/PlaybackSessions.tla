--------------------------- MODULE PlaybackSessions ---------------------------
(****************************************************************************)
(* The registry of who is playing what (playback_sessions.py), under the     *)
(* calls of the range route (api/playback.py) and of the HLS routes           *)
(* (api/hls.py).  Times are in units of the activity window; a session is     *)
(* kept for Retention of them after its last activity.                        *)
(****************************************************************************)
EXTENDS Naturals, FiniteSets

CONSTANTS
    Ids,                \* uuids; as many as sessions may be opened (bound)
    Clients, Jobs,      \* connections of the routes, HLS jobs
    Nothing,
    Window, Retention,
    MaxTime             \* bound of the clock

VARIABLES
    now,
    sessions,   \* _sessions
    jobs,       \* _jobs
    used,       \* uuids that were given out
    conv,       \* jobs the converter runs an encoder for
    calls       \* each connection: where its route is, its session or job

sessionVars == <<now, sessions, jobs, used, conv, calls>>

States == {"BUFFERING", "PLAYING", "IDLE", "ENDED"}
Session(kind, client, job, t) ==
    [kind |-> kind, client |-> client, job |-> job, last |-> t, open |-> kind = "source", state |-> "BUFFERING"]
NoCall == [pc |-> "none", sid |-> Nothing, job |-> Nothing]

TypeOK ==
    /\ now \in 0..MaxTime
    /\ DOMAIN sessions \subseteq used /\ used \subseteq Ids
    /\ \A s \in DOMAIN sessions :
         sessions[s] \in [kind : {"source", "hls"}, client : {"ffmpeg", "player"}, job : Jobs \cup {Nothing},
                          last : 0..now, open : BOOLEAN, state : States]
    /\ DOMAIN jobs \subseteq Jobs /\ \A j \in DOMAIN jobs : jobs[j] \in used
    /\ conv \subseteq Jobs
    /\ calls \in [Clients -> [pc : {"none", "stream", "master", "segment", "destroy"},
                              sid : used \cup {Nothing}, job : Jobs \cup {Nothing}]]

Init ==
    /\ now = 0 /\ used = {} /\ conv = {}
    /\ sessions = [s \in {} |-> {}] /\ jobs = [j \in {} |-> Nothing]
    /\ calls = [c \in Clients |-> NoCall]

----------------------------------------------------------------------------
Stale(ss, t) == {s \in DOMAIN ss : ss[s].last + Retention < t}

\* every call reads the clock before it takes the lock
Clock == {now} \cup {t \in 0..now : t + 1 = now}
Without(f, S) == [x \in DOMAIN f \ S |-> f[x]]
With(f, x, v) == [y \in DOMAIN f \cup {x} |-> IF y = x THEN v ELSE f[y]]

\* mutant: the job of a pruned session is forgotten, whichever session has it
PruneJobs(ss, js, t) ==
    /\ sessions' = Without(ss, Stale(ss, t))
    /\ jobs' = Without(js, {ss[s].job : s \in Stale(ss, t)})

\* _prune: stale sessions go, and the jobs that still name them
Prune(ss, js, t) ==
    /\ sessions' = Without(ss, Stale(ss, t))
    /\ jobs' = Without(js, {j \in DOMAIN js : js[j] \in Stale(ss, t) /\ ss[js[j]].job = j})

\* a call of the registry on session s, if it is still there
Noted(s, fields) ==
    sessions' = IF s \in DOMAIN sessions THEN [sessions EXCEPT ![s] = fields] ELSE sessions

----------------------------------------------------------------------------
(* A range request: opened, noted chunk by chunk, closed exactly once.       *)

OpenSource(c) ==
    /\ calls[c] = NoCall
    /\ \E s \in Ids \ used, client \in {"ffmpeg", "player"}, t \in Clock :
         /\ used' = used \cup {s}
         /\ Prune(With(sessions, s, Session("source", client, Nothing, t)), jobs, t)
         /\ calls' = [calls EXCEPT ![c] = [pc |-> "stream", sid |-> s, job |-> Nothing]]
    /\ UNCHANGED <<now, conv>>

NoteBytes(c) ==
    /\ calls[c].pc = "stream"
    /\ LET s == calls[c].sid IN
         \E t \in Clock : Noted(s, [sessions[s] EXCEPT !.last = t, !.state = "PLAYING"])
    /\ UNCHANGED <<now, jobs, used, conv, calls>>

CloseSource(c) ==
    /\ calls[c].pc = "stream"
    /\ LET s == calls[c].sid IN
         \E t \in Clock : Noted(s, [sessions[s] EXCEPT !.last = t, !.state = "IDLE", !.open = FALSE])
    /\ calls' = [calls EXCEPT ![c] = NoCall]
    /\ UNCHANGED <<now, jobs, used, conv>>

----------------------------------------------------------------------------
(* HLS.  Each route calls the converter first and the registry after.        *)

EnsureJob(c) ==
    /\ calls[c] = NoCall
    /\ \E j \in Jobs : conv' = conv \cup {j} /\ calls' = [calls EXCEPT ![c] = [NoCall EXCEPT !.pc = "master", !.job = j]]
    /\ UNCHANGED <<now, sessions, jobs, used>>

RegisterHlsJob(c) ==
    /\ calls[c].pc = "master"
    /\ LET j == calls[c].job IN
         \/ /\ j \in DOMAIN jobs /\ jobs[j] \in DOMAIN sessions
            /\ \E t \in Clock : sessions' = [sessions EXCEPT ![jobs[j]].last = t]
            /\ UNCHANGED <<jobs, used>>
         \/ /\ ~ (j \in DOMAIN jobs /\ jobs[j] \in DOMAIN sessions)
            /\ \E s \in Ids \ used, t \in Clock :
                 /\ used' = used \cup {s}
                 /\ Prune(With(sessions, s, Session("hls", "player", j, t)), With(jobs, j, s), t)
    /\ calls' = [calls EXCEPT ![c] = NoCall]
    /\ UNCHANGED <<now, conv>>

\* a segment: conv.touch does nothing for a job that is gone
TouchSegment(c) ==
    /\ calls[c] = NoCall
    /\ \E j \in Jobs : calls' = [calls EXCEPT ![c] = [NoCall EXCEPT !.pc = "segment", !.job = j]]
    /\ UNCHANGED <<now, sessions, jobs, used, conv>>

TouchHls(c) ==
    /\ calls[c].pc = "segment"
    /\ LET j == calls[c].job IN
         IF j \in DOMAIN jobs
         THEN \E t \in Clock : Noted(jobs[j], [sessions[jobs[j]] EXCEPT !.last = t, !.state = "PLAYING"])
         ELSE UNCHANGED sessions
    /\ calls' = [calls EXCEPT ![c] = NoCall]
    /\ UNCHANGED <<now, jobs, used, conv>>

Destroy(c) ==
    /\ calls[c] = NoCall
    /\ \E j \in Jobs : conv' = conv \ {j} /\ calls' = [calls EXCEPT ![c] = [NoCall EXCEPT !.pc = "destroy", !.job = j]]
    /\ UNCHANGED <<now, sessions, jobs, used>>

EndHls(c) ==
    /\ calls[c].pc = "destroy"
    /\ LET j == calls[c].job IN
         /\ jobs' = Without(jobs, {j})
         /\ IF j \in DOMAIN jobs
            THEN \E t \in Clock : Noted(jobs[j], [sessions[jobs[j]] EXCEPT !.last = t, !.state = "ENDED"])
            ELSE UNCHANGED sessions
    /\ calls' = [calls EXCEPT ![c] = NoCall]
    /\ UNCHANGED <<now, used, conv>>

----------------------------------------------------------------------------
Snapshot ==
    /\ Prune(sessions, jobs, now)
    /\ UNCHANGED <<now, used, conv, calls>>

\* what a snapshot calls active
ActiveSessions ==
    {s \in DOMAIN sessions : /\ now - sessions[s].last <= Window
                             /\ sessions[s].state # "ENDED" /\ sessions[s].client # "ffmpeg"}

Tick == now < MaxTime /\ now' = now + 1 /\ UNCHANGED <<sessions, jobs, used, conv, calls>>

Next ==
    \/ \E c \in Clients :
         \/ OpenSource(c) \/ NoteBytes(c) \/ CloseSource(c)
         \/ EnsureJob(c) \/ RegisterHlsJob(c) \/ TouchSegment(c) \/ TouchHls(c) \/ Destroy(c) \/ EndHls(c)
    \/ Snapshot \/ Tick

Spec == Init /\ [][Next]_sessionVars

----------------------------------------------------------------------------
\* A job has one session that can play, the one the next segment will touch,
\* and a session is found by its job for as long as it has not ended.
OneSessionPerJob ==
    \A s \in DOMAIN sessions : sessions[s].kind = "hls" /\ sessions[s].state # "ENDED"
        => sessions[s].job \in DOMAIN jobs /\ jobs[sessions[s].job] = s

\* A session nobody has open is not shown as playing, whatever was noted late.
ClosedNeverPlays ==
    \A s \in DOMAIN sessions : sessions[s].kind = "source" /\ sessions[s].state = "PLAYING"
        => \E c \in Clients : calls[c].pc = "stream" /\ calls[c].sid = s

SessionsConsistent == OneSessionPerJob /\ ClosedNeverPlays

(* What the code does not keep:                                             *)

\* A client that gets bytes again after a pause is shown as active.
ReadingIsActive ==
    [][\A c \in Clients : NoteBytes(c) =>
         \E s \in DOMAIN sessions' : s = calls[c].sid]_sessionVars

\* A job that was destroyed has no session that could play.
DestroyedHasEnded == \A j \in Jobs \ conv :
    (\A c \in Clients : calls[c].job # j) => j \notin DOMAIN jobs
=============================================================================
