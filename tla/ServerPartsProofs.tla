--------------------------- MODULE ServerPartsProofs ---------------------------
(* Proofs about the parts of ServerParts, for any parameters: each part has  *)
(* its own, and a step of the whole is a step of one part.                    *)
EXTENDS ServerParts, FiniteSetTheorems, SequenceTheorems, TLAPS

\* A behaviour of the whole begins as one of the part that runs, ...
LEMMA PartsBegin ==
    ASSUME Init
    PROVE  /\ part = "sessions" => PS!Init
           /\ part = "access" => LA!Init
           /\ part = "limiter" => RL!Init
           /\ part = "pipeline" => TP!Init
           /\ part = "admin" => TA!Init
           /\ part = "ass" => EA!Init
           /\ part = "proxy" => MP!Init
  BY DEF Init

\* ... and its steps are steps of that part.
LEMMA PartsStep ==
    ASSUME [Next]_allVars
    PROVE  /\ part' = part
           /\ part = "sessions" => [PS!Next]_sessionVars
           /\ part = "access" => [LA!Next]_accessVars
           /\ part = "limiter" => [RL!Next]_limiterVars
           /\ part = "pipeline" => [TP!Next]_pipeVars
           /\ part = "admin" => [TA!Next]_adminVars
           /\ part = "ass" => [EA!Next]_assVars
           /\ part = "proxy" => [MP!Next]_proxyVars
  <1>1. CASE UNCHANGED allVars
    BY <1>1 DEF allVars
  <1>2. CASE Next
    BY <1>2 DEF Next, Sessions, Access, Limiter, Pipeline, Admin, Ass, Proxy
  <1> QED  BY <1>1, <1>2

----------------------------------------------------------------------------
(* Who is playing what (PlaybackSessions).                                  *)

\* what the parameters are: times, and a mark that is no job
SessionParameters ==
    /\ Retention \in Nat /\ SessionsUntil \in Nat
    /\ Nothing \notin Jobs

Records == [kind : {"source", "hls"}, client : {"ffmpeg", "player"}, job : Jobs \cup {Nothing},
            last : Nat, open : BOOLEAN, state : PS!States]
Calls == [pc : {"none", "stream", "master", "segment", "destroy"}, sid : Ids \cup {Nothing}, job : Jobs \cup {Nothing}]

\* the two dictionaries hold what they are meant to, under ids that were given out
Filled(ss, js, ids) ==
    /\ ss = [s \in DOMAIN ss |-> ss[s]] /\ DOMAIN ss \subseteq ids
    /\ \A s \in DOMAIN ss : ss[s] \in Records
    /\ js = [j \in DOMAIN js |-> js[j]] /\ \A j \in DOMAIN js : js[j] \in ids

\* a job leads to its own session, as long as there is one, and the session of a
\* job that has not ended is found through it
Paired(ss, js) ==
    /\ \A j \in DOMAIN js : js[j] \in DOMAIN ss => ss[js[j]].kind = "hls" /\ ss[js[j]].job = j
    /\ \A s \in DOMAIN ss : ss[s].kind = "hls" /\ ss[s].state # "ENDED" => ss[s].job \in DOMAIN js /\ js[ss[s].job] = s

\* a range route has a session of its kind, and only such a session plays
Streamed(ss) ==
    /\ \A c \in Clients : calls[c].pc = "stream" =>
         calls[c].sid \in used /\ (calls[c].sid \in DOMAIN ss => ss[calls[c].sid].kind = "source")
    /\ \A s \in DOMAIN ss : ss[s].kind = "source" /\ ss[s].state = "PLAYING"
         => \E c \in Clients : calls[c].pc = "stream" /\ calls[c].sid = s

SessionsIInv ==
    /\ now \in Nat /\ calls \in [Clients -> Calls]
    /\ \A c \in Clients : calls[c].pc \in {"master", "segment", "destroy"} => calls[c].job \in Jobs
    /\ Filled(sessions, jobs, used) /\ Paired(sessions, jobs) /\ Streamed(sessions)

----------------------------------------------------------------------------
\* The clock a call has read.
LEMMA ClockIsTime ==
    ASSUME now \in Nat
    PROVE  PS!Clock \subseteq Nat
  BY DEF PS!Clock

\* What _prune leaves is still filled and paired: the jobs of a stale session go with it.
LEMMA PruneKeeps ==
    ASSUME NEW ss, NEW js, NEW ids, NEW t \in Nat, SessionParameters,
           Filled(ss, js, ids), Paired(ss, js), PS!Prune(ss, js, t)
    PROVE  /\ Filled(sessions', jobs', ids) /\ Paired(sessions', jobs')
           /\ DOMAIN sessions' \subseteq DOMAIN ss /\ \A s \in DOMAIN sessions' : sessions'[s] = ss[s]
  <1> DEFINE stale == PS!Stale(ss, t)
             named == {j \in DOMAIN js : js[j] \in stale /\ ss[js[j]].job = j}
  <1>1. sessions' = [s \in DOMAIN ss \ stale |-> ss[s]] /\ jobs' = [j \in DOMAIN js \ named |-> js[j]]
    BY DEF PS!Prune, PS!Without
  <1> HIDE DEF stale
  <1>2. Filled(sessions', jobs', ids)
    BY <1>1 DEF Filled
  <1>3. Paired(sessions', jobs')
    <2>1. \A j \in DOMAIN jobs' : jobs'[j] \in DOMAIN sessions' =>
            sessions'[jobs'[j]].kind = "hls" /\ sessions'[jobs'[j]].job = j
      BY <1>1 DEF Paired
    <2>2. ASSUME NEW s \in DOMAIN sessions', sessions'[s].kind = "hls", sessions'[s].state # "ENDED"
          PROVE  sessions'[s].job \in DOMAIN jobs' /\ jobs'[sessions'[s].job] = s
      <3>1. s \in DOMAIN ss /\ s \notin stale /\ sessions'[s] = ss[s]
        BY <1>1
      <3>2. ss[s].job \in DOMAIN js /\ js[ss[s].job] = s
        BY <2>2, <3>1 DEF Paired
      <3>3. ss[s].job \notin named
        BY <3>1, <3>2
      <3> QED  BY <1>1, <3>1, <3>2, <3>3
    <2> QED  BY <2>1, <2>2 DEF Paired
  <1> QED  BY <1>1, <1>2, <1>3

\* A session that is noted: its kind and job stay, and what it is noted as fits.
LEMMA NotedKeeps ==
    ASSUME SessionsIInv, NEW s, NEW r, PS!Noted(s, r), UNCHANGED <<jobs, used, calls>>,
           s \in DOMAIN sessions =>
             /\ r \in Records /\ r.kind = sessions[s].kind /\ r.job = sessions[s].job
             /\ r.kind = "hls" /\ r.state # "ENDED" => r.job \in DOMAIN jobs /\ jobs[r.job] = s
             /\ r.kind = "source" /\ r.state = "PLAYING" => \E c \in Clients : calls[c].pc = "stream" /\ calls[c].sid = s
    PROVE  Filled(sessions, jobs, used)' /\ Paired(sessions, jobs)' /\ Streamed(sessions)'
  <1>1. CASE s \notin DOMAIN sessions
    BY <1>1 DEF PS!Noted, SessionsIInv, Filled, Paired, Streamed
  <1>2. CASE s \in DOMAIN sessions
    <2>1. sessions = [u \in DOMAIN sessions |-> sessions[u]]
      BY DEF SessionsIInv, Filled
    <2>2. /\ DOMAIN sessions' = DOMAIN sessions /\ sessions' = [u \in DOMAIN sessions |-> sessions'[u]]
          /\ \A u \in DOMAIN sessions : sessions'[u] = IF u = s THEN r ELSE sessions[u]
      BY <1>2, <2>1 DEF PS!Noted
    <2>3. Filled(sessions, jobs, used)'
      BY <1>2, <2>2 DEF SessionsIInv, Filled
    <2>4. Paired(sessions, jobs)'
      BY <1>2, <2>2 DEF SessionsIInv, Paired
    <2>5. Streamed(sessions)'
      BY <1>2, <2>2 DEF SessionsIInv, Streamed
    <2> QED  BY <2>3, <2>4, <2>5
  <1> QED  BY <1>1, <1>2

\* A new session, of a connection or of a job without one.
LEMMA AddedIsFine ==
    ASSUME SessionsIInv, NEW s \in Ids \ used, NEW r \in Records, r.kind = "source", r.state = "BUFFERING"
    PROVE  Filled(PS!With(sessions, s, r), jobs, used \cup {s}) /\ Paired(PS!With(sessions, s, r), jobs)
  <1> DEFINE ss == PS!With(sessions, s, r)
  <1>1. /\ DOMAIN ss = DOMAIN sessions \cup {s} /\ ss = [u \in DOMAIN ss |-> ss[u]]
        /\ \A u \in DOMAIN ss : ss[u] = IF u = s THEN r ELSE sessions[u]
    BY DEF PS!With
  <1> HIDE DEF ss
  <1>2. Filled(ss, jobs, used \cup {s})
    BY <1>1 DEF SessionsIInv, Filled
  <1>3. Paired(ss, jobs)
    <2>1. s \notin DOMAIN sessions /\ \A j \in DOMAIN jobs : jobs[j] # s
      BY DEF SessionsIInv, Filled
    <2> QED  BY <1>1, <2>1 DEF SessionsIInv, Paired
  <1> QED  BY <1>2, <1>3 DEF ss

LEMMA OpenKeeps ==
    ASSUME SessionParameters, SessionsIInv, NEW c \in Clients, PS!OpenSource(c)
    PROVE  SessionsIInv'
  <1>1. PICK s \in Ids \ used, client \in {"ffmpeg", "player"}, t \in PS!Clock :
          /\ used' = used \cup {s}
          /\ PS!Prune(PS!With(sessions, s, PS!Session("source", client, Nothing, t)), jobs, t)
          /\ calls' = [calls EXCEPT ![c] = [pc |-> "stream", sid |-> s, job |-> Nothing]]
    BY DEF PS!OpenSource
  <1> DEFINE r == PS!Session("source", client, Nothing, t)
             ss == PS!With(sessions, s, r)
  <1>2. now \in Nat /\ now' = now /\ t \in Nat
    BY ClockIsTime DEF SessionsIInv, PS!OpenSource
  <1>3. r \in Records /\ r.kind = "source" /\ r.state = "BUFFERING"
    BY <1>2 DEF PS!Session, Records, PS!States
  <1> HIDE DEF r
  <1>4. Filled(ss, jobs, used \cup {s}) /\ Paired(ss, jobs)
    BY <1>3, AddedIsFine
  <1>5. \A u \in DOMAIN ss : ss[u] = IF u = s THEN r ELSE sessions[u]
    BY DEF PS!With
  <1>6. PS!Prune(ss, jobs, t)
    BY <1>1 DEF r
  <1> HIDE DEF ss
  <1>7. /\ Filled(sessions, jobs, used)' /\ Paired(sessions, jobs)'
        /\ DOMAIN sessions' \subseteq DOMAIN ss /\ \A u \in DOMAIN sessions' : sessions'[u] = ss[u]
    BY <1>1, <1>2, <1>4, <1>6, PruneKeeps
  <1>8. DOMAIN ss = DOMAIN sessions \cup {s}
    BY DEF ss, PS!With
  <1>9. /\ calls' \in [Clients -> Calls] /\ calls[c].pc = "none"
        /\ \A d \in Clients : calls'[d] = IF d = c THEN [pc |-> "stream", sid |-> s, job |-> Nothing] ELSE calls[d]
    BY <1>1 DEF SessionsIInv, Calls, PS!OpenSource, PS!NoCall
  <1>10. Streamed(sessions)'
    <2>1. ASSUME NEW d \in Clients, calls'[d].pc = "stream"
          PROVE  calls'[d].sid \in used' /\ (calls'[d].sid \in DOMAIN sessions' => sessions'[calls'[d].sid].kind = "source")
      BY <1>1, <1>3, <1>5, <1>7, <1>8, <1>9, <2>1 DEF SessionsIInv, Streamed
    <2>2. ASSUME NEW u \in DOMAIN sessions', sessions'[u].kind = "source", sessions'[u].state = "PLAYING"
          PROVE  \E d \in Clients : calls'[d].pc = "stream" /\ calls'[d].sid = u
      <3>1. u # s /\ u \in DOMAIN sessions /\ sessions'[u] = sessions[u]
        BY <1>3, <1>5, <1>7, <1>8, <2>2
      <3>2. PICK d \in Clients : calls[d].pc = "stream" /\ calls[d].sid = u
        BY <2>2, <3>1 DEF SessionsIInv, Streamed
      <3> QED  BY <3>2, <1>9
    <2> QED  BY <2>1, <2>2 DEF Streamed
  <1> QED  BY <1>2, <1>7, <1>9, <1>10 DEF SessionsIInv

\* Bytes are noted by a route that streams.
LEMMA NoteKeeps ==
    ASSUME SessionParameters, SessionsIInv, NEW c \in Clients, PS!NoteBytes(c)
    PROVE  SessionsIInv'
  <1> DEFINE s == calls[c].sid
  <1>1. /\ calls[c].pc = "stream" /\ UNCHANGED <<now, jobs, used, calls>>
    BY DEF PS!NoteBytes
  <1>2. PICK t \in PS!Clock : PS!Noted(s, [sessions[s] EXCEPT !.last = t, !.state = "PLAYING"])
    BY DEF PS!NoteBytes
  <1> DEFINE r == [sessions[s] EXCEPT !.last = t, !.state = "PLAYING"]
  <1>3. t \in Nat
    BY <1>2, ClockIsTime DEF SessionsIInv
  <1>4. s \in DOMAIN sessions => r \in Records /\ r.kind = "source" /\ r.kind = sessions[s].kind /\ r.job = sessions[s].job
    <2> SUFFICES ASSUME s \in DOMAIN sessions
                 PROVE  r \in Records /\ r.kind = "source" /\ r.kind = sessions[s].kind /\ r.job = sessions[s].job
      OBVIOUS
    <2>1. sessions[s] \in Records /\ sessions[s].kind = "source" /\ "PLAYING" \in PS!States
      BY <1>1 DEF SessionsIInv, Filled, Streamed, PS!States
    <2> HIDE DEF s
    <2> QED  BY <1>3, <2>1 DEF Records
  <1> HIDE DEF r
  <1>5. PS!Noted(s, r)
    BY <1>2 DEF r
  <1> HIDE DEF s
  <1>6. s \in DOMAIN sessions =>
          /\ r \in Records /\ r.kind = sessions[s].kind /\ r.job = sessions[s].job
          /\ r.kind = "hls" /\ r.state # "ENDED" => r.job \in DOMAIN jobs /\ jobs[r.job] = s
          /\ r.kind = "source" /\ r.state = "PLAYING" => \E d \in Clients : calls[d].pc = "stream" /\ calls[d].sid = s
    BY <1>1, <1>4 DEF s
  <1>7. Filled(sessions, jobs, used)' /\ Paired(sessions, jobs)' /\ Streamed(sessions)'
    BY <1>1, <1>5, <1>6, NotedKeeps
  <1> QED  BY <1>1, <1>7 DEF SessionsIInv

\* A route that ends, or goes to another call of HLS, streams no more.
LEMMA CallChanges ==
    ASSUME NEW c \in Clients, NEW call \in Calls, NEW calls1, call.pc # "stream",
           call.pc \in {"master", "segment", "destroy"} => call.job \in Jobs,
           calls \in [Clients -> Calls], \A d \in Clients : calls[d].pc \in {"master", "segment", "destroy"} => calls[d].job \in Jobs,
           calls1 = [calls EXCEPT ![c] = call]
    PROVE  /\ calls1 \in [Clients -> Calls]
           /\ \A d \in Clients : calls1[d] = IF d = c THEN call ELSE calls[d]
           /\ \A d \in Clients : calls1[d].pc \in {"master", "segment", "destroy"} => calls1[d].job \in Jobs
  OBVIOUS

LEMMA NoCallIsCall ==
    PS!NoCall \in Calls /\ PS!NoCall.pc = "none"
  BY DEF PS!NoCall, Calls

\* A source that is closed plays no more, whatever it is noted as.
LEMMA CloseKeeps ==
    ASSUME SessionParameters, SessionsIInv, NEW c \in Clients, PS!CloseSource(c)
    PROVE  SessionsIInv'
  <1> DEFINE s == calls[c].sid
  <1>1. /\ calls[c].pc = "stream" /\ UNCHANGED <<now, jobs, used>> /\ calls' = [calls EXCEPT ![c] = PS!NoCall]
    BY DEF PS!CloseSource
  <1>2. PICK t \in PS!Clock : PS!Noted(s, [sessions[s] EXCEPT !.last = t, !.state = "IDLE", !.open = FALSE])
    BY DEF PS!CloseSource
  <1> DEFINE r == [sessions[s] EXCEPT !.last = t, !.state = "IDLE", !.open = FALSE]
  <1>3. t \in Nat
    BY <1>2, ClockIsTime DEF SessionsIInv
  <1>4. s \in DOMAIN sessions => r \in Records /\ r.kind = "source" /\ r.state = "IDLE"
    <2> SUFFICES ASSUME s \in DOMAIN sessions
                 PROVE  r \in Records /\ r.kind = "source" /\ r.state = "IDLE"
      OBVIOUS
    <2>1. sessions[s] \in Records /\ sessions[s].kind = "source" /\ "IDLE" \in PS!States
      BY <1>1 DEF SessionsIInv, Filled, Streamed, PS!States
    <2> HIDE DEF s
    <2> QED  BY <1>3, <2>1 DEF Records
  <1> HIDE DEF r
  <1>5. /\ sessions = [u \in DOMAIN sessions |-> sessions[u]]
        /\ sessions' = IF s \in DOMAIN sessions THEN [sessions EXCEPT ![s] = r] ELSE sessions
    BY <1>2 DEF r, PS!Noted, SessionsIInv, Filled
  <1>6. /\ DOMAIN sessions' = DOMAIN sessions /\ sessions' = [u \in DOMAIN sessions |-> sessions'[u]]
        /\ \A u \in DOMAIN sessions : sessions'[u] = IF u = s THEN r ELSE sessions[u]
    BY <1>5
  <1>7. Filled(sessions, jobs, used)'
    BY <1>1, <1>4, <1>6 DEF SessionsIInv, Filled
  <1>8. Paired(sessions, jobs)'
    <2>1. s \in DOMAIN sessions => sessions[s].kind = "source"
      BY <1>1 DEF SessionsIInv, Streamed
    <2> QED  BY <1>1, <1>4, <1>6, <2>1 DEF SessionsIInv, Paired
  <1>9. /\ calls' \in [Clients -> Calls]
        /\ \A d \in Clients : calls'[d] = IF d = c THEN PS!NoCall ELSE calls[d]
        /\ \A d \in Clients : calls'[d].pc \in {"master", "segment", "destroy"} => calls'[d].job \in Jobs
    BY <1>1, NoCallIsCall, CallChanges DEF SessionsIInv
  <1>10. Streamed(sessions)'
    <2>1. ASSUME NEW d \in Clients, calls'[d].pc = "stream"
          PROVE  calls'[d].sid \in used' /\ (calls'[d].sid \in DOMAIN sessions' => sessions'[calls'[d].sid].kind = "source")
      BY <1>1, <1>4, <1>6, <1>9, <2>1, NoCallIsCall DEF SessionsIInv, Streamed
    <2>2. ASSUME NEW u \in DOMAIN sessions', sessions'[u].kind = "source", sessions'[u].state = "PLAYING"
          PROVE  \E d \in Clients : calls'[d].pc = "stream" /\ calls'[d].sid = u
      <3>1. u # s /\ u \in DOMAIN sessions /\ sessions'[u] = sessions[u]
        BY <1>4, <1>6, <2>2
      <3>2. PICK d \in Clients : calls[d].pc = "stream" /\ calls[d].sid = u
        BY <2>2, <3>1 DEF SessionsIInv, Streamed
      <3>3. d # c
        BY <3>1, <3>2
      <3> QED  BY <3>2, <3>3, <1>9
    <2> QED  BY <2>1, <2>2 DEF Streamed
  <1> QED  BY <1>1, <1>7, <1>8, <1>9, <1>10 DEF SessionsIInv

\* A route of HLS that begins or ends leaves those that stream alone.
LEMMA HlsCallKeeps ==
    ASSUME SessionsIInv, NEW c \in Clients, NEW call \in Calls, call.pc # "stream", calls[c].pc # "stream",
           call.pc \in {"master", "segment", "destroy"} => call.job \in Jobs,
           calls' = [calls EXCEPT ![c] = call], now' = now,
           NEW ss, NEW js, Filled(ss, js, used'), Paired(ss, js), sessions' = ss, jobs' = js, used \subseteq used',
           \A u \in DOMAIN ss : ss[u].kind = "source" => u \in DOMAIN sessions /\ ss[u].state = sessions[u].state,
           \A u \in DOMAIN ss \cap used : u \in DOMAIN sessions /\ ss[u].kind = sessions[u].kind
    PROVE  SessionsIInv'
  <1>1. /\ calls' \in [Clients -> Calls]
        /\ \A d \in Clients : calls'[d] = IF d = c THEN call ELSE calls[d]
        /\ \A d \in Clients : calls'[d].pc \in {"master", "segment", "destroy"} => calls'[d].job \in Jobs
    BY CallChanges DEF SessionsIInv
  <1>2. ASSUME NEW d \in Clients, calls'[d].pc = "stream"
        PROVE  calls'[d].sid \in used' /\ (calls'[d].sid \in DOMAIN sessions' => sessions'[calls'[d].sid].kind = "source")
    BY <1>1, <1>2 DEF SessionsIInv, Streamed
  <1>3. ASSUME NEW u \in DOMAIN sessions', sessions'[u].kind = "source", sessions'[u].state = "PLAYING"
        PROVE  \E d \in Clients : calls'[d].pc = "stream" /\ calls'[d].sid = u
    <2>1. u \in used /\ u \in DOMAIN sessions /\ sessions[u].kind = "source" /\ sessions[u].state = "PLAYING"
      BY <1>3 DEF SessionsIInv, Filled
    <2>2. PICK d \in Clients : calls[d].pc = "stream" /\ calls[d].sid = u
      BY <2>1 DEF SessionsIInv, Streamed
    <2> QED  BY <2>2, <1>1
  <1>4. Streamed(sessions)'
    BY <1>2, <1>3 DEF Streamed
  <1>5. Filled(sessions, jobs, used)' /\ Paired(sessions, jobs)'
    OBVIOUS
  <1> QED  BY <1>1, <1>4, <1>5 DEF SessionsIInv

\* A job that has no session yet, or whose session is gone, gets one.
LEMMA PairedAnew ==
    ASSUME SessionsIInv, NEW j \in Jobs, ~(j \in DOMAIN jobs /\ jobs[j] \in DOMAIN sessions),
           NEW s \in Ids \ used, NEW r \in Records, r.kind = "hls", r.job = j
    PROVE  /\ Filled(PS!With(sessions, s, r), PS!With(jobs, j, s), used \cup {s})
           /\ Paired(PS!With(sessions, s, r), PS!With(jobs, j, s))
  <1> DEFINE ss == PS!With(sessions, s, r)
             js == PS!With(jobs, j, s)
  <1>1. /\ DOMAIN ss = DOMAIN sessions \cup {s} /\ ss = [u \in DOMAIN ss |-> ss[u]]
        /\ \A u \in DOMAIN ss : ss[u] = IF u = s THEN r ELSE sessions[u]
    BY DEF PS!With
  <1>2. /\ DOMAIN js = DOMAIN jobs \cup {j} /\ js = [i \in DOMAIN js |-> js[i]]
        /\ \A i \in DOMAIN js : js[i] = IF i = j THEN s ELSE jobs[i]
    BY DEF PS!With
  <1> HIDE DEF ss, js
  <1>3. s \notin DOMAIN sessions /\ \A i \in DOMAIN jobs : jobs[i] # s
    BY DEF SessionsIInv, Filled
  <1>4. Filled(ss, js, used \cup {s})
    BY <1>1, <1>2 DEF SessionsIInv, Filled
  <1>5. ASSUME NEW i \in DOMAIN js, js[i] \in DOMAIN ss
        PROVE  ss[js[i]].kind = "hls" /\ ss[js[i]].job = i
    BY <1>1, <1>2, <1>3, <1>5 DEF SessionsIInv, Paired
  <1>6. ASSUME NEW u \in DOMAIN ss, ss[u].kind = "hls", ss[u].state # "ENDED"
        PROVE  ss[u].job \in DOMAIN js /\ js[ss[u].job] = u
    <2>1. CASE u = s
      BY <1>1, <1>2, <2>1
    <2>2. CASE u # s
      <3>1. u \in DOMAIN sessions /\ ss[u] = sessions[u] /\ sessions[u].job \in DOMAIN jobs /\ jobs[sessions[u].job] = u
        BY <1>1, <1>6, <2>2 DEF SessionsIInv, Paired
      <3>2. sessions[u].job # j
        BY <3>1
      <3> QED  BY <1>2, <3>1, <3>2
    <2> QED  BY <2>1, <2>2
  <1>7. Paired(ss, js)
    BY <1>5, <1>6 DEF Paired
  <1> QED  BY <1>4, <1>7 DEF ss, js

LEMMA RegisterKeeps ==
    ASSUME SessionParameters, SessionsIInv, NEW c \in Clients, PS!RegisterHlsJob(c)
    PROVE  SessionsIInv'
  <1> DEFINE j == calls[c].job
  <1>1. /\ calls[c].pc = "master" /\ j \in Jobs /\ now' = now /\ now \in Nat
        /\ calls' = [calls EXCEPT ![c] = PS!NoCall]
    BY DEF PS!RegisterHlsJob, SessionsIInv
  <1>2. CASE j \in DOMAIN jobs /\ jobs[j] \in DOMAIN sessions
    <2> DEFINE s == jobs[j]
    <2>1. PICK t \in PS!Clock : sessions' = [sessions EXCEPT ![s].last = t]
      BY <1>2 DEF PS!RegisterHlsJob
    <2>2. jobs' = jobs /\ used' = used
      BY <1>2 DEF PS!RegisterHlsJob
    <2> DEFINE r == [sessions[s] EXCEPT !.last = t]
    <2>3. s \in DOMAIN sessions /\ sessions[s] \in Records
      BY <1>2 DEF SessionsIInv, Filled
    <2>4. r \in Records /\ r.kind = sessions[s].kind /\ r.job = sessions[s].job /\ r.state = sessions[s].state
      <3>1. t \in Nat
        BY <1>1, <2>1, ClockIsTime
      <3> HIDE DEF s
      <3> QED  BY <2>3, <3>1 DEF Records
    <2>5. sessions = [u \in DOMAIN sessions |-> sessions[u]]
      BY DEF SessionsIInv, Filled
    <2>6. sessions' = [sessions EXCEPT ![s] = r]
      BY <2>1, <2>3
    <2> HIDE DEF r, s
    <2>7. /\ DOMAIN sessions' = DOMAIN sessions /\ sessions' = [u \in DOMAIN sessions |-> sessions'[u]]
          /\ \A u \in DOMAIN sessions : sessions'[u] = IF u = s THEN r ELSE sessions[u]
      BY <2>3, <2>5, <2>6
    <2>8. Filled(sessions', jobs', used')
      BY <2>2, <2>4, <2>7 DEF SessionsIInv, Filled
    <2>9. Paired(sessions', jobs')
      BY <2>2, <2>4, <2>7 DEF SessionsIInv, Paired
    <2>10. \A u \in DOMAIN sessions' : u \in DOMAIN sessions /\ sessions'[u].kind = sessions[u].kind /\ sessions'[u].state = sessions[u].state
      BY <2>4, <2>7
    <2> QED  BY <1>1, <2>2, <2>8, <2>9, <2>10, NoCallIsCall, HlsCallKeeps
  <1>3. CASE ~(j \in DOMAIN jobs /\ jobs[j] \in DOMAIN sessions)
    <2>1. PICK s \in Ids \ used, t \in PS!Clock :
            /\ used' = used \cup {s}
            /\ PS!Prune(PS!With(sessions, s, PS!Session("hls", "player", j, t)), PS!With(jobs, j, s), t)
      BY <1>3 DEF PS!RegisterHlsJob
    <2> DEFINE r == PS!Session("hls", "player", j, t)
               ss == PS!With(sessions, s, r)
               js == PS!With(jobs, j, s)
    <2>2. t \in Nat
      BY <1>1, ClockIsTime
    <2>3. r \in Records /\ r.kind = "hls" /\ r.job = j
      BY <1>1, <2>2 DEF PS!Session, Records, PS!States
    <2> HIDE DEF r, j
    <2>4. Filled(ss, js, used \cup {s}) /\ Paired(ss, js)
      BY <1>1, <1>3, <2>3, PairedAnew
    <2>5. PS!Prune(ss, js, t)
      BY <2>1 DEF r
    <2>6. DOMAIN ss = DOMAIN sessions \cup {s} /\ \A u \in DOMAIN ss : ss[u] = IF u = s THEN r ELSE sessions[u]
      BY DEF PS!With
    <2> HIDE DEF ss, js
    <2>7. /\ Filled(sessions', jobs', used') /\ Paired(sessions', jobs')
          /\ DOMAIN sessions' \subseteq DOMAIN ss /\ \A u \in DOMAIN sessions' : sessions'[u] = ss[u]
      BY <2>1, <2>2, <2>4, <2>5, PruneKeeps
    <2>8. /\ \A u \in DOMAIN sessions' : sessions'[u].kind = "source" =>
               u \in DOMAIN sessions /\ sessions'[u].state = sessions[u].state
          /\ \A u \in DOMAIN sessions' \cap used : u \in DOMAIN sessions /\ sessions'[u].kind = sessions[u].kind
      BY <2>3, <2>6, <2>7
    <2> QED  BY <1>1, <2>1, <2>7, <2>8, NoCallIsCall, HlsCallKeeps
  <1> QED  BY <1>2, <1>3

\* A segment, late or not, makes the session of its job play.
LEMMA TouchKeeps ==
    ASSUME SessionParameters, SessionsIInv, NEW c \in Clients, PS!TouchHls(c)
    PROVE  SessionsIInv'
  <1> DEFINE j == calls[c].job
             s == jobs[j]
  <1>1. /\ calls[c].pc = "segment" /\ UNCHANGED <<now, jobs, used>> /\ now \in Nat
        /\ calls' = [calls EXCEPT ![c] = PS!NoCall]
    BY DEF PS!TouchHls, SessionsIInv
  <1>2. CASE j \in DOMAIN jobs /\ s \in DOMAIN sessions
    <2>1. PICK t \in PS!Clock : sessions' = [sessions EXCEPT ![s] = [sessions[s] EXCEPT !.last = t, !.state = "PLAYING"]]
      BY <1>2 DEF PS!TouchHls, PS!Noted
    <2> DEFINE r == [sessions[s] EXCEPT !.last = t, !.state = "PLAYING"]
    <2>2. /\ sessions[s] \in Records /\ sessions = [u \in DOMAIN sessions |-> sessions[u]]
          /\ sessions[s].kind = "hls" /\ sessions[s].job = j
      BY <1>2 DEF SessionsIInv, Filled, Paired
    <2> HIDE DEF s
    <2>3. r \in Records /\ r.kind = "hls" /\ r.job = j
      <3>1. t \in Nat /\ "PLAYING" \in PS!States
        BY <1>1, <2>1, ClockIsTime DEF PS!States
      <3> HIDE DEF j
      <3> QED  BY <2>2, <3>1 DEF Records
    <2>4. sessions' = [sessions EXCEPT ![s] = r]
      BY <2>1
    <2> HIDE DEF r
    <2>5. /\ DOMAIN sessions' = DOMAIN sessions /\ sessions' = [u \in DOMAIN sessions |-> sessions'[u]]
          /\ \A u \in DOMAIN sessions : sessions'[u] = IF u = s THEN r ELSE sessions[u]
      BY <1>2, <2>2, <2>4
    <2>6. Filled(sessions', jobs', used')
      BY <1>1, <2>3, <2>5 DEF SessionsIInv, Filled
    <2>7. jobs[j] = s
      BY DEF s
    <2>8. Paired(sessions', jobs')
      <3> HIDE DEF j
      <3> QED  BY <1>1, <1>2, <2>3, <2>5, <2>2, <2>7 DEF SessionsIInv, Paired
    <2>9. \A u \in DOMAIN sessions' : /\ u \in DOMAIN sessions /\ sessions'[u].kind = sessions[u].kind
                                      /\ sessions'[u].kind = "source" => sessions'[u].state = sessions[u].state
      BY <2>2, <2>3, <2>5
    <2> QED  BY <1>1, <2>6, <2>8, <2>9, NoCallIsCall, HlsCallKeeps
  <1>3. CASE ~(j \in DOMAIN jobs /\ s \in DOMAIN sessions)
    <2>1. sessions' = sessions
      BY <1>3 DEF PS!TouchHls, PS!Noted
    <2>2. \A u \in DOMAIN sessions \cap used : u \in DOMAIN sessions
      OBVIOUS
    <2>3. Filled(sessions, jobs, used') /\ Paired(sessions, jobs)
      BY <1>1 DEF SessionsIInv
    <2> QED  BY <1>1, <2>1, <2>3, NoCallIsCall, HlsCallKeeps
  <1> QED  BY <1>2, <1>3

\* A job that ends is forgotten, and its session has ended.
LEMMA EndKeeps ==
    ASSUME SessionParameters, SessionsIInv, NEW c \in Clients, PS!EndHls(c)
    PROVE  SessionsIInv'
  <1> DEFINE j == calls[c].job
             s == jobs[j]
  <1>1. /\ calls[c].pc = "destroy" /\ UNCHANGED <<now, used>> /\ now \in Nat
        /\ calls' = [calls EXCEPT ![c] = PS!NoCall] /\ jobs' = PS!Without(jobs, {j})
    BY DEF PS!EndHls, SessionsIInv
  <1>2. jobs' = [i \in DOMAIN jobs \ {j} |-> jobs[i]]
    BY <1>1 DEF PS!Without
  <1>3. CASE j \in DOMAIN jobs /\ s \in DOMAIN sessions
    <2>1. PICK t \in PS!Clock : sessions' = [sessions EXCEPT ![s] = [sessions[s] EXCEPT !.last = t, !.state = "ENDED"]]
      BY <1>3 DEF PS!EndHls, PS!Noted
    <2> DEFINE r == [sessions[s] EXCEPT !.last = t, !.state = "ENDED"]
    <2>2. /\ sessions[s] \in Records /\ sessions = [u \in DOMAIN sessions |-> sessions[u]]
          /\ sessions[s].kind = "hls" /\ sessions[s].job = j
      BY <1>3 DEF SessionsIInv, Filled, Paired
    <2> HIDE DEF s
    <2>3. r \in Records /\ r.kind = "hls" /\ r.job = j /\ r.state = "ENDED"
      <3>1. t \in Nat /\ "ENDED" \in PS!States
        BY <1>1, <2>1, ClockIsTime DEF PS!States
      <3> HIDE DEF j
      <3> QED  BY <2>2, <3>1 DEF Records
    <2>4. sessions' = [sessions EXCEPT ![s] = r]
      BY <2>1
    <2> HIDE DEF r
    <2>5. /\ DOMAIN sessions' = DOMAIN sessions /\ sessions' = [u \in DOMAIN sessions |-> sessions'[u]]
          /\ \A u \in DOMAIN sessions : sessions'[u] = IF u = s THEN r ELSE sessions[u]
      BY <1>3, <2>2, <2>4
    <2>6. Filled(sessions', jobs', used')
      BY <1>1, <1>2, <2>3, <2>5 DEF SessionsIInv, Filled
    <2>7. jobs[j] = s
      BY DEF s
    <2>8. Paired(sessions', jobs')
      <3> HIDE DEF j
      <3>1. ASSUME NEW i \in DOMAIN jobs', jobs'[i] \in DOMAIN sessions'
            PROVE  sessions'[jobs'[i]].kind = "hls" /\ sessions'[jobs'[i]].job = i
        BY <1>2, <2>2, <2>3, <2>5, <3>1 DEF SessionsIInv, Paired
      <3>2. ASSUME NEW u \in DOMAIN sessions', sessions'[u].kind = "hls", sessions'[u].state # "ENDED"
            PROVE  sessions'[u].job \in DOMAIN jobs' /\ jobs'[sessions'[u].job] = u
        <4>1. u # s /\ u \in DOMAIN sessions /\ sessions'[u] = sessions[u]
          BY <2>3, <2>5, <3>2
        <4>2. sessions[u].job \in DOMAIN jobs /\ jobs[sessions[u].job] = u
          BY <3>2, <4>1 DEF SessionsIInv, Paired
        <4> QED  BY <1>2, <2>7, <4>1, <4>2
      <3> QED  BY <3>1, <3>2 DEF Paired
    <2>9. \A u \in DOMAIN sessions' : /\ u \in DOMAIN sessions /\ sessions'[u].kind = sessions[u].kind
                                      /\ sessions'[u].kind = "source" => sessions'[u].state = sessions[u].state
      BY <2>2, <2>3, <2>5
    <2> QED  BY <1>1, <2>6, <2>8, <2>9, NoCallIsCall, HlsCallKeeps
  <1>4. CASE ~(j \in DOMAIN jobs /\ s \in DOMAIN sessions)
    <2>1. sessions' = sessions
      BY <1>4 DEF PS!EndHls, PS!Noted
    <2>2. Filled(sessions, jobs', used')
      BY <1>1, <1>2 DEF SessionsIInv, Filled
    <2>3. Paired(sessions, jobs')
      BY <1>2, <1>4 DEF SessionsIInv, Paired
    <2> QED  BY <1>1, <2>1, <2>2, <2>3, NoCallIsCall, HlsCallKeeps
  <1> QED  BY <1>3, <1>4

\* The calls that only go to the converter.
LEMMA ConverterCallKeeps ==
    ASSUME SessionsIInv, NEW c \in Clients, PS!EnsureJob(c) \/ PS!TouchSegment(c) \/ PS!Destroy(c)
    PROVE  SessionsIInv'
  <1>1. PICK pc \in {"master", "segment", "destroy"}, j \in Jobs :
          calls' = [calls EXCEPT ![c] = [PS!NoCall EXCEPT !.pc = pc, !.job = j]]
    BY DEF PS!EnsureJob, PS!TouchSegment, PS!Destroy
  <1>2. calls[c].pc = "none" /\ UNCHANGED <<now, sessions, jobs, used>>
    BY NoCallIsCall DEF PS!EnsureJob, PS!TouchSegment, PS!Destroy
  <1> DEFINE call == [PS!NoCall EXCEPT !.pc = pc, !.job = j]
  <1>3. call \in Calls /\ call.pc = pc /\ call.job = j
    BY DEF PS!NoCall, Calls
  <1> HIDE DEF call
  <1>4. Filled(sessions, jobs, used') /\ Paired(sessions, jobs)
    BY <1>2 DEF SessionsIInv
  <1> QED  BY <1>1, <1>2, <1>3, <1>4, HlsCallKeeps DEF call

LEMMA SnapshotKeeps ==
    ASSUME SessionParameters, SessionsIInv, PS!Snapshot
    PROVE  SessionsIInv'
  <1>1. now \in Nat /\ PS!Prune(sessions, jobs, now) /\ UNCHANGED <<now, used, calls>>
        /\ Filled(sessions, jobs, used) /\ Paired(sessions, jobs)
    BY DEF PS!Snapshot, SessionsIInv
  <1>2. /\ Filled(sessions', jobs', used) /\ Paired(sessions', jobs')
        /\ DOMAIN sessions' \subseteq DOMAIN sessions /\ \A s \in DOMAIN sessions' : sessions'[s] = sessions[s]
    BY <1>1, PruneKeeps
  <1>3. Streamed(sessions)'
    BY <1>1, <1>2 DEF SessionsIInv, Streamed
  <1>4. Filled(sessions, jobs, used)' /\ Paired(sessions, jobs)'
    BY <1>1, <1>2
  <1> QED  BY <1>1, <1>3, <1>4 DEF SessionsIInv

LEMMA SessionsBegin ==
    ASSUME PS!Init
    PROVE  SessionsIInv
  <1>1. \A c \in Clients : calls[c] = PS!NoCall
    BY DEF PS!Init
  <1>2. /\ DOMAIN sessions = {} /\ sessions = [s \in DOMAIN sessions |-> sessions[s]]
        /\ DOMAIN jobs = {} /\ jobs = [j \in DOMAIN jobs |-> jobs[j]]
    BY DEF PS!Init
  <1>3. Filled(sessions, jobs, used) /\ Paired(sessions, jobs) /\ Streamed(sessions)
    BY <1>1, <1>2, NoCallIsCall DEF Filled, Paired, Streamed
  <1> QED  BY <1>1, <1>3, NoCallIsCall DEF SessionsIInv, PS!Init

LEMMA SessionsKeep ==
    ASSUME SessionParameters, SessionsIInv, [PS!Next]_sessionVars
    PROVE  SessionsIInv'
  <1>1. CASE UNCHANGED sessionVars
    BY <1>1 DEF sessionVars, SessionsIInv, Filled, Paired, Streamed
  <1>2. ASSUME NEW c \in Clients,
               \/ PS!OpenSource(c) \/ PS!NoteBytes(c) \/ PS!CloseSource(c)
               \/ PS!EnsureJob(c) \/ PS!RegisterHlsJob(c) \/ PS!TouchSegment(c) \/ PS!TouchHls(c)
               \/ PS!Destroy(c) \/ PS!EndHls(c)
        PROVE  SessionsIInv'
    BY <1>2, OpenKeeps, NoteKeeps, CloseKeeps, ConverterCallKeeps, RegisterKeeps, TouchKeeps, EndKeeps
  <1>3. CASE PS!Tick
    <2>1. now' = now + 1 /\ UNCHANGED <<sessions, jobs, used, calls>>
      BY <1>3 DEF PS!Tick
    <2> QED  BY <2>1 DEF SessionsIInv, Filled, Paired, Streamed
  <1> QED  BY <1>1, <1>2, <1>3, SnapshotKeeps DEF PS!Next

SessionsInv == part = "sessions" => SessionsIInv

\* In whatever order the routes of the converter and of the registry are called
\* (playback_sessions.py), and however late, a job has one session that can play and
\* a source that nobody has open is not shown as playing.
THEOREM SessionsAgree ==
    ASSUME SessionParameters
    PROVE  Spec => []SessionsConsistent
  <1>1. Init => SessionsInv
    BY PartsBegin, SessionsBegin DEF SessionsInv
  <1>2. SessionsInv /\ [Next]_allVars => SessionsInv'
    BY PartsStep, SessionsKeep DEF SessionsInv
  <1>3. SessionsInv => SessionsConsistent
    BY DEF SessionsInv, SessionsIInv, Paired, Streamed, SessionsConsistent, PS!SessionsConsistent,
           PS!OneSessionPerJob, PS!ClosedNeverPlays
  <1> QED  BY <1>1, <1>2, <1>3, PTL DEF Spec

----------------------------------------------------------------------------
(* Who may enter the library (LibraryAccess).                               *)

\* what the parameters are: a lifetime, and a mark that is no account
AccessParameters ==
    /\ SessionTTL \in Nat /\ AccessUntil \in Nat
    /\ Nothing \notin Accounts

GivenOut == [account : Accounts, expires : Nat, out : BOOLEAN]

\* a state file as _empty_state makes it
Shaped(f) == f = [owner |-> f.owner, sessions |-> f.sessions, token |-> f.token]

AccessTyped ==
    /\ time \in Nat
    /\ visits \in [Browsers -> [pc : LA!pcs, account : Accounts \cup {Nothing}]]
    /\ seen = [b \in Browsers |-> seen[b]]
    /\ \A s \in DOMAIN minted : minted[s] \in GivenOut
    /\ \A b \in Browsers : visits[b].pc \in {"claim", "session"} => visits[b].account \in Accounts
    /\ Shaped(file)
    /\ \A b \in Browsers : seen[b] # Nothing => Shaped(seen[b])

\* One browser at a time is between loading the file and saving it, ...
OneHolder ==
    \A b, c \in Browsers : seen[b] # Nothing /\ seen[c] # Nothing => b = c

\* ... so that what it has loaded is what is there.
NothingMissed ==
    ~hurt => \A b \in Browsers : seen[b] # Nothing => seen[b] = file

\* A browser that has claimed the server for its account has it claimed still.
ClaimStands ==
    ~hurt => \A b \in Browsers : visits[b].pc = "session" => visits[b].account = file.owner

\* The sessions on file are some of those given out, with their owner and expiry,
\* and all that have neither expired nor signed out.
FileIsRight ==
    ~hurt =>
      /\ \A s \in DOMAIN file.sessions :
           /\ s \in DOMAIN minted
           /\ minted[s].account = file.owner
           /\ file.sessions[s] = minted[s].expires
      /\ \A s \in DOMAIN minted : minted[s].expires > time /\ ~minted[s].out => s \in DOMAIN file.sessions
      /\ file.token = token

AccessIInv == AccessTyped /\ OneHolder /\ NothingMissed /\ ClaimStands /\ FileIsRight

----------------------------------------------------------------------------
\* A browser that only goes elsewhere, and leaves the lock or keeps it.
LEMMA MovesOn ==
    ASSUME AccessIInv, NEW b \in Browsers, NEW v \in [pc : LA!pcs, account : Accounts \cup {Nothing}],
           v.pc \in {"claim", "session"} => v.account \in Accounts,
           v.pc = "session" => visits[b].pc = "session" /\ v.account = visits[b].account,
           visits' = [visits EXCEPT ![b] = v], seen' = seen \/ LA!Release(b),
           UNCHANGED <<time, file, minted, token, hurt>>
    PROVE  AccessIInv'
  <1>1. \A c \in Browsers : visits'[c] = IF c = b THEN v ELSE visits[c]
    BY DEF AccessIInv, AccessTyped
  <1>2. \A c \in Browsers : seen'[c] # Nothing => seen'[c] = seen[c] /\ seen[c] # Nothing
    BY DEF LA!Release, AccessIInv, AccessTyped
  <1>3. AccessTyped'
    BY <1>1 DEF AccessIInv, AccessTyped, LA!Release
  <1>4. OneHolder' /\ NothingMissed'
    BY <1>2 DEF AccessIInv, OneHolder, NothingMissed
  <1>5. ClaimStands' /\ FileIsRight'
    BY <1>1 DEF AccessIInv, ClaimStands, FileIsRight
  <1> QED  BY <1>3, <1>4, <1>5 DEF AccessIInv

\* A browser that holds the lock is the only one, and leaves it.
LEMMA HolderAlone ==
    ASSUME AccessIInv, NEW b \in Browsers, seen[b] # Nothing, LA!Release(b)
    PROVE  /\ seen' = [c \in Browsers |-> Nothing]
           /\ seen' = [c \in Browsers |-> seen'[c]]
           /\ OneHolder' /\ NothingMissed'
           /\ ~hurt => seen[b] = file
  <1>1. seen' = [c \in Browsers |-> Nothing]
    BY DEF LA!Release, AccessIInv, AccessTyped, OneHolder
  <1>2. OneHolder' /\ NothingMissed'
    BY <1>1 DEF OneHolder, NothingMissed
  <1>3. ~hurt => seen[b] = file
    BY DEF AccessIInv, NothingMissed
  <1> QED  BY <1>1, <1>2, <1>3

LEMMA AwayIsFine ==
    LA!Away \in [pc : LA!pcs, account : Accounts \cup {Nothing}] /\ LA!Away.pc = "away"
  BY DEF LA!Away, LA!pcs

LEMMA VisitKeeps ==
    ASSUME AccessIInv, NEW b \in Browsers, LA!Visit(b)
    PROVE  AccessIInv'
  <1>1. PICK pc \in {"claim", "verify", "drop"}, a \in Accounts \cup {Nothing} :
          /\ a = Nothing <=> pc \in {"verify", "drop"}
          /\ visits' = [visits EXCEPT ![b] = [pc |-> pc, account |-> a]]
    BY DEF LA!Visit
  <1> QED  BY <1>1, MovesOn DEF LA!Visit, LA!pcs

LEMMA LoadKeeps ==
    ASSUME AccessIInv, NEW b \in Browsers, LA!LoadState(b)
    PROVE  AccessIInv'
  <1>1. /\ \A c \in Browsers : seen'[c] = IF c = b THEN file ELSE Nothing
        /\ UNCHANGED <<time, configured, file, visits, cookie, minted, token, hurt>>
    BY DEF LA!LoadState, AccessIInv, AccessTyped
  <1>2. AccessTyped'
    BY <1>1 DEF LA!LoadState, AccessIInv, AccessTyped
  <1>3. OneHolder' /\ NothingMissed'
    BY <1>1 DEF OneHolder, NothingMissed
  <1>4. ClaimStands' /\ FileIsRight'
    BY <1>1 DEF AccessIInv, ClaimStands, FileIsRight
  <1> QED  BY <1>2, <1>3, <1>4 DEF AccessIInv

\* An owner that is pinned for the first time finds no sessions.
LEMMA ClaimKeeps ==
    ASSUME AccessParameters, AccessIInv, NEW b \in Browsers, LA!ClaimOwner(b)
    PROVE  AccessIInv'
  <1> DEFINE a == visits[b].account
  <1>1. /\ visits[b] \in [pc : LA!pcs, account : Accounts \cup {Nothing}] /\ a \in Accounts
        /\ visits[b].pc = "claim" /\ seen[b] # Nothing
        /\ UNCHANGED <<time, minted, token>>
    BY DEF LA!ClaimOwner, LA!Holds, AccessIInv, AccessTyped
  <1>2. CASE LA!OwnerMatches(b, a)
    <2> DEFINE v == [visits[b] EXCEPT !.pc = "session"]
    <2>1. /\ visits' = [visits EXCEPT ![b] = v] /\ LA!Release(b)
          /\ file' = IF seen[b].owner = a THEN file ELSE [seen[b] EXCEPT !.owner = a]
          /\ hurt' = (hurt \/ seen[b].owner \notin {a, Nothing})
      BY <1>2 DEF LA!ClaimOwner, LA!SaveState, LA!Goto
    <2>2. v \in [pc : LA!pcs, account : Accounts \cup {Nothing}] /\ v.pc = "session" /\ v.account = a
      BY <1>1 DEF LA!pcs
    <2> HIDE DEF v
    <2>3. \A c \in Browsers : visits'[c] = IF c = b THEN v ELSE visits[c]
      BY <2>1 DEF AccessIInv, AccessTyped
    <2>4. /\ OneHolder' /\ NothingMissed' /\ seen' = [c \in Browsers |-> Nothing]
          /\ ~hurt => seen[b] = file
      BY <1>1, <2>1, HolderAlone
    <2> DEFINE pinned == [seen[b] EXCEPT !.owner = a]
    <2>5. /\ pinned = [owner |-> a, sessions |-> seen[b].sessions, token |-> seen[b].token]
          /\ Shaped(file)'
      <3>1. seen[b] = [owner |-> seen[b].owner, sessions |-> seen[b].sessions, token |-> seen[b].token]
        BY <1>1 DEF AccessIInv, AccessTyped, Shaped
      <3>2. pinned = [owner |-> a, sessions |-> seen[b].sessions, token |-> seen[b].token]
        BY <3>1
      <3> HIDE DEF pinned
      <3>3. CASE seen[b].owner = a
        BY <2>1, <3>2, <3>3 DEF AccessIInv, AccessTyped, Shaped, pinned
      <3>4. CASE seen[b].owner # a
        BY <2>1, <3>2, <3>4 DEF Shaped, pinned
      <3> QED  BY <3>2, <3>3, <3>4
    <2>6. AccessTyped'
      BY <1>1, <2>1, <2>2, <2>3, <2>4, <2>5 DEF AccessIInv, AccessTyped
    <2>7. ~hurt' => /\ ~hurt /\ file.owner \in {a, Nothing} /\ file'.owner = a
                    /\ file'.sessions = file.sessions /\ file'.token = file.token
      <3> SUFFICES ASSUME ~hurt'
                   PROVE  /\ ~hurt /\ file.owner \in {a, Nothing} /\ file'.owner = a
                          /\ file'.sessions = file.sessions /\ file'.token = file.token
        OBVIOUS
      <3>1. ~hurt /\ seen[b] = file /\ seen[b].owner \in {a, Nothing}
        BY <2>1, <2>4
      <3>2. file' = IF seen[b].owner = a THEN file ELSE pinned
        BY <2>1
      <3> HIDE DEF pinned
      <3> QED  BY <2>5, <3>1, <3>2
    <2>8. ClaimStands'
      <3> SUFFICES ASSUME ~hurt', NEW c \in Browsers, visits'[c].pc = "session"
                   PROVE  visits'[c].account = file'.owner
        BY DEF ClaimStands
      <3>1. CASE c = b
        BY <3>1, <2>2, <2>3, <2>7
      <3>2. CASE c # b
        <4>1. visits[c].account = file.owner /\ visits[c].account \in Accounts
          BY <3>2, <2>3, <2>7 DEF AccessIInv, ClaimStands, AccessTyped
        <4> QED  BY <3>2, <4>1, <2>3, <2>7 DEF AccessParameters
      <3> QED  BY <3>1, <3>2
    <2>9. FileIsRight'
      <3> SUFFICES ASSUME ~hurt'
                   PROVE  FileIsRight'
        BY DEF FileIsRight
      <3>1. \A s \in DOMAIN file.sessions : minted[s].account = a
        <4> SUFFICES ASSUME NEW s \in DOMAIN file.sessions
                     PROVE  minted[s].account = a
          OBVIOUS
        <4>1. minted[s].account = file.owner /\ minted[s].account \in Accounts
          BY <2>7 DEF AccessIInv, FileIsRight, AccessTyped, GivenOut
        <4> QED  BY <4>1, <2>7 DEF AccessParameters
      <3> QED  BY <1>1, <2>7, <3>1 DEF AccessIInv, FileIsRight
    <2> QED  BY <2>4, <2>6, <2>8, <2>9 DEF AccessIInv
  <1>3. CASE ~LA!OwnerMatches(b, a)
    BY <1>1, <1>3, AwayIsFine, MovesOn DEF LA!ClaimOwner, LA!Leave
  <1> QED  BY <1>2, <1>3

\* A session that is given out is new, and the others stay on file.
LEMMA NewKeeps ==
    ASSUME AccessParameters, AccessIInv, NEW b \in Browsers, LA!NewSession(b)
    PROVE  AccessIInv'
  <1>1. /\ visits[b].pc = "session" /\ visits[b].account \in Accounts /\ seen[b] # Nothing
        /\ visits' = [visits EXCEPT ![b] = LA!Away]
        /\ UNCHANGED <<time, token, hurt>>
    BY DEF LA!NewSession, LA!Holds, LA!Leave, AccessIInv, AccessTyped
  <1>2. PICK s \in Secrets \ LA!used :
          /\ LA!SaveState(b, [seen[b] EXCEPT !.sessions = LA!With(seen[b].sessions, s, time + SessionTTL)])
          /\ minted' = LA!With(minted, s, [account |-> visits[b].account, expires |-> time + SessionTTL, out |-> FALSE])
    BY DEF LA!NewSession
  <1> DEFINE new == [account |-> visits[b].account, expires |-> time + SessionTTL, out |-> FALSE]
  <1>3. new \in GivenOut /\ s \notin DOMAIN minted
    BY <1>1, <1>2 DEF GivenOut, AccessIInv, AccessTyped, AccessParameters, LA!used
  <1>4. /\ OneHolder' /\ NothingMissed' /\ seen' = [c \in Browsers |-> Nothing]
        /\ ~hurt => seen[b] = file
    BY <1>1, <1>2, HolderAlone DEF LA!SaveState
  <1>5. /\ DOMAIN minted' = DOMAIN minted \cup {s} /\ minted'[s] = new
        /\ \A u \in DOMAIN minted : minted'[u] = minted[u]
    BY <1>2, <1>3 DEF LA!With
  <1>6. file' = [seen[b] EXCEPT !.sessions = LA!With(seen[b].sessions, s, time + SessionTTL)]
    BY <1>2 DEF LA!SaveState
  <1>7. /\ file' = [owner |-> seen[b].owner, sessions |-> LA!With(seen[b].sessions, s, time + SessionTTL),
                    token |-> seen[b].token]
        /\ Shaped(file)'
    <2>1. seen[b] = [owner |-> seen[b].owner, sessions |-> seen[b].sessions, token |-> seen[b].token]
      BY <1>1 DEF AccessIInv, AccessTyped, Shaped
    <2>2. file' = [owner |-> seen[b].owner, sessions |-> LA!With(seen[b].sessions, s, time + SessionTTL),
                   token |-> seen[b].token]
      BY <1>6, <2>1
    <2> QED  BY <2>2 DEF Shaped
  <1>8. \A c \in Browsers : visits'[c] = IF c = b THEN LA!Away ELSE visits[c]
    BY <1>1 DEF AccessIInv, AccessTyped
  <1>9. AccessTyped'
    BY <1>1, <1>3, <1>4, <1>5, <1>7, <1>8, AwayIsFine DEF AccessIInv, AccessTyped
  <1>10. ~hurt => /\ file'.owner = file.owner /\ file'.token = file.token
                  /\ DOMAIN file'.sessions = DOMAIN file.sessions \cup {s} /\ file'.sessions[s] = time + SessionTTL
                  /\ \A u \in DOMAIN file.sessions \ {s} : file'.sessions[u] = file.sessions[u]
    BY <1>4, <1>7 DEF LA!With
  <1>11. ClaimStands'
    BY <1>1, <1>8, <1>10, AwayIsFine DEF AccessIInv, ClaimStands
  <1>12. FileIsRight'
    <2> SUFFICES ASSUME ~hurt
                 PROVE  FileIsRight'
      BY <1>1 DEF FileIsRight
    <2>1. new.account = file.owner /\ new.expires = time + SessionTTL
      BY <1>1 DEF AccessIInv, ClaimStands
    <2> HIDE DEF new
    <2> QED  BY <1>1, <1>3, <1>5, <1>10, <2>1 DEF AccessIInv, FileIsRight
  <1> QED  BY <1>4, <1>9, <1>11, <1>12 DEF AccessIInv

\* Expired sessions are all that is reaped.
LEMMA VerifyKeeps ==
    ASSUME AccessParameters, AccessIInv, NEW b \in Browsers, LA!VerifySession(b)
    PROVE  AccessIInv'
  <1> DEFINE expired == {s \in DOMAIN seen[b].sessions : seen[b].sessions[s] <= time}
             reaped == [seen[b] EXCEPT !.sessions = LA!Without(seen[b].sessions, expired)]
  <1>1. /\ visits[b].pc = "verify" /\ seen[b] # Nothing /\ LA!Release(b)
        /\ file' = IF expired = {} THEN file ELSE reaped
        /\ LA!Goto(b, "ensure") \/ LA!Goto(b, "reset") \/ LA!Leave(b)
        /\ UNCHANGED <<time, minted, token, hurt>>
    BY DEF LA!VerifySession, LA!Holds, LA!SaveState
  <1>2. /\ OneHolder' /\ NothingMissed' /\ seen' = [c \in Browsers |-> seen'[c]]
        /\ ~hurt => seen[b] = file
    BY <1>1, HolderAlone
  <1>3. /\ reaped = [owner |-> seen[b].owner, sessions |-> LA!Without(seen[b].sessions, expired),
                     token |-> seen[b].token]
        /\ Shaped(reaped)
    <2>1. seen[b] = [owner |-> seen[b].owner, sessions |-> seen[b].sessions, token |-> seen[b].token]
      BY <1>1 DEF AccessIInv, AccessTyped, Shaped
    <2>2. reaped = [owner |-> seen[b].owner, sessions |-> LA!Without(seen[b].sessions, expired),
                    token |-> seen[b].token]
      BY <2>1
    <2> HIDE DEF reaped
    <2> QED  BY <2>2 DEF Shaped
  <1> HIDE DEF reaped
  <1>4. Shaped(file)'
    BY <1>1, <1>3 DEF AccessIInv, AccessTyped, Shaped
  <1>5. PICK v : /\ visits' = [visits EXCEPT ![b] = v]
                 /\ v \in [pc : LA!pcs, account : Accounts \cup {Nothing}] /\ v.pc \in {"ensure", "reset", "away"}
    <2>1. visits[b] \in [pc : LA!pcs, account : Accounts \cup {Nothing}]
      BY DEF AccessIInv, AccessTyped
    <2>2. \A pc \in {"ensure", "reset"} :
            /\ [visits[b] EXCEPT !.pc = pc] \in [pc : LA!pcs, account : Accounts \cup {Nothing}]
            /\ [visits[b] EXCEPT !.pc = pc].pc = pc
      BY <2>1 DEF LA!pcs
    <2> QED  BY <1>1, <2>2, AwayIsFine DEF LA!Goto, LA!Leave
  <1>6. \A c \in Browsers : visits'[c] = IF c = b THEN v ELSE visits[c]
    BY <1>5 DEF AccessIInv, AccessTyped
  <1>7. AccessTyped'
    <2>1. visits' \in [Browsers -> [pc : LA!pcs, account : Accounts \cup {Nothing}]]
      BY <1>5 DEF AccessIInv, AccessTyped
    <2>2. \A c \in Browsers : seen'[c] = Nothing
      BY <1>1, HolderAlone
    <2>3. \A c \in Browsers : visits'[c].pc \in {"claim", "session"} => visits'[c].account \in Accounts
      BY <1>5, <1>6 DEF AccessIInv, AccessTyped
    <2> QED  BY <1>1, <1>2, <1>4, <2>1, <2>2, <2>3 DEF AccessIInv, AccessTyped
  <1>8. ~hurt => /\ file'.owner = file.owner /\ file'.token = file.token
                 /\ DOMAIN file'.sessions = DOMAIN file.sessions \ expired
                 /\ \A s \in DOMAIN file.sessions \ expired : file'.sessions[s] = file.sessions[s]
    <2>1. CASE expired = {}
      BY <1>1, <2>1
    <2>2. CASE expired # {}
      <3>1. DOMAIN LA!Without(seen[b].sessions, expired) = DOMAIN seen[b].sessions \ expired
        BY DEF LA!Without
      <3>2. \A s \in DOMAIN seen[b].sessions \ expired : LA!Without(seen[b].sessions, expired)[s] = seen[b].sessions[s]
        BY DEF LA!Without
      <3>3. file' = [owner |-> seen[b].owner, sessions |-> LA!Without(seen[b].sessions, expired), token |-> seen[b].token]
        BY <1>1, <1>3, <2>2
      <3> HIDE DEF expired
      <3> QED  BY <1>2, <3>1, <3>2, <3>3
    <2> QED  BY <2>1, <2>2
  <1>9. ClaimStands'
    BY <1>1, <1>5, <1>6, <1>8 DEF AccessIInv, ClaimStands
  <1>10. FileIsRight'
    <2> SUFFICES ASSUME ~hurt
                 PROVE  FileIsRight'
      BY <1>1 DEF FileIsRight
    <2>1. \A s \in DOMAIN minted : minted[s].expires > time => s \notin expired
      <3> SUFFICES ASSUME NEW s \in DOMAIN minted, minted[s].expires > time, s \in expired
                   PROVE  FALSE
        OBVIOUS
      <3>1. s \in DOMAIN file.sessions /\ file.sessions[s] <= time
        BY <1>2
      <3>2. file.sessions[s] = minted[s].expires /\ minted[s].expires \in Nat /\ time \in Nat
        BY <3>1 DEF AccessIInv, FileIsRight, AccessTyped, GivenOut
      <3> QED  BY <3>1, <3>2
    <2> HIDE DEF expired
    <2> QED  BY <1>1, <1>8, <2>1 DEF AccessIInv, FileIsRight
  <1> QED  BY <1>2, <1>7, <1>9, <1>10 DEF AccessIInv

\* Who signs out loses the session of its own cookie.
LEMMA DropKeeps ==
    ASSUME AccessParameters, AccessIInv, NEW b \in Browsers, LA!DropSession(b)
    PROVE  AccessIInv'
  <1>1. /\ visits[b].pc = "drop" /\ seen[b] # Nothing /\ visits' = [visits EXCEPT ![b] = LA!Away]
        /\ UNCHANGED <<time, token, hurt>>
    BY DEF LA!DropSession, LA!Holds, LA!Leave
  <1>2. CASE cookie[b] \in DOMAIN seen[b].sessions
    <2> DEFINE k == cookie[b]
               left == [seen[b] EXCEPT !.sessions = LA!Without(seen[b].sessions, {k})]
    <2>1. file' = left /\ LA!Release(b) /\ minted' = [minted EXCEPT ![k].out = TRUE]
      BY <1>2 DEF LA!DropSession, LA!SaveState
    <2>2. /\ OneHolder' /\ NothingMissed' /\ seen' = [c \in Browsers |-> Nothing]
          /\ ~hurt => seen[b] = file
      BY <1>1, <2>1, HolderAlone
    <2>3. seen[b] = [owner |-> seen[b].owner, sessions |-> seen[b].sessions, token |-> seen[b].token]
      BY <1>1 DEF AccessIInv, AccessTyped, Shaped
    <2>4. file' = [owner |-> seen[b].owner, sessions |-> LA!Without(seen[b].sessions, {k}), token |-> seen[b].token]
      BY <2>1, <2>3
    <2>5. \A c \in Browsers : visits'[c] = IF c = b THEN LA!Away ELSE visits[c]
      BY <1>1 DEF AccessIInv, AccessTyped
    <2>6. DOMAIN minted' = DOMAIN minted /\ \A s \in DOMAIN minted \ {k} : minted'[s] = minted[s]
      BY <2>1
    <2>7. k \in DOMAIN minted => /\ minted'[k] \in GivenOut /\ minted'[k].out
                                 /\ minted'[k].account = minted[k].account /\ minted'[k].expires = minted[k].expires
      <3> SUFFICES ASSUME k \in DOMAIN minted
                   PROVE  /\ minted'[k] \in GivenOut /\ minted'[k].out
                          /\ minted'[k].account = minted[k].account /\ minted'[k].expires = minted[k].expires
        OBVIOUS
      <3>1. minted[k] \in GivenOut
        BY DEF AccessIInv, AccessTyped
      <3>2. minted'[k] = [minted[k] EXCEPT !.out = TRUE]
        BY <2>1
      <3> QED  BY <3>1, <3>2 DEF GivenOut
    <2>8. AccessTyped'
      <3>1. Shaped(file)'
        BY <2>4 DEF Shaped
      <3>2. \A s \in DOMAIN minted' : minted'[s] \in GivenOut
        BY <2>6, <2>7 DEF AccessIInv, AccessTyped
      <3>3. /\ visits' \in [Browsers -> [pc : LA!pcs, account : Accounts \cup {Nothing}]]
            /\ \A c \in Browsers : visits'[c].pc \in {"claim", "session"} => visits'[c].account \in Accounts
        BY <1>1, <2>5, AwayIsFine DEF AccessIInv, AccessTyped
      <3> QED  BY <1>1, <2>2, <3>1, <3>2, <3>3 DEF AccessIInv, AccessTyped
    <2>9. ~hurt => /\ file'.owner = file.owner /\ file'.token = file.token
                   /\ DOMAIN file'.sessions = DOMAIN file.sessions \ {k}
                   /\ \A s \in DOMAIN file.sessions \ {k} : file'.sessions[s] = file.sessions[s]
      BY <2>2, <2>4 DEF LA!Without
    <2> HIDE DEF k
    <2>10. ClaimStands'
      BY <1>1, <2>5, <2>9, AwayIsFine DEF AccessIInv, ClaimStands
    <2>11. FileIsRight'
      <3> SUFFICES ASSUME ~hurt
                   PROVE  FileIsRight'
        BY <1>1 DEF FileIsRight
      <3> QED  BY <1>1, <2>6, <2>7, <2>9 DEF AccessIInv, FileIsRight
    <2> QED  BY <2>2, <2>8, <2>10, <2>11 DEF AccessIInv
  <1>3. CASE cookie[b] \notin DOMAIN seen[b].sessions
    BY <1>1, <1>3, AwayIsFine, MovesOn DEF LA!DropSession
  <1> QED  BY <1>2, <1>3

\* The token on file is shown, or a new one is both saved and shown.
LEMMA TokenKeeps ==
    ASSUME AccessParameters, AccessIInv, NEW b \in Browsers, LA!AddonToken(b)
    PROVE  AccessIInv'
  <1>1. /\ seen[b] # Nothing /\ visits[b].pc \in {"ensure", "reset"} /\ visits' = [visits EXCEPT ![b] = LA!Away]
        /\ UNCHANGED <<time, minted, hurt>>
    BY DEF LA!AddonToken, LA!Holds, LA!Leave
  <1>2. PICK t : /\ LA!Release(b) /\ token' = t
                 /\ \/ file' = file /\ t = seen[b].token
                    \/ file' = [seen[b] EXCEPT !.token = t]
    BY DEF LA!AddonToken, LA!SaveState
  <1>3. /\ OneHolder' /\ NothingMissed' /\ seen' = [c \in Browsers |-> Nothing]
        /\ ~hurt => seen[b] = file
    BY <1>1, <1>2, HolderAlone
  <1>4. seen[b] = [owner |-> seen[b].owner, sessions |-> seen[b].sessions, token |-> seen[b].token]
    BY <1>1 DEF AccessIInv, AccessTyped, Shaped
  <1>5. [seen[b] EXCEPT !.token = t] = [owner |-> seen[b].owner, sessions |-> seen[b].sessions, token |-> t]
    BY <1>4
  <1>6. Shaped(file)' /\ (~hurt => file'.owner = file.owner /\ file'.sessions = file.sessions /\ file'.token = t)
    <2>1. CASE file' = file /\ t = seen[b].token
      BY <1>3, <2>1 DEF AccessIInv, AccessTyped, Shaped
    <2>2. CASE file' = [seen[b] EXCEPT !.token = t]
      BY <1>3, <1>5, <2>2 DEF Shaped
    <2> QED  BY <1>2, <2>1, <2>2
  <1>7. \A c \in Browsers : visits'[c] = IF c = b THEN LA!Away ELSE visits[c]
    BY <1>1 DEF AccessIInv, AccessTyped
  <1>8. AccessTyped'
    BY <1>1, <1>3, <1>6, <1>7, AwayIsFine DEF AccessIInv, AccessTyped
  <1>9. ClaimStands' /\ FileIsRight'
    BY <1>1, <1>2, <1>6, <1>7, AwayIsFine DEF AccessIInv, ClaimStands, FileIsRight
  <1> QED  BY <1>3, <1>8, <1>9 DEF AccessIInv

\* After a restart nobody is in a route; a lost file is remembered.
LEMMA AccessRestartKeeps ==
    ASSUME AccessIInv, LA!Restart
    PROVE  AccessIInv'
  <1>1. /\ \A b \in Browsers : visits'[b] = LA!Away /\ seen'[b] = Nothing
        /\ UNCHANGED <<time, file, minted, token, hurt>>
    BY DEF LA!Restart
  <1>2. AccessTyped'
    BY <1>1, AwayIsFine DEF LA!Restart, AccessIInv, AccessTyped
  <1>3. OneHolder' /\ NothingMissed' /\ ClaimStands'
    BY <1>1, AwayIsFine DEF OneHolder, NothingMissed, ClaimStands
  <1>4. FileIsRight'
    BY <1>1 DEF AccessIInv, FileIsRight
  <1> QED  BY <1>2, <1>3, <1>4 DEF AccessIInv

LEMMA LoseKeeps ==
    ASSUME AccessIInv, LA!LoseFile
    PROVE  AccessIInv'
  <1>1. Shaped(LA!Empty)
    BY DEF LA!Empty, Shaped
  <1>2. AccessTyped' /\ OneHolder'
    BY <1>1 DEF LA!LoseFile, AccessIInv, AccessTyped, OneHolder, Shaped
  <1>3. NothingMissed' /\ ClaimStands' /\ FileIsRight'
    BY DEF LA!LoseFile, NothingMissed, ClaimStands, FileIsRight
  <1> QED  BY <1>2, <1>3 DEF AccessIInv

LEMMA AccessTickKeeps ==
    ASSUME AccessIInv, LA!Tick
    PROVE  AccessIInv'
  <1>1. time \in Nat /\ time' = time + 1 /\ UNCHANGED <<file, seen, visits, minted, token, hurt>>
    BY DEF LA!Tick, AccessIInv, AccessTyped
  <1>2. AccessTyped' /\ OneHolder' /\ NothingMissed' /\ ClaimStands'
    BY <1>1 DEF AccessIInv, AccessTyped, OneHolder, NothingMissed, ClaimStands, Shaped
  <1>3. \A s \in DOMAIN minted : minted[s].expires > time' => minted[s].expires > time
    BY <1>1 DEF AccessIInv, AccessTyped, GivenOut
  <1>4. FileIsRight'
    BY <1>1, <1>3 DEF AccessIInv, FileIsRight
  <1> QED  BY <1>2, <1>4 DEF AccessIInv

LEMMA AccessBegins ==
    ASSUME LA!Init
    PROVE  AccessIInv
  <1>1. /\ \A b \in Browsers : visits[b] = LA!Away /\ seen[b] = Nothing
        /\ DOMAIN minted = {} /\ Shaped(file) /\ DOMAIN file.sessions = {} /\ file.token = token
    BY DEF LA!Init, LA!Empty, Shaped
  <1>2. AccessTyped
    BY <1>1, AwayIsFine DEF LA!Init, AccessTyped
  <1>3. OneHolder /\ NothingMissed /\ ClaimStands /\ FileIsRight
    BY <1>1, AwayIsFine DEF OneHolder, NothingMissed, ClaimStands, FileIsRight
  <1> QED  BY <1>2, <1>3 DEF AccessIInv

LEMMA AccessKeeps ==
    ASSUME AccessParameters, AccessIInv, [LA!Next]_accessVars
    PROVE  AccessIInv'
  <1>1. CASE UNCHANGED accessVars
    BY <1>1 DEF accessVars, AccessIInv, AccessTyped, OneHolder, NothingMissed, ClaimStands, FileIsRight, Shaped
  <1>2. ASSUME NEW b \in Browsers,
               \/ LA!Visit(b) \/ LA!LoadState(b) \/ LA!ClaimOwner(b) \/ LA!NewSession(b)
               \/ LA!VerifySession(b) \/ LA!DropSession(b) \/ LA!AddonToken(b)
        PROVE  AccessIInv'
    <2>1. CASE LA!Visit(b) \/ LA!LoadState(b)
      BY <2>1, VisitKeeps, LoadKeeps
    <2>2. CASE LA!ClaimOwner(b) \/ LA!NewSession(b)
      BY <2>2, ClaimKeeps, NewKeeps
    <2>3. CASE LA!VerifySession(b) \/ LA!DropSession(b)
      BY <2>3, VerifyKeeps, DropKeeps
    <2>4. CASE LA!AddonToken(b)
      BY <2>4, TokenKeeps
    <2> QED  BY <1>2, <2>1, <2>2, <2>3, <2>4
  <1>3. CASE LA!Restart \/ LA!LoseFile \/ LA!Tick
    BY <1>3, AccessRestartKeeps, LoseKeeps, AccessTickKeeps
  <1> QED  BY <1>1, <1>2, <1>3 DEF LA!Next

AccessInv == part = "access" => AccessIInv

LEMMA AccessInvHolds ==
    ASSUME AccessParameters
    PROVE  Spec => []AccessInv
  <1>1. Init => AccessInv
    BY PartsBegin, AccessBegins DEF AccessInv
  <1>2. AccessInv /\ [Next]_allVars => AccessInv'
    BY PartsStep, AccessKeeps DEF AccessInv
  <1> QED  BY <1>1, <1>2, PTL DEF Spec

\* session._lock lets one route at a time between loading the file and saving it
\* (load_state, save_state).
THEOREM LockHolds ==
    ASSUME AccessParameters
    PROVE  Spec => [](part = "access" => OneHolder)
  <1>1. AccessInv => (part = "access" => OneHolder)
    BY DEF AccessInv, AccessIInv
  <1> QED  BY <1>1, AccessInvHolds, PTL

\* No sign-in, sign-out or reset undoes what another saved (claim_owner, new_session,
\* verify_session, drop_session, addon_token): unless the file was lost or the owner
\* replaced, each session that was given out is there until it expires or signs out.
THEOREM SessionsStay ==
    ASSUME AccessParameters
    PROVE  Spec => []SessionsKept
  <1>1. AccessInv => SessionsKept
    BY DEF AccessInv, AccessIInv, FileIsRight, SessionsKept, LA!SessionsKept
  <1> QED  BY <1>1, AccessInvHolds, PTL

----------------------------------------------------------------------------
(* How often an address may try to sign in (RateLimiter).                    *)

\* what the parameters are: at least one attempt is let through
LimiterParameters == Limit \in Nat \ {0} /\ Window \in Nat

\* a list of attempts of an address that has had g of them let through
Listed(times, g) == \A n \in DOMAIN times : n \in Nat /\ n < g /\ times[n] \in Nat

\* What the table remembers of an address: the attempts that were relayed lately,
\* with a time that is too early by one at most; and no attempt in the table is
\* recorded earlier than by one before another that precedes it was relayed.
Remembered(table, times, g, t) ==
    /\ Listed(table, g) /\ Listed(times, g)
    /\ IsFiniteSet(DOMAIN table) /\ Cardinality(DOMAIN table) <= Limit
    /\ DOMAIN table # {} => \E n \in DOMAIN table : \A m \in DOMAIN table : m <= n
    /\ \A n \in DOMAIN times :
         /\ times[n] <= t
         /\ times[n] + Window > t + 1 => n \in DOMAIN table
         /\ \A m \in DOMAIN table : n <= m => times[n] <= table[m] + 1

\* what the table has of an address
TableOf(table, a) == IF a \in DOMAIN table THEN table[a] ELSE <<>>

\* the table remembers every address
LimiterIInv ==
    /\ limiterTime \in Nat /\ given \in [Addresses -> Nat] /\ relayed = [a \in Addresses |-> relayed[a]]
    /\ \A a \in Addresses : Remembered(TableOf(hits, a), relayed[a], given[a], limiterTime)

----------------------------------------------------------------------------
\* What is forgotten of a list leaves the rest as it was.
LEMMA RecentIsPart ==
    ASSUME NEW times, NEW t
    PROVE  /\ DOMAIN RL!Recent(times, t) = {n \in DOMAIN times : times[n] + Window > t}
           /\ \A n \in DOMAIN RL!Recent(times, t) : RL!Recent(times, t)[n] = times[n]
  BY DEF RL!Recent

\* Time only lets attempts become old.
LEMMA LaterRemembered ==
    ASSUME NEW table, NEW times, NEW g \in Nat, NEW t \in Nat, LimiterParameters,
           Remembered(table, times, g, t)
    PROVE  Remembered(table, times, g, t + 1)
  BY DEF Remembered, Listed, LimiterParameters

\* An address whose last attempt is old can be forgotten.
LEMMA OldIsForgotten ==
    ASSUME NEW table, NEW times, NEW g \in Nat, NEW u \in Nat, NEW t \in Nat, t <= u, LimiterParameters,
           Remembered(table, times, g, u),
           ~ \E n \in DOMAIN table : table[n] + Window > t /\ \A m \in DOMAIN table : m <= n
    PROVE  Remembered(<<>>, times, g, u)
  <1>1. DOMAIN <<>> = {}
    OBVIOUS
  <1>2. IsFiniteSet(DOMAIN <<>>) /\ Cardinality(DOMAIN <<>>) <= Limit
    BY <1>1, FS_EmptySet DEF LimiterParameters
  <1>3. ASSUME NEW n \in DOMAIN times, times[n] + Window > u + 1
        PROVE  FALSE
    <2>1. n \in DOMAIN table
      BY <1>3 DEF Remembered
    <2>2. PICK l \in DOMAIN table : \A m \in DOMAIN table : m <= l
      BY <2>1 DEF Remembered
    <2>3. times[n] <= table[l] + 1
      BY <2>1, <2>2 DEF Remembered
    <2>4. table[l] \in Nat /\ times[n] \in Nat
      BY <1>3 DEF Remembered, Listed
    <2>5. ~(table[l] + Window > t)
      BY <2>2
    <2> QED  BY <1>3, <2>3, <2>4, <2>5 DEF LimiterParameters
  <1> QED  BY <1>1, <1>2, <1>3 DEF Remembered, Listed

\* The attempts that are old to a call that read the clock at t are forgotten.
LEMMA RecentRemembered ==
    ASSUME NEW table, NEW times, NEW g \in Nat, NEW u \in Nat, NEW t \in Nat, t <= u, LimiterParameters,
           Remembered(table, times, g, u),
           DOMAIN table # {} => \E n \in DOMAIN table : table[n] + Window > t /\ \A m \in DOMAIN table : m <= n
    PROVE  Remembered(RL!Recent(table, t), times, g, u)
  <1> DEFINE left == RL!Recent(table, t)
  <1>1. DOMAIN left = {n \in DOMAIN table : table[n] + Window > t} /\ \A n \in DOMAIN left : left[n] = table[n]
    BY RecentIsPart
  <1> HIDE DEF left
  <1>2. IsFiniteSet(DOMAIN left) /\ Cardinality(DOMAIN left) <= Limit
    <2>1. DOMAIN left \subseteq DOMAIN table
      BY <1>1
    <2>2. IsFiniteSet(DOMAIN table) /\ Cardinality(DOMAIN table) <= Limit
      BY DEF Remembered
    <2>3. IsFiniteSet(DOMAIN left) /\ Cardinality(DOMAIN left) <= Cardinality(DOMAIN table)
      BY <2>1, <2>2, FS_Subset
    <2>4. Cardinality(DOMAIN left) \in Nat /\ Cardinality(DOMAIN table) \in Nat
      BY <2>2, <2>3, FS_CardinalityType
    <2> QED  BY <2>2, <2>3, <2>4 DEF LimiterParameters
  <1>3. DOMAIN left # {} => \E n \in DOMAIN left : \A m \in DOMAIN left : m <= n
    BY <1>1
  <1>4. ASSUME NEW n \in DOMAIN times, times[n] + Window > u + 1
        PROVE  n \in DOMAIN left
    <2>1. n \in DOMAIN table /\ times[n] \in Nat
      BY <1>4 DEF Remembered, Listed
    <2>2. n \in Nat
      BY <2>1 DEF Remembered, Listed
    <2>3. times[n] <= table[n] + 1 /\ table[n] \in Nat
      BY <2>1, <2>2 DEF Remembered, Listed
    <2> QED  BY <1>1, <1>4, <2>1, <2>3 DEF LimiterParameters
  <1>5. Listed(left, g)
    BY <1>1 DEF Remembered, Listed
  <1>6. \A n \in DOMAIN times : times[n] <= u /\ \A m \in DOMAIN left : n <= m => times[n] <= left[m] + 1
    BY <1>1 DEF Remembered
  <1>7. Listed(times, g)
    BY DEF Remembered
  <1>8. Remembered(left, times, g, u)
    BY <1>2, <1>3, <1>4, <1>5, <1>6, <1>7 DEF Remembered
  <1> QED  BY <1>8 DEF left

\* An attempt that is let through is recorded.
LEMMA AddedRemembered ==
    ASSUME NEW table, NEW times, NEW g \in Nat, NEW u \in Nat, NEW t \in Nat, t <= u, u <= t + 1, LimiterParameters,
           Remembered(table, times, g, u), Cardinality(DOMAIN table) < Limit
    PROVE  Remembered(RL!Added(table, g, t), RL!Added(RL!Recent(times, u), g, u), g + 1, u)
  <1> DEFINE rec == RL!Recent(times, u)
             left == RL!Added(table, g, t)
             sent == RL!Added(rec, g, u)
  <1>1. DOMAIN rec = {n \in DOMAIN times : times[n] + Window > u} /\ \A n \in DOMAIN rec : rec[n] = times[n]
    BY RecentIsPart
  <1> HIDE DEF rec
  <1>2. DOMAIN left = DOMAIN table \cup {g} /\ left[g] = t /\ \A m \in DOMAIN table : m # g => left[m] = table[m]
    BY DEF left, RL!Added
  <1>3. DOMAIN sent = DOMAIN rec \cup {g} /\ sent[g] = u /\ \A m \in DOMAIN rec : m # g => sent[m] = rec[m]
    BY DEF sent, RL!Added
  <1> HIDE DEF left, sent
  <1>4. Listed(table, g) /\ Listed(times, g)
    BY DEF Remembered
  <1>5. Listed(left, g + 1)
    BY <1>2, <1>4 DEF Listed
  <1>6. Listed(sent, g + 1)
    BY <1>1, <1>3, <1>4 DEF Listed
  <1>7. IsFiniteSet(DOMAIN left) /\ Cardinality(DOMAIN left) <= Limit
    <2>1. IsFiniteSet(DOMAIN table)
      BY DEF Remembered
    <2>2. Cardinality(DOMAIN table) \in Nat
      BY <2>1, FS_CardinalityType
    <2>3. g \notin DOMAIN table
      BY <1>4 DEF Listed
    <2>4. IsFiniteSet(DOMAIN left) /\ Cardinality(DOMAIN left) = Cardinality(DOMAIN table) + 1
      BY <1>2, <2>1, <2>3, FS_AddElement
    <2> QED  BY <2>2, <2>4 DEF LimiterParameters
  <1>8. \E n \in DOMAIN left : \A m \in DOMAIN left : m <= n
    <2>1. \A m \in DOMAIN left : m <= g
      BY <1>2, <1>4 DEF Listed
    <2> QED  BY <1>2, <2>1
  <1>9. ASSUME NEW n \in DOMAIN sent
        PROVE  /\ sent[n] <= u
               /\ sent[n] + Window > u + 1 => n \in DOMAIN left
               /\ \A m \in DOMAIN left : n <= m => sent[n] <= left[m] + 1
    <2>1. CASE n = g
      <3>1. sent[n] = u
        BY <1>3, <2>1
      <3>2. ASSUME NEW m \in DOMAIN left, n <= m
            PROVE  m = g
        BY <1>2, <1>4, <2>1, <3>2 DEF Listed
      <3> QED  BY <1>2, <2>1, <3>1, <3>2
    <2>2. CASE n # g
      <3>1. n \in DOMAIN times /\ sent[n] = times[n]
        BY <1>1, <1>3, <2>2
      <3>2. times[n] <= u /\ times[n] \in Nat
        BY <3>1, <1>4 DEF Remembered, Listed
      <3>3. times[n] + Window > u + 1 => n \in DOMAIN table
        BY <3>1 DEF Remembered
      <3>4. \A m \in DOMAIN table : n <= m => times[n] <= table[m] + 1
        BY <3>1 DEF Remembered
      <3>5. ASSUME NEW m \in DOMAIN left, n <= m
            PROVE  sent[n] <= left[m] + 1
        <4>1. CASE m = g
          BY <1>2, <3>1, <3>2, <4>1
        <4>2. CASE m # g
          BY <1>2, <3>1, <3>4, <3>5, <4>2
        <4> QED  BY <4>1, <4>2
      <3> QED  BY <1>2, <3>1, <3>2, <3>3, <3>5
    <2> QED  BY <2>1, <2>2
  <1>10. Remembered(left, sent, g + 1, u)
    BY <1>5, <1>6, <1>7, <1>8, <1>9 DEF Remembered
  <1> QED  BY <1>10 DEF left, sent, rec

----------------------------------------------------------------------------
\* The module counts as this one does.
LEMMA AttemptsAreCounted ==
    \A S : RL!Cardinality(S) = Cardinality(S)
  BY DEF RL!Cardinality, Cardinality, RL!IsFiniteSet, IsFiniteSet

\* The clock a call has read is the time, or was before the last tick.
LEMMA ClockIsRecent ==
    ASSUME limiterTime \in Nat, NEW t \in RL!Clock
    PROVE  t \in Nat /\ t <= limiterTime /\ limiterTime <= t + 1
  BY DEF RL!Clock

\* An attempt of one address, whether it is let through or refused, leaves what
\* the table remembers of each.
LEMMA AllowRemembers ==
    ASSUME LimiterIInv, LimiterParameters, NEW a \in Addresses, RL!Allow(a)
    PROVE  LimiterIInv'
  <1> USE DEF LimiterIInv
  <1>1. PICK t \in RL!Clock :
          LET mine == IF a \in DOMAIN RL!Reaped(t) THEN RL!Recent(RL!Reaped(t)[a], t) ELSE <<>>
              allowed == RL!Cardinality(DOMAIN mine) < Limit
              left == IF allowed THEN RL!Added(mine, given[a], t) ELSE mine
          IN /\ hits' = [b \in DOMAIN RL!Reaped(t) \cup {a} |-> IF b = a THEN left ELSE RL!Reaped(t)[b]]
             /\ given' = IF allowed THEN [given EXCEPT ![a] = @ + 1] ELSE given
             /\ relayed' = IF allowed THEN [relayed EXCEPT ![a] = RL!Added(RL!Recent(@, limiterTime), given[a], limiterTime)] ELSE relayed
             /\ UNCHANGED limiterTime
    BY DEF RL!Allow
  <1>2. t \in Nat /\ t <= limiterTime /\ limiterTime <= t + 1
    BY ClockIsRecent
  <1> DEFINE Lasts(b) == \E n \in DOMAIN hits[b] : hits[b][n] + Window > t /\ \A m \in DOMAIN hits[b] : m <= n
  <1>3. PICK still : still = RL!Reaped(t)
    OBVIOUS
  <1>4. DOMAIN still = {b \in DOMAIN hits : Lasts(b)} /\ \A b \in DOMAIN still : still[b] = hits[b]
    BY <1>3 DEF RL!Reaped
  <1>5. \A b \in Addresses : Remembered(TableOf(still, b), relayed[b], given[b], limiterTime)
    <2> TAKE b \in Addresses
    <2>1. given[b] \in Nat /\ Remembered(TableOf(hits, b), relayed[b], given[b], limiterTime)
      OBVIOUS
    <2>2. CASE b \in DOMAIN still
      BY <1>4, <2>1, <2>2 DEF TableOf
    <2>3. CASE b \notin DOMAIN hits
      BY <1>4, <2>1, <2>3 DEF TableOf
    <2>4. CASE b \in DOMAIN hits /\ b \notin DOMAIN still
      <3>1. ~ Lasts(b)
        BY <1>4, <2>4
      <3>2. Remembered(hits[b], relayed[b], given[b], limiterTime)
        BY <2>1, <2>4 DEF TableOf
      <3>3. Remembered(<<>>, relayed[b], given[b], limiterTime)
        BY <1>2, <2>1, <3>1, <3>2, OldIsForgotten
      <3> QED  BY <2>4, <3>3 DEF TableOf
    <2> QED  BY <2>2, <2>3, <2>4
  <1>6. PICK mine : mine = IF a \in DOMAIN still THEN RL!Recent(still[a], t) ELSE <<>>
    OBVIOUS
  <1>7. Remembered(mine, relayed[a], given[a], limiterTime)
    <2>1. CASE a \in DOMAIN still
      <3>1. Lasts(a) /\ still[a] = hits[a]
        BY <1>4, <2>1
      <3>2. Remembered(hits[a], relayed[a], given[a], limiterTime)
        BY <1>5, <2>1, <3>1 DEF TableOf
      <3>3. given[a] \in Nat
        OBVIOUS
      <3>4. Remembered(RL!Recent(hits[a], t), relayed[a], given[a], limiterTime)
        BY <1>2, <3>1, <3>2, <3>3, RecentRemembered
      <3> QED  BY <1>6, <2>1, <3>1, <3>4
    <2>2. CASE a \notin DOMAIN still
      BY <1>5, <1>6, <2>2 DEF TableOf
    <2> QED  BY <2>1, <2>2
  <1>8. PICK left : left = IF Cardinality(DOMAIN mine) < Limit THEN RL!Added(mine, given[a], t) ELSE mine
    OBVIOUS
  <1>9. /\ hits' = [b \in DOMAIN still \cup {a} |-> IF b = a THEN left ELSE still[b]]
        /\ limiterTime' = limiterTime
        /\ Cardinality(DOMAIN mine) < Limit =>
             /\ given' = [given EXCEPT ![a] = @ + 1]
             /\ relayed' = [relayed EXCEPT ![a] = RL!Added(RL!Recent(@, limiterTime), given[a], limiterTime)]
        /\ ~(Cardinality(DOMAIN mine) < Limit) => given' = given /\ relayed' = relayed
    <2>1. RL!Cardinality(DOMAIN mine) = Cardinality(DOMAIN mine)
      BY AttemptsAreCounted
    <2> QED  BY <1>1, <1>3, <1>6, <1>8, <2>1
  <1>10. TableOf(hits', a) = left /\ \A b \in Addresses : b # a => TableOf(hits', b) = TableOf(still, b)
    BY <1>9 DEF TableOf
  <1>11. /\ given' \in [Addresses -> Nat] /\ relayed' = [b \in Addresses |-> relayed'[b]]
         /\ \A b \in Addresses : b # a => given'[b] = given[b] /\ relayed'[b] = relayed[b]
    BY <1>9
  <1>12. Remembered(left, relayed'[a], given'[a], limiterTime)
    <2>1. CASE Cardinality(DOMAIN mine) < Limit
      <3>1. given'[a] = given[a] + 1 /\ relayed'[a] = RL!Added(RL!Recent(relayed[a], limiterTime), given[a], limiterTime)
        BY <1>9, <2>1
      <3>2. given[a] \in Nat /\ limiterTime \in Nat
        OBVIOUS
      <3>3. Remembered(RL!Added(mine, given[a], t), RL!Added(RL!Recent(relayed[a], limiterTime), given[a], limiterTime), given[a] + 1, limiterTime)
        BY <1>2, <1>7, <2>1, <3>2, AddedRemembered
      <3> QED  BY <1>8, <2>1, <3>1, <3>3
    <2>2. CASE ~(Cardinality(DOMAIN mine) < Limit)
      BY <1>7, <1>8, <1>9, <2>2
    <2> QED  BY <2>1, <2>2
  <1>13. \A b \in Addresses : Remembered(TableOf(hits', b), relayed'[b], given'[b], limiterTime')
    BY <1>5, <1>9, <1>10, <1>11, <1>12
  <1> QED  BY <1>9, <1>11, <1>13

\* Nothing was relayed before the first attempt.
LEMMA LimiterBegins ==
    ASSUME RL!Init, LimiterParameters
    PROVE  LimiterIInv
  <1>1. DOMAIN <<>> = {}
    OBVIOUS
  <1>2. IsFiniteSet(DOMAIN <<>>) /\ Cardinality(DOMAIN <<>>) <= Limit
    BY <1>1, FS_EmptySet DEF LimiterParameters
  <1>3. DOMAIN hits = {}
    BY DEF RL!Init
  <1>4. \A a \in Addresses : Remembered(<<>>, <<>>, 0, 0)
    BY <1>1, <1>2 DEF Remembered, Listed
  <1> QED  BY <1>3, <1>4 DEF RL!Init, LimiterIInv, TableOf

\* Every step leaves what the table remembers.
LEMMA LimiterStep ==
    ASSUME LimiterIInv, [RL!Next]_limiterVars, LimiterParameters
    PROVE  LimiterIInv'
  <1>1. CASE UNCHANGED limiterVars
    BY <1>1 DEF limiterVars, LimiterIInv
  <1>2. CASE RL!Tick
    BY <1>2, LaterRemembered DEF RL!Tick, LimiterIInv
  <1>3. ASSUME NEW a \in Addresses, RL!Allow(a)
        PROVE  LimiterIInv'
    BY <1>3, AllowRemembers
  <1> QED  BY <1>1, <1>2, <1>3 DEF RL!Next

\* What was relayed lately is in the table, which holds no more than the limit.
LEMMA RememberedIsLimited ==
    ASSUME LimiterIInv, LimiterParameters
    PROVE  RL!LimitHolds
  <1> SUFFICES ASSUME NEW a \in Addresses
               PROVE  Cardinality(DOMAIN RL!Recent(relayed[a], limiterTime + 1)) <= Limit
    BY AttemptsAreCounted DEF RL!LimitHolds
  <1> DEFINE table == TableOf(hits, a)
             late == DOMAIN RL!Recent(relayed[a], limiterTime + 1)
  <1>1. Remembered(table, relayed[a], given[a], limiterTime)
    BY DEF LimiterIInv
  <1>2. late = {n \in DOMAIN relayed[a] : relayed[a][n] + Window > limiterTime + 1}
    BY RecentIsPart
  <1> HIDE DEF table, late
  <1>3. late \subseteq DOMAIN table /\ IsFiniteSet(DOMAIN table) /\ Cardinality(DOMAIN table) <= Limit
    BY <1>1, <1>2 DEF Remembered
  <1>4. IsFiniteSet(late) /\ Cardinality(late) <= Cardinality(DOMAIN table)
    BY <1>3, FS_Subset
  <1>5. Cardinality(late) \in Nat /\ Cardinality(DOMAIN table) \in Nat
    BY <1>3, <1>4, FS_CardinalityType
  <1>6. Cardinality(late) <= Limit
    BY <1>3, <1>4, <1>5 DEF LimiterParameters
  <1> QED  BY <1>6 DEF late

\* For any limit and window, no address is relayed more often than the limit in a
\* window less the time an attempt may wait for the lock (RateLimiter.allow).
THEOREM LimitIsKept ==
    ASSUME LimiterParameters
    PROVE  Spec => []LimitHolds
  <1> DEFINE Inv == part = "limiter" => LimiterIInv
  <1>1. Init => Inv
    BY PartsBegin, LimiterBegins
  <1>2. Inv /\ [Next]_allVars => Inv'
    BY PartsStep, LimiterStep
  <1>3. Inv => LimitHolds
    BY RememberedIsLimited DEF LimitHolds
  <1> QED  BY <1>1, <1>2, <1>3, PTL DEF Spec

----------------------------------------------------------------------------
(* The command that encodes what a player asked for (TranscodePipeline).     *)

\* what the parameters are: hosts with what is read of them, sources with a codec,
\* and a mark that is no codec
HostIs(h) == h = [nodes |-> h.nodes, env |-> h.env, nvidia |-> h.nvidia, encoders |-> h.encoders, decodes |-> h.decodes]
PipelineParameters ==
    /\ \A h \in Hosts : HostIs(h)
    /\ \A s \in Sources : s.codec # Nothing
    /\ Nothing \notin {<<"h264_vaapi">>, <<"libx264">>, "vaapi-full-h264", "cpu-h264"}

\* The server's device is there as long as none was lost, the command that is built
\* is the one for the source and the player, and one that runs is as it should be.
PipelineIInv ==
    /\ HostIs(host)
    /\ job = [pc |-> job.pc, source |-> job.source, seen |-> job.seen, client |-> job.client, action |-> job.action,
              built |-> job.built, run |-> job.run, log |-> job.log, flaked |-> job.flaked]
    /\ backend.name \in {"vaapi", "nvenc", "none"}
    /\ ~lost /\ backend.name = "vaapi" => backend.device \in host.nodes
    /\ job.pc \in {"probed", "built", "runs"} => job.source \in Sources /\ job.seen \in {job.source, Nothing}
    /\ job.pc = "built" /\ job.seen # Nothing =>
         /\ job.action = TP!Decide(job.source, job.client)
         /\ job.built = TP!BuildHlsCmd(job.source, job.client, job.action, backend)
    /\ job.pc = "built" /\ job.seen = Nothing => job.action = "undecided" /\ job.built = TP!UndecidedCmd(backend)
    /\ TP!PipelineConnects /\ TP!RewriteIsConfined /\ TP!PlayerCanShow /\ TP!ReportIsTrue

\* The device the server chose is there when it starts.
LEMMA BackendIsThere ==
    ASSUME NEW h
    PROVE  LET b == TP!DetectBackend(h) IN
             /\ b.name \in {"vaapi", "nvenc", "none"}
             /\ b.name = "vaapi" => b.device \in h.nodes
  <1>1. CASE h.env \in h.nodes
    BY <1>1 DEF TP!DetectBackend
  <1>2. CASE h.env \notin h.nodes /\ \E i \in DOMAIN Nodes : TP!First(h, i)
    <2>1. PICK k : k = CHOOSE i \in DOMAIN Nodes : TP!First(h, i)
      OBVIOUS
    <2>2. TP!First(h, k)
      BY <1>2, <2>1
    <2>3. TP!DetectBackend(h) = [name |-> "vaapi", device |-> Nodes[k]]
      BY <1>2, <2>1 DEF TP!DetectBackend
    <2> QED  BY <2>2, <2>3 DEF TP!First
  <1>3. CASE h.env \notin h.nodes /\ ~ \E i \in DOMAIN Nodes : TP!First(h, i)
    BY <1>3 DEF TP!DetectBackend
  <1> QED  BY <1>1, <1>2, <1>3

\* The command of a copy.
CopyOf == [input |-> [i |-> <<"source">>],
           output |-> [map |-> <<"video", "audio">>, acodec |-> <<"aac">>, f |-> <<"hls">>, vcodec |-> <<"copy">>]]

LEMMA CopyIsBuilt ==
    ASSUME NEW s, NEW c, NEW b
    PROVE  TP!BuildHlsCmd(s, c, "copy", b) = CopyOf
  <1>1. TP!With(TP!With([i |-> <<"source">>], TP!NoOptions), TP!NoOptions) = [i |-> <<"source">>]
    BY DEF TP!With, TP!NoOptions
  <1>2. TP!With([map |-> <<"video", "audio">>, acodec |-> <<"aac">>, f |-> <<"hls">>], [vcodec |-> <<"copy">>]) = CopyOf.output
    BY DEF TP!With, CopyOf
  <1> QED  BY <1>1, <1>2 DEF TP!BuildHlsCmd, TP!VideoOf, CopyOf

\* The command of a transcode with a backend: where it decodes, what it uploads to,
\* its filters and its encoder.
LEMMA TranscodeIsBuilt ==
    ASSUME NEW s, NEW c, NEW b, b.name \in {"vaapi", "nvenc", "none"},
           NEW argv, argv = TP!BuildHlsCmd(s, c, "transcode", b)
    PROVE  /\ b.name = "vaapi" /\ TP!IsHdr(s) =>
                /\ TP!Words(argv.input, "hwaccel_device") = <<b.device>>
                /\ TP!Words(argv.input, "hwaccel_output_format") = <<"vaapi">>
                /\ TP!Words(argv.output, "vf") = TP!HdrFilters(s, c)
           /\ ~(b.name = "vaapi" /\ TP!IsHdr(s)) => TP!Words(argv.input, "hwaccel_output_format") = <<>>
           /\ b.name = "vaapi" => TP!VideoCodec(argv) = <<"h264_vaapi">>
           /\ b.name = "vaapi" /\ ~TP!IsHdr(s) =>
                /\ TP!Words(argv.input, "vaapi_device") = <<b.device>>
                /\ TP!Words(argv.output, "vf") = <<"scale", "format", "hwupload">>
           /\ b.name = "nvenc" =>
                /\ TP!Words(argv.output, "vf") = <<"scale", "format">>
                /\ TP!VideoCodec(argv) = <<"h264_nvenc">>
           /\ b.name = "none" =>
                /\ TP!Words(argv.output, "vf") = <<"scale">>
                /\ TP!VideoCodec(argv) = <<"libx264">>
  <1> USE DEF TP!BuildHlsCmd, TP!VideoOf, TP!With, TP!Words, TP!NoOptions, TP!OnDevice, TP!VideoCodec
  <1>1. CASE b.name = "vaapi" /\ TP!IsHdr(s)
    BY <1>1
  <1>2. CASE b.name = "vaapi" /\ ~TP!IsHdr(s)
    BY <1>2
  <1>3. CASE b.name = "nvenc"
    BY <1>3
  <1>4. CASE b.name = "none"
    BY <1>4
  <1> QED  BY <1>1, <1>2, <1>3, <1>4

----------------------------------------------------------------------------
\* A command connects if each of its stages takes what the one before it gives, and
\* what is uploaded has a device that is there.
LEMMA Chain ==
    ASSUME NEW argv, NEW s, NEW filters, NEW codec,
           TP!Words(argv.output, "vf") = filters, TP!VideoCodec(argv) = <<codec>>, codec # "copy",
           TP!Takes(IF 0 < Len(filters) THEN filters[1] ELSE codec) = TP!Decoded(argv, s),
           \A i \in 1..Len(filters) : TP!Takes(IF i < Len(filters) THEN filters[i + 1] ELSE codec) = TP!Gives(filters[i]),
           "hwupload" \in TP!Range(filters) => \E v \in host.nodes : TP!Words(argv.input, "vaapi_device") = <<v>>
     PROVE TP!Encodes(argv, s)
  <1>1. ~TP!Copies(argv)
    BY DEF TP!Copies
  <1>2. TP!VideoCodec(argv)[1] = codec
    OBVIOUS
  <1>3. ASSUME NEW v \in host.nodes, NEW device, device = <<v>>
        PROVE  device # <<>> /\ TP!Range(device) \subseteq host.nodes
    <2>1. TP!Range(device) = {v}
      BY <1>3 DEF TP!Range
    <2>2. device # <<>>
      BY <1>3
    <2>3. v \in host.nodes
      BY <1>3
    <2> QED  BY <2>1, <2>2, <2>3
  <1>4. "hwupload" \in TP!Range(filters) =>
          /\ TP!Words(argv.input, "vaapi_device") # <<>>
          /\ TP!Range(TP!Words(argv.input, "vaapi_device")) \subseteq host.nodes
    BY <1>3
  <1> QED
    BY <1>1, <1>2, <1>4 DEF TP!Encodes

\* Frames that are uploaded after the filters of the software, on a device.
LEMMA UploadConnects ==
    ASSUME NEW argv, NEW s, NEW filters, filters \in {<<"scale", "format", "hwupload">>, <<"format", "hwupload">>},
           TP!Words(argv.output, "vf") = filters, TP!VideoCodec(argv) = <<"h264_vaapi">>, TP!Decoded(argv, s) = "cpu",
           NEW v \in host.nodes, TP!Words(argv.input, "vaapi_device") = <<v>>
    PROVE  TP!Encodes(argv, s)
  <1>1. TP!Takes(IF 0 < Len(filters) THEN filters[1] ELSE "h264_vaapi") = TP!Decoded(argv, s)
    <2>1. CASE filters = <<"scale", "format", "hwupload">>
      BY <2>1 DEF TP!Takes
    <2>2. CASE filters = <<"format", "hwupload">>
      BY <2>2 DEF TP!Takes
    <2> QED  BY <2>1, <2>2
  <1>2. \A i \in 1..Len(filters) : TP!Takes(IF i < Len(filters) THEN filters[i + 1] ELSE "h264_vaapi") = TP!Gives(filters[i])
    <2>1. CASE filters = <<"scale", "format", "hwupload">>
      <3>1. Len(filters) = 3 /\ filters[1] = "scale" /\ filters[2] = "format" /\ filters[3] = "hwupload"
        BY <2>1
      <3> QED  BY <3>1 DEF TP!Takes, TP!Gives
    <2>2. CASE filters = <<"format", "hwupload">>
      <3>1. Len(filters) = 2 /\ filters[1] = "format" /\ filters[2] = "hwupload"
        BY <2>2
      <3> QED  BY <3>1 DEF TP!Takes, TP!Gives
    <2> QED  BY <2>1, <2>2
  <1> QED  BY <1>1, <1>2, Chain

\* Frames that stay on the device.
LEMMA DeviceConnects ==
    ASSUME NEW argv, NEW s, NEW filters,
           filters \in {<<"tonemap_vaapi", "scale_vaapi">>, <<"tonemap_vaapi">>, <<"scale_vaapi">>},
           TP!Words(argv.output, "vf") = filters, TP!VideoCodec(argv) = <<"h264_vaapi">>, TP!Decoded(argv, s) = "gpu"
    PROVE  TP!Encodes(argv, s)
  <1>1. CASE filters = <<"tonemap_vaapi", "scale_vaapi">>
    <2>1. Len(filters) = 2 /\ filters[1] = "tonemap_vaapi" /\ filters[2] = "scale_vaapi"
      BY <1>1
    <2>2. TP!Takes(IF 0 < Len(filters) THEN filters[1] ELSE "h264_vaapi") = TP!Decoded(argv, s)
      BY <2>1 DEF TP!Takes
    <2>3. \A i \in 1..Len(filters) : TP!Takes(IF i < Len(filters) THEN filters[i + 1] ELSE "h264_vaapi") = TP!Gives(filters[i])
      BY <2>1 DEF TP!Takes, TP!Gives
    <2>4. "hwupload" \notin TP!Range(filters)
      BY <2>1 DEF TP!Range
    <2> QED  BY <2>2, <2>3, <2>4, Chain
  <1>2. CASE filters \in {<<"tonemap_vaapi">>, <<"scale_vaapi">>}
    <2>1. Len(filters) = 1 /\ filters[1] \in {"tonemap_vaapi", "scale_vaapi"}
      BY <1>2
    <2>2. TP!Takes(IF 0 < Len(filters) THEN filters[1] ELSE "h264_vaapi") = TP!Decoded(argv, s)
      BY <2>1 DEF TP!Takes
    <2>3. \A i \in 1..Len(filters) : TP!Takes(IF i < Len(filters) THEN filters[i + 1] ELSE "h264_vaapi") = TP!Gives(filters[i])
      BY <2>1 DEF TP!Takes, TP!Gives
    <2>4. "hwupload" \notin TP!Range(filters)
      BY <1>2 DEF TP!Range
    <2> QED  BY <2>2, <2>3, <2>4, Chain
  <1> QED  BY <1>1, <1>2

\* Frames that the software filters and encodes.
LEMMA SoftwareConnects ==
    ASSUME NEW argv, NEW s, NEW filters, NEW codec, filters \in {<<"scale", "format">>, <<"scale">>, <<"format">>, <<>>},
           TP!Words(argv.output, "vf") = filters, codec \in {"libx264", "h264_nvenc"}, TP!VideoCodec(argv) = <<codec>>,
           TP!Decoded(argv, s) = "cpu"
    PROVE  TP!Encodes(argv, s)
  <1>1. Len(filters) \in 0..2 /\ \A i \in 1..Len(filters) : filters[i] \in {"scale", "format"}
    OBVIOUS
  <1>2. TP!Takes(IF 0 < Len(filters) THEN filters[1] ELSE codec) = TP!Decoded(argv, s)
    BY <1>1 DEF TP!Takes
  <1>3. \A i \in 1..Len(filters) : TP!Takes(IF i < Len(filters) THEN filters[i + 1] ELSE codec) = TP!Gives(filters[i])
    BY <1>1 DEF TP!Takes, TP!Gives
  <1>4. "hwupload" \notin TP!Range(filters)
    BY <1>1 DEF TP!Range
  <1> QED  BY <1>2, <1>3, <1>4, Chain

\* Every stage of a transcode gets its frames, if the device is there and decodes
\* the source.
LEMMA TranscodeConnects ==
    ASSUME NEW s, NEW c, NEW b, b.name \in {"vaapi", "nvenc", "none"}, b.name = "vaapi" => b.device \in host.nodes,
           <<s.codec, s.depth>> \in host.decodes,
           NEW argv, argv = TP!BuildHlsCmd(s, c, "transcode", b)
    PROVE  TP!Encodes(argv, s)
  <1>1. CASE b.name = "vaapi" /\ TP!IsHdr(s)
    <2>1. /\ TP!Words(argv.input, "hwaccel_device") = <<b.device>> /\ TP!Words(argv.input, "hwaccel_output_format") = <<"vaapi">>
          /\ TP!Words(argv.output, "vf") = TP!HdrFilters(s, c) /\ TP!VideoCodec(argv) = <<"h264_vaapi">>
      BY <1>1, TranscodeIsBuilt
    <2>2. TP!Decoded(argv, s) = "gpu"
      BY <1>1, <2>1 DEF TP!Decoded, TP!Range
    <2>3. TP!HdrFilters(s, c) \in {<<"tonemap_vaapi", "scale_vaapi">>, <<"tonemap_vaapi">>}
      BY DEF TP!HdrFilters
    <2> QED  BY <2>1, <2>2, <2>3, DeviceConnects
  <1>2. ASSUME ~(b.name = "vaapi" /\ TP!IsHdr(s))
        PROVE  TP!Decoded(argv, s) = "cpu"
    <2>1. TP!Words(argv.input, "hwaccel_output_format") = <<>>
      BY <1>2, TranscodeIsBuilt
    <2>2. <<>> # <<"vaapi">>
      OBVIOUS
    <2> QED  BY <2>1, <2>2 DEF TP!Decoded
  <1>3. CASE b.name = "vaapi" /\ ~TP!IsHdr(s)
    <2>1. /\ TP!Words(argv.input, "vaapi_device") = <<b.device>>
          /\ TP!Words(argv.output, "vf") = <<"scale", "format", "hwupload">> /\ TP!VideoCodec(argv) = <<"h264_vaapi">>
      BY <1>3, TranscodeIsBuilt
    <2> QED  BY <1>2, <1>3, <2>1, UploadConnects
  <1>4. CASE b.name = "nvenc"
    <2>1. TP!Words(argv.output, "vf") = <<"scale", "format">> /\ TP!VideoCodec(argv) = <<"h264_nvenc">>
      BY <1>4, TranscodeIsBuilt
    <2> QED  BY <1>2, <1>4, <2>1, SoftwareConnects
  <1>5. CASE b.name = "none"
    <2>1. TP!Words(argv.output, "vf") = <<"scale">> /\ TP!VideoCodec(argv) = <<"libx264">>
      BY <1>5, TranscodeIsBuilt
    <2> QED  BY <1>2, <1>5, <2>1, SoftwareConnects
  <1> QED  BY <1>1, <1>3, <1>4, <1>5

----------------------------------------------------------------------------
\* What is left of a copy when its video options go, with an encoder.
LEMMA PlainIsBuilt ==
    ASSUME NEW encoder
    PROVE  TP!ReplaceOption(TP!RemoveOption(CopyOf, TP!EncoderTuning \cup TP!HwDecode \cup {"vf"}), "vcodec", <<encoder>>)
           = [input |-> [i |-> <<"source">>],
              output |-> [map |-> <<"video", "audio">>, acodec |-> <<"aac">>, f |-> <<"hls">>, vcodec |-> <<encoder>>]]
  <1> DEFINE names == TP!EncoderTuning \cup TP!HwDecode \cup {"vf"}
  <1>1. TP!Without(CopyOf.input, names) = [i |-> <<"source">>]
    BY DEF TP!Without, CopyOf, TP!EncoderTuning, TP!HwDecode
  <1>2. TP!Without(CopyOf.output, names) = CopyOf.output
    BY DEF TP!Without, CopyOf, TP!EncoderTuning, TP!HwDecode
  <1>3. [CopyOf.output EXCEPT !["vcodec"] = <<encoder>>]
        = [map |-> <<"video", "audio">>, acodec |-> <<"aac">>, f |-> <<"hls">>, vcodec |-> <<encoder>>]
    BY DEF CopyOf
  <1>4. TP!RemoveOption(CopyOf, names) = [input |-> [i |-> <<"source">>], output |-> CopyOf.output]
    BY <1>1, <1>2 DEF TP!RemoveOption
  <1> HIDE DEF names
  <1>5. TP!ReplaceOption(TP!RemoveOption(CopyOf, names), "vcodec", <<encoder>>)
        = [input |-> [i |-> <<"source">>], output |-> [CopyOf.output EXCEPT !["vcodec"] = <<encoder>>]]
    BY <1>4 DEF TP!ReplaceOption
  <1> QED  BY <1>3, <1>5 DEF names

\* What differs from a copy in its video options only, is a copy without them.
LEMMA OnlyVideo ==
    ASSUME NEW a, NEW b, NEW argv,
           DOMAIN a \subseteq TP!VideoOptions, DOMAIN b \subseteq TP!VideoOptions,
           NEW encoder,
           argv = [input |-> TP!With([i |-> <<"source">>], a),
                   output |-> TP!With([map |-> <<"video", "audio">>, acodec |-> <<"aac">>, f |-> <<"hls">>, vcodec |-> <<encoder>>], b)]
    PROVE  TP!RemoveOption(argv, TP!VideoOptions) = TP!RemoveOption(CopyOf, TP!VideoOptions)
  <1>1. TP!Without(argv.input, TP!VideoOptions) = [i |-> <<"source">>]
    BY DEF TP!Without, TP!With, TP!VideoOptions, TP!EncoderTuning, TP!HwDecode
  <1>2. TP!Without(argv.output, TP!VideoOptions) = [map |-> <<"video", "audio">>, acodec |-> <<"aac">>, f |-> <<"hls">>]
    <2> DEFINE plain == [map |-> <<"video", "audio">>, acodec |-> <<"aac">>, f |-> <<"hls">>, vcodec |-> <<encoder>>]
    <2>1. /\ DOMAIN plain = {"map", "acodec", "f", "vcodec"}
          /\ plain["map"] = <<"video", "audio">> /\ plain["acodec"] = <<"aac">> /\ plain["f"] = <<"hls">>
      OBVIOUS
    <2>2. {"map", "acodec", "f"} \cap TP!VideoOptions = {} /\ "vcodec" \in TP!VideoOptions
      BY DEF TP!VideoOptions, TP!EncoderTuning, TP!HwDecode
    <2>3. argv.output = TP!With(plain, b)
      OBVIOUS
    <2> HIDE DEF plain
    <2>4. PICK left : left = TP!Without(TP!With(plain, b), TP!VideoOptions)
      OBVIOUS
    <2>5. DOMAIN left = {"map", "acodec", "f"}
      BY <2>1, <2>2, <2>4 DEF TP!Without, TP!With
    <2>6. \A n \in {"map", "acodec", "f"} : left[n] = plain[n]
      BY <2>1, <2>2, <2>4 DEF TP!Without, TP!With
    <2>7. left = [n \in DOMAIN left |-> left[n]]
      BY <2>4 DEF TP!Without
    <2>8. left = [map |-> <<"video", "audio">>, acodec |-> <<"aac">>, f |-> <<"hls">>]
      BY <2>1, <2>5, <2>6, <2>7
    <2> QED  BY <2>3, <2>4, <2>8
  <1>3. TP!Without(CopyOf.input, TP!VideoOptions) = [i |-> <<"source">>]
    BY DEF CopyOf, TP!Without, TP!VideoOptions, TP!EncoderTuning, TP!HwDecode
  <1>4. TP!Without(CopyOf.output, TP!VideoOptions) = [map |-> <<"video", "audio">>, acodec |-> <<"aac">>, f |-> <<"hls">>]
    BY DEF CopyOf, TP!Without, TP!VideoOptions, TP!EncoderTuning, TP!HwDecode
  <1> QED  BY <1>1, <1>2, <1>3, <1>4 DEF TP!RemoveOption

\* A copy that is rewritten to decode and encode on the device, ...
LEMMA FullIsBuilt ==
    ASSUME NEW argv, argv = TP!Rewritten(CopyOf, TP!Profile("vaapi-full-h264"), "vaapi")
    PROVE  /\ TP!Words(argv.input, "hwaccel") = <<"vaapi">>
           /\ TP!Words(argv.input, "hwaccel_device") = <<TP!VaapiDevice>>
           /\ TP!Words(argv.input, "hwaccel_output_format") = <<"vaapi">>
           /\ TP!Words(argv.output, "vf") = <<"scale_vaapi">> /\ TP!VideoCodec(argv) = <<"h264_vaapi">>
           /\ TP!RemoveOption(argv, TP!VideoOptions) = TP!RemoveOption(CopyOf, TP!VideoOptions)
  <1> DEFINE rated == TP!With([vf |-> <<"scale_vaapi">>], [low_power |-> <<"1">>, rc_mode |-> <<"CQP">>, qp |-> <<"quality">>])
  <1>1. TP!Profile("vaapi-full-h264") = [encoder |-> "h264_vaapi", engine |-> "vaapi", decode |-> "vaapi"]
    BY DEF TP!Profile
  <1>2. argv = [input |-> TP!With([i |-> <<"source">>], TP!OnDevice(TP!VaapiDevice)),
                output |-> TP!With([map |-> <<"video", "audio">>, acodec |-> <<"aac">>, f |-> <<"hls">>, vcodec |-> <<"h264_vaapi">>], rated)]
    <2>1. PICK plain : plain = TP!ReplaceOption(TP!RemoveOption(CopyOf, TP!EncoderTuning \cup TP!HwDecode \cup {"vf"}), "vcodec", <<"h264_vaapi">>)
      OBVIOUS
    <2>2. plain = [input |-> [i |-> <<"source">>],
                       output |-> [map |-> <<"video", "audio">>, acodec |-> <<"aac">>, f |-> <<"hls">>, vcodec |-> <<"h264_vaapi">>]]
      BY <2>1, PlainIsBuilt
    <2>3. argv = TP!InsertBeforeCodec(TP!InsertBeforeInput(plain, TP!OnDevice(TP!VaapiDevice)), rated)
      BY <1>1, <2>1 DEF TP!Rewritten
    <2> HIDE DEF rated
    <2> QED  BY <2>2, <2>3 DEF TP!InsertBeforeInput, TP!InsertBeforeCodec
  <1>3. DOMAIN TP!OnDevice(TP!VaapiDevice) \subseteq TP!VideoOptions /\ DOMAIN rated \subseteq TP!VideoOptions
    BY DEF TP!OnDevice, TP!With, TP!VideoOptions, TP!EncoderTuning, TP!HwDecode
  <1>4. TP!RemoveOption(argv, TP!VideoOptions) = TP!RemoveOption(CopyOf, TP!VideoOptions)
    <2> HIDE DEF rated
    <2> QED  BY <1>2, <1>3, OnlyVideo
  <1>5. /\ TP!Words(argv.input, "hwaccel") = <<"vaapi">>
        /\ TP!Words(argv.input, "hwaccel_device") = <<TP!VaapiDevice>>
        /\ TP!Words(argv.input, "hwaccel_output_format") = <<"vaapi">>
    <2> HIDE DEF rated
    <2> QED  BY <1>2 DEF TP!Words, TP!With, TP!OnDevice
  <1>6. TP!Words(argv.output, "vf") = <<"scale_vaapi">> /\ TP!VideoCodec(argv) = <<"h264_vaapi">>
    BY <1>2 DEF TP!Words, TP!With, TP!VideoCodec
  <1> QED  BY <1>4, <1>5, <1>6

\* ... to encode there what the software decodes, ...
LEMMA HalfIsBuilt ==
    ASSUME NEW argv, argv = TP!Rewritten(CopyOf, TP!Profile("vaapi-full-h264"), "software")
    PROVE  /\ TP!Words(argv.input, "hwaccel") = <<>> /\ TP!Words(argv.input, "hwaccel_output_format") = <<>>
           /\ TP!Words(argv.input, "vaapi_device") = <<TP!VaapiDevice>>
           /\ TP!Words(argv.output, "vf") = <<"format", "hwupload">> /\ TP!VideoCodec(argv) = <<"h264_vaapi">>
           /\ TP!RemoveOption(argv, TP!VideoOptions) = TP!RemoveOption(CopyOf, TP!VideoOptions)
  <1> DEFINE rated == TP!With([vf |-> <<"format", "hwupload">>], [low_power |-> <<"1">>, rc_mode |-> <<"CQP">>, qp |-> <<"quality">>])
             device == [vaapi_device |-> <<TP!VaapiDevice>>]
  <1>1. TP!Profile("vaapi-full-h264") = [encoder |-> "h264_vaapi", engine |-> "vaapi", decode |-> "vaapi"]
    BY DEF TP!Profile
  <1>2. TP!Words(CopyOf.output, "vf") = <<>> /\ ~ \E k \in DOMAIN <<>> : <<>>[k] \in {"scale", "scale_vaapi"}
    BY DEF TP!Words, CopyOf
  <1>3. argv = [input |-> TP!With([i |-> <<"source">>], device),
                output |-> TP!With([map |-> <<"video", "audio">>, acodec |-> <<"aac">>, f |-> <<"hls">>, vcodec |-> <<"h264_vaapi">>], rated)]
    <2>1. PICK plain : plain = TP!ReplaceOption(TP!RemoveOption(CopyOf, TP!EncoderTuning \cup TP!HwDecode \cup {"vf"}), "vcodec", <<"h264_vaapi">>)
      OBVIOUS
    <2>2. plain = [input |-> [i |-> <<"source">>],
                       output |-> [map |-> <<"video", "audio">>, acodec |-> <<"aac">>, f |-> <<"hls">>, vcodec |-> <<"h264_vaapi">>]]
      BY <2>1, PlainIsBuilt
    <2>3. argv = TP!InsertBeforeCodec(TP!InsertBeforeInput(plain, device), rated)
      BY <1>1, <1>2, <2>1 DEF TP!Rewritten
    <2> HIDE DEF rated
    <2> QED  BY <2>2, <2>3 DEF TP!InsertBeforeInput, TP!InsertBeforeCodec
  <1>4. DOMAIN device \subseteq TP!VideoOptions /\ DOMAIN rated \subseteq TP!VideoOptions
    BY DEF TP!With, TP!VideoOptions, TP!EncoderTuning, TP!HwDecode
  <1>5. TP!RemoveOption(argv, TP!VideoOptions) = TP!RemoveOption(CopyOf, TP!VideoOptions)
    <2> HIDE DEF rated, device
    <2> QED  BY <1>3, <1>4, OnlyVideo
  <1>6. /\ TP!Words(argv.input, "hwaccel") = <<>> /\ TP!Words(argv.input, "hwaccel_output_format") = <<>>
        /\ TP!Words(argv.input, "vaapi_device") = <<TP!VaapiDevice>>
    <2> HIDE DEF rated
    <2> QED  BY <1>3 DEF TP!Words, TP!With
  <1>7. TP!Words(argv.output, "vf") = <<"format", "hwupload">> /\ TP!VideoCodec(argv) = <<"h264_vaapi">>
    BY <1>3 DEF TP!Words, TP!With, TP!VideoCodec
  <1> QED  BY <1>5, <1>6, <1>7

\* ... or for the software alone.
LEMMA SoftwareIsBuilt ==
    ASSUME NEW argv, argv = TP!Rewritten(CopyOf, TP!Profile("cpu-h264"), "software")
    PROVE  /\ TP!Words(argv.input, "hwaccel") = <<>> /\ TP!Words(argv.input, "hwaccel_output_format") = <<>>
           /\ TP!Words(argv.output, "vf") = <<>> /\ TP!VideoCodec(argv) = <<"libx264">>
           /\ TP!RemoveOption(argv, TP!VideoOptions) = TP!RemoveOption(CopyOf, TP!VideoOptions)
  <1> DEFINE software == [preset |-> <<"veryfast">>, crf |-> <<"quality">>]
  <1>1. TP!Profile("cpu-h264") = [encoder |-> "libx264", engine |-> "cpu", decode |-> "software"]
    BY DEF TP!Profile
  <1>2. TP!Words(CopyOf.output, "vf") = <<>> /\ ~ \E k \in DOMAIN <<>> : <<>>[k] \in {"scale", "scale_vaapi"}
    BY DEF TP!Words, CopyOf
  <1>3. TP!With([i |-> <<"source">>], TP!NoOptions) = [i |-> <<"source">>]
    BY DEF TP!With, TP!NoOptions
  <1>4. argv = [input |-> [i |-> <<"source">>],
                output |-> TP!With([map |-> <<"video", "audio">>, acodec |-> <<"aac">>, f |-> <<"hls">>, vcodec |-> <<"libx264">>], software)]
    <2>1. PICK plain : plain = TP!ReplaceOption(TP!RemoveOption(CopyOf, TP!EncoderTuning \cup TP!HwDecode \cup {"vf"}), "vcodec", <<"libx264">>)
      OBVIOUS
    <2>2. plain = [input |-> [i |-> <<"source">>],
                       output |-> [map |-> <<"video", "audio">>, acodec |-> <<"aac">>, f |-> <<"hls">>, vcodec |-> <<"libx264">>]]
      BY <2>1, PlainIsBuilt
    <2>3. argv = TP!InsertBeforeCodec(plain, software)
      BY <1>1, <1>2, <2>1 DEF TP!Rewritten
    <2> HIDE DEF software
    <2> QED  BY <2>2, <2>3 DEF TP!InsertBeforeInput, TP!InsertBeforeCodec
  <1>5. DOMAIN TP!NoOptions \subseteq TP!VideoOptions /\ DOMAIN software \subseteq TP!VideoOptions
    BY DEF TP!NoOptions, TP!VideoOptions, TP!EncoderTuning, TP!HwDecode
  <1>6. TP!RemoveOption(argv, TP!VideoOptions) = TP!RemoveOption(CopyOf, TP!VideoOptions)
    <2> HIDE DEF software
    <2> QED  BY <1>3, <1>4, <1>5, OnlyVideo
  <1>7. TP!Words(argv.input, "hwaccel") = <<>> /\ TP!Words(argv.input, "hwaccel_output_format") = <<>>
    <2> HIDE DEF software
    <2> QED  BY <1>4 DEF TP!Words
  <1>8. TP!Words(argv.output, "vf") = <<>> /\ TP!VideoCodec(argv) = <<"libx264">>
    BY <1>4 DEF TP!Words, TP!With, TP!VideoCodec
  <1> QED  BY <1>6, <1>7, <1>8

----------------------------------------------------------------------------
\* What comes of a copy: it is kept, with a line that names no codec, ...
Preserved(out) ==
    /\ out.argv = CopyOf /\ out.log.to = Nothing
    /\ out.log.wording \in {"copy preserved", "unavailable encoder", "device unavailable"}

\* ... or rewritten, with one that does.
Full(out) ==
    /\ out.argv = TP!Rewritten(CopyOf, TP!Profile("vaapi-full-h264"), "vaapi")
    /\ out.log = TP!Line("vaapi-full-h264", <<"h264_vaapi">>, "rewritten")
    /\ "h264_vaapi" \in host.encoders /\ TP!VaapiDevice \in host.nodes
Half(out) ==
    /\ out.argv = TP!Rewritten(CopyOf, TP!Profile("vaapi-full-h264"), "software")
    /\ out.log = TP!Line("vaapi-h264", <<"h264_vaapi">>, "rewritten")
    /\ "h264_vaapi" \in host.encoders /\ TP!VaapiDevice \in host.nodes
Software(out) ==
    /\ out.argv = TP!Rewritten(CopyOf, TP!Profile("cpu-h264"), "software")
    /\ out.log = TP!Line("cpu-h264", <<"libx264">>, "rewritten")
    /\ "libx264" \in host.encoders

\* What _apply_profile makes of it, ...
LEMMA ProfileOfCopy ==
    ASSUME NEW name \in {"vaapi-full-h264", "cpu-h264"}, NEW codec, NEW works, NEW details,
           NEW out, out = TP!ApplyProfile(CopyOf, name, codec, TP!AvailableEncoders(works), details)
    PROVE  /\ Preserved(out) \/ Full(out) \/ Half(out) \/ Software(out)
           /\ Preserved(out) =>
                \/ codec \in TP!DirectVideoCodecs \cup {Nothing}
                \/ TP!Profile(name).encoder \notin TP!AvailableEncoders(works)
                \/ name = "vaapi-full-h264" /\ TP!VaapiDevice \notin host.nodes
  <1> DEFINE p == TP!Profile(name)
             listed == TP!AvailableEncoders(works)
             direct == TP!DirectVideoCodecs \cup {Nothing}
             decode == IF p.decode = "vaapi" /\ TP!UnsafeFullDecode(details) THEN "software" ELSE p.decode
  <1>1. listed \subseteq host.encoders
    BY DEF TP!AvailableEncoders
  <1>2. /\ name = "vaapi-full-h264" => p = [encoder |-> "h264_vaapi", engine |-> "vaapi", decode |-> "vaapi"]
        /\ name = "cpu-h264" => p = [encoder |-> "libx264", engine |-> "cpu", decode |-> "software"]
    BY DEF TP!Profile
  <1>3. CASE codec \in direct
    <2>1. PICK line : line = TP!Line(name, Nothing, "copy preserved")
      OBVIOUS
    <2>2. Preserved(out)
      <3>1. out = [argv |-> CopyOf, log |-> line]
        BY <2>1, <1>3 DEF TP!ApplyProfile
      <3>2. out.argv = CopyOf /\ out.log = line
        BY <3>1
      <3>3. line.to = Nothing /\ line.wording = "copy preserved"
        BY <2>1 DEF TP!Line
      <3> QED  BY <3>2, <3>3 DEF Preserved
    <2> QED  BY <1>3, <2>2
  <1>4. CASE codec \notin direct /\ p.encoder \notin listed
    <2>1. PICK line : line = TP!Line(name, Nothing, "unavailable encoder")
      OBVIOUS
    <2>2. Preserved(out)
      <3>1. out = [argv |-> CopyOf, log |-> line]
        BY <2>1, <1>4 DEF TP!ApplyProfile
      <3>2. out.argv = CopyOf /\ out.log = line
        BY <3>1
      <3>3. line.to = Nothing /\ line.wording = "unavailable encoder"
        BY <2>1 DEF TP!Line
      <3> QED  BY <3>2, <3>3 DEF Preserved
    <2> QED  BY <1>4, <2>2
  <1>5. CASE codec \notin direct /\ p.encoder \in listed /\ p.engine = "vaapi" /\ TP!VaapiDevice \notin host.nodes
    <2>1. PICK line : line = TP!Line(name, Nothing, "device unavailable")
      OBVIOUS
    <2>2. Preserved(out)
      <3>1. out = [argv |-> CopyOf, log |-> line]
        BY <2>1, <1>5 DEF TP!ApplyProfile
      <3>2. out.argv = CopyOf /\ out.log = line
        BY <3>1
      <3>3. line.to = Nothing /\ line.wording = "device unavailable"
        BY <2>1 DEF TP!Line
      <3> QED  BY <3>2, <3>3 DEF Preserved
    <2>3. name = "vaapi-full-h264"
      BY <1>2, <1>5
    <2> QED  BY <1>5, <2>2, <2>3
  <1>6. CASE codec \notin direct /\ p.encoder \in listed /\ ~(p.engine = "vaapi" /\ TP!VaapiDevice \notin host.nodes)
    <2>1. out = [argv |-> TP!Rewritten(CopyOf, p, decode), log |-> TP!Line(TP!RanAs(name, decode), <<p.encoder>>, "rewritten")]
      BY <1>6 DEF TP!ApplyProfile
    <2>2. out.log.wording = "rewritten"
      BY <2>1 DEF TP!Line
    <2>3. ~Preserved(out)
      BY <2>2 DEF Preserved
    <2>4. Full(out) \/ Half(out) \/ Software(out)
      <3>1. CASE name = "cpu-h264"
        <4>1. decode = "software" /\ p.encoder = "libx264"
          BY <1>2, <3>1
        <4>2. TP!RanAs(name, decode) = name
          BY <3>1 DEF TP!RanAs
        <4> QED  BY <1>1, <1>6, <2>1, <3>1, <4>1, <4>2 DEF Software
      <3>2. CASE name = "vaapi-full-h264" /\ TP!UnsafeFullDecode(details)
        <4>1. decode = "software" /\ p.encoder = "h264_vaapi" /\ p.engine = "vaapi"
          BY <1>2, <3>2
        <4>2. TP!RanAs(name, decode) = "vaapi-h264"
          BY <3>2, <4>1 DEF TP!RanAs
        <4> QED  BY <1>1, <1>6, <2>1, <3>2, <4>1, <4>2 DEF Half
      <3>3. CASE name = "vaapi-full-h264" /\ ~TP!UnsafeFullDecode(details)
        <4>1. decode = "vaapi" /\ p.encoder = "h264_vaapi" /\ p.engine = "vaapi"
          BY <1>2, <3>3
        <4>2. TP!RanAs(name, decode) = name
          BY <3>3, <4>1 DEF TP!RanAs
        <4> QED  BY <1>1, <1>6, <2>1, <3>3, <4>1, <4>2 DEF Full
      <3> QED  BY <3>1, <3>2, <3>3
    <2> QED  BY <2>3, <2>4
  <1> QED  BY <1>3, <1>4, <1>5, <1>6

\* ... and _auto_apply: if all its probes answer and the software encoder is there,
\* it keeps only a codec that is direct.
LEMMA AutoOfCopy ==
    ASSUME PipelineParameters, NEW s, s.codec # Nothing, NEW w, NEW out, out = TP!AutoApply(CopyOf, s, w)
    PROVE  /\ Preserved(out) \/ Full(out) \/ Half(out) \/ Software(out)
           /\ /\ Preserved(out) /\ "libx264" \in host.encoders
              /\ w.codec /\ w.encoders /\ w.codecAgain /\ w.encodersAgain
              => s.codec \in config.direct
  <1> DEFINE name == TP!AutoProfile(TP!AvailableEncoders(w.encoders))
             spared == TP!ProbeVideoCodec(s, w.codec) \in TP!DirectVideoCodecs \cup {Nothing}
  <1>1. TP!Copies(CopyOf)
    BY DEF TP!Copies, TP!VideoCodec, TP!Words, CopyOf
  <1>2. name \in {"vaapi-full-h264", "cpu-h264", Nothing}
    BY DEF TP!AutoProfile
  <1>3. CASE spared \/ name = Nothing
    <2>1. PICK line : line = TP!Line(Nothing, Nothing, "copy preserved")
      OBVIOUS
    <2>2. Preserved(out)
      <3>1. out = [argv |-> CopyOf, log |-> line]
        BY <2>1, <1>1, <1>3 DEF TP!AutoApply
      <3>2. out.argv = CopyOf /\ out.log = line
        BY <3>1
      <3>3. line.to = Nothing /\ line.wording = "copy preserved"
        BY <2>1 DEF TP!Line
      <3> QED  BY <3>2, <3>3 DEF Preserved
    <2>3. ASSUME "libx264" \in host.encoders, w.codec, w.encoders, name = Nothing
          PROVE  FALSE
      BY <2>3 DEF TP!AutoProfile, TP!AvailableEncoders, PipelineParameters
    <2>4. ASSUME spared, w.codec
          PROVE  s.codec \in config.direct
      BY <2>4 DEF TP!ProbeVideoCodec, TP!DirectVideoCodecs
    <2> HIDE DEF spared, name
    <2> QED  BY <1>3, <2>2, <2>3, <2>4
  <1>4. CASE ~spared /\ name # Nothing
    <2>1. out = TP!ApplyProfile(CopyOf, name, TP!ProbeVideoCodec(s, w.codecAgain), TP!AvailableEncoders(w.encodersAgain), TP!ProbeVideoFormat(s, w.format))
      BY <1>1, <1>4 DEF TP!AutoApply
    <2>2. name \in {"vaapi-full-h264", "cpu-h264"}
      BY <1>2, <1>4
    <2>3. /\ Preserved(out) \/ Full(out) \/ Half(out) \/ Software(out)
          /\ Preserved(out) =>
               \/ TP!ProbeVideoCodec(s, w.codecAgain) \in TP!DirectVideoCodecs \cup {Nothing}
               \/ TP!Profile(name).encoder \notin TP!AvailableEncoders(w.encodersAgain)
               \/ name = "vaapi-full-h264" /\ TP!VaapiDevice \notin host.nodes
      <3> HIDE DEF name
      <3> QED  BY <2>1, <2>2, ProfileOfCopy
    <2>4. ASSUME w.codecAgain, TP!ProbeVideoCodec(s, w.codecAgain) \in TP!DirectVideoCodecs \cup {Nothing}
          PROVE  s.codec \in config.direct
      BY <2>4 DEF TP!ProbeVideoCodec, TP!DirectVideoCodecs
    <2>5. ASSUME w.encoders, w.encodersAgain
          PROVE  TP!Profile(name).encoder \in TP!AvailableEncoders(w.encodersAgain)
      <3>1. TP!AvailableEncoders(w.encoders) = host.encoders /\ TP!AvailableEncoders(w.encodersAgain) = host.encoders
        BY <2>5 DEF TP!AvailableEncoders
      <3>2. CASE name = "vaapi-full-h264"
        <4>1. "h264_vaapi" \in host.encoders
          BY <1>4, <3>1, <3>2 DEF TP!AutoProfile
        <4> QED  BY <3>1, <3>2, <4>1 DEF TP!Profile
      <3>3. CASE name = "cpu-h264"
        <4>1. "libx264" \in host.encoders
          BY <1>4, <3>1, <3>3 DEF TP!AutoProfile
        <4> QED  BY <3>1, <3>3, <4>1 DEF TP!Profile
      <3> QED  BY <2>2, <3>2, <3>3
    <2>6. name = "vaapi-full-h264" => TP!VaapiDevice \in host.nodes
      BY <1>2, <1>4 DEF TP!AutoProfile
    <2> HIDE DEF name
    <2> QED  BY <2>3, <2>4, <2>5, <2>6
  <1> QED  BY <1>3, <1>4

----------------------------------------------------------------------------
\* What a command must be that runs instead of the one that was built for s, with
\* the line that was logged; w says which of the wrapper's probes answered.
Answered(w) == w.codec /\ w.encoders /\ w.codecAgain /\ w.encodersAgain
Connects(argv, s) == ~lost /\ <<s.codec, s.depth>> \in host.decodes => TP!Encodes(argv, s)
Confined(argv, built, action) ==
    /\ TP!RemoveOption(argv, TP!VideoOptions) = TP!RemoveOption(built, TP!VideoOptions)
    /\ argv # built => /\ action = "copy"
                       /\ TP!VideoCodec(argv)[1] \in host.encoders \cap {"h264_vaapi", "libx264"}
Shown(argv, s, w) ==
    /\ TP!IsHdr(s) => ~TP!Copies(argv)
    /\ TP!IsHdr(s) /\ TP!Engine(argv) = "vaapi" => "tonemap_vaapi" \in TP!Range(TP!Words(argv.output, "vf"))
    /\ ~lost /\ Answered(w) /\ config.mode = "auto" /\ "libx264" \in host.encoders
         => ~TP!Copies(argv) \/ s.codec \in config.direct
Reported(argv, built, log) ==
    /\ TP!Parsed(log).target # Nothing => TP!Parsed(log).target = TP!VideoCodec(argv)
    /\ TP!Parsed(log).action # Nothing => TP!Engine(argv) = "copy"
    /\ argv # built => TP!Parsed(log).target # Nothing
    /\ argv # built => (TP!Parsed(log).profile = "vaapi-full-h264" <=> TP!Words(argv.input, "hwaccel") # <<>>)

\* What the dashboard reads in a line that names no codec.
LEMMA QuietLine ==
    ASSUME NEW log, log.to = Nothing
    PROVE  /\ log.wording = "copy preserved" =>
                TP!Parsed(log).target = <<"copy">> /\ TP!Parsed(log).action = "direct-stream"
           /\ log.wording # "copy preserved" => TP!Parsed(log).target = Nothing
           /\ log.wording \notin {"copy preserved", "unavailable encoder"} => TP!Parsed(log).action = Nothing
  BY DEF TP!Parsed

\* A transcode is left as it is.
LEMMA TranscodeRuns ==
    ASSUME NEW s, NEW c, NEW b, b.name \in {"vaapi", "nvenc", "none"}, ~lost /\ b.name = "vaapi" => b.device \in host.nodes,
           NEW argv, argv = TP!BuildHlsCmd(s, c, "transcode", b), NEW w
    PROVE  /\ ~TP!Copies(argv) /\ Connects(argv, s) /\ Confined(argv, argv, "transcode") /\ Shown(argv, s, w)
           /\ Reported(argv, argv, TP!Line(Nothing, Nothing, "unchanged"))
  <1>1. TP!VideoCodec(argv) \in {<<"h264_vaapi">>, <<"h264_nvenc">>, <<"libx264">>}
    BY TranscodeIsBuilt
  <1>2. ~TP!Copies(argv)
    BY <1>1 DEF TP!Copies
  <1>3. Connects(argv, s)
    BY TranscodeConnects DEF Connects
  <1>4. Confined(argv, argv, "transcode")
    BY DEF Confined
  <1>5. ASSUME TP!IsHdr(s), TP!Engine(argv) = "vaapi"
        PROVE  "tonemap_vaapi" \in TP!Range(TP!Words(argv.output, "vf"))
    <2>1. b.name = "vaapi"
      <3>1. TP!VideoCodec(argv) = <<"h264_vaapi">>
        BY <1>1, <1>5 DEF TP!Engine
      <3> QED  BY <3>1, TranscodeIsBuilt
    <2>2. TP!Words(argv.output, "vf") = TP!HdrFilters(s, c)
      BY <1>5, <2>1, TranscodeIsBuilt
    <2>3. "tonemap_vaapi" \in TP!Range(TP!HdrFilters(s, c))
      <3>1. CASE TP!HdrFilters(s, c) = <<"tonemap_vaapi", "scale_vaapi">>
        BY <3>1 DEF TP!Range
      <3>2. CASE TP!HdrFilters(s, c) = <<"tonemap_vaapi">>
        BY <3>2 DEF TP!Range
      <3> QED  BY <3>1, <3>2 DEF TP!HdrFilters
    <2> QED  BY <2>2, <2>3
  <1>6. Shown(argv, s, w)
    BY <1>2, <1>5 DEF Shown
  <1>7. PICK log : log = TP!Line(Nothing, Nothing, "unchanged")
    OBVIOUS
  <1>8. log.to = Nothing /\ log.wording = "unchanged"
    BY <1>7 DEF TP!Line
  <1>9. TP!Parsed(log).target = Nothing /\ TP!Parsed(log).action = Nothing
    BY <1>8, QuietLine
  <1>10. Reported(argv, argv, log)
    BY <1>9 DEF Reported
  <1> QED  BY <1>2, <1>3, <1>4, <1>6, <1>7, <1>10

\* A copy that is kept.
LEMMA CopyRuns ==
    ASSUME NEW s, ~TP!IsHdr(s), NEW log, log.to = Nothing, NEW w,
           ~lost /\ Answered(w) /\ config.mode = "auto" /\ "libx264" \in host.encoders => s.codec \in config.direct
    PROVE  /\ Connects(CopyOf, s) /\ Confined(CopyOf, CopyOf, "copy") /\ Shown(CopyOf, s, w)
           /\ Reported(CopyOf, CopyOf, log)
  <1>1. TP!VideoCodec(CopyOf) = <<"copy">> /\ TP!Words(CopyOf.output, "vf") = <<>>
    BY DEF TP!VideoCodec, TP!Words, CopyOf
  <1>2. Connects(CopyOf, s)
    BY <1>1 DEF Connects, TP!Encodes, TP!Copies
  <1>3. Confined(CopyOf, CopyOf, "copy")
    BY DEF Confined
  <1>4. Shown(CopyOf, s, w)
    BY DEF Shown
  <1>5. TP!Engine(CopyOf) = "copy"
    BY <1>1 DEF TP!Engine
  <1>6. TP!Parsed(log).target # Nothing => TP!Parsed(log).target = <<"copy">>
    BY QuietLine
  <1>7. Reported(CopyOf, CopyOf, log)
    BY <1>1, <1>5, <1>6 DEF Reported
  <1> QED  BY <1>2, <1>3, <1>4, <1>7

\* A line that names the codec of a rewritten command.
LEMMA LoudLine ==
    ASSUME NEW name, NEW to, NEW log, log = TP!Line(name, to, "rewritten")
    PROVE  TP!Parsed(log).target = to /\ TP!Parsed(log).action = Nothing /\ TP!Parsed(log).profile = name
  <1>1. log.profile = name /\ log.to = to /\ log.wording = "rewritten"
    BY DEF TP!Line
  <1> QED  BY <1>1 DEF TP!Parsed

\* A copy that is rewritten.
LEMMA RewrittenRuns ==
    ASSUME PipelineParameters, NEW s, ~TP!IsHdr(s), NEW out, Full(out) \/ Half(out) \/ Software(out), NEW w
    PROVE  /\ Connects(out.argv, s) /\ Confined(out.argv, CopyOf, "copy") /\ Shown(out.argv, s, w)
           /\ Reported(out.argv, CopyOf, out.log)
  <1>1. PICK argv : argv = out.argv
    OBVIOUS
  <1>2. /\ TP!VideoCodec(argv) \in {<<"h264_vaapi">>, <<"libx264">>}
        /\ TP!VideoCodec(argv)[1] \in host.encoders
        /\ TP!RemoveOption(argv, TP!VideoOptions) = TP!RemoveOption(CopyOf, TP!VideoOptions)
    <2>1. CASE Full(out)
      BY <1>1, <2>1, FullIsBuilt DEF Full
    <2>2. CASE Half(out)
      BY <1>1, <2>2, HalfIsBuilt DEF Half
    <2>3. CASE Software(out)
      BY <1>1, <2>3, SoftwareIsBuilt DEF Software
    <2> QED  BY <2>1, <2>2, <2>3
  <1>3. ~TP!Copies(argv)
    BY <1>2 DEF TP!Copies
  <1>4. Confined(argv, CopyOf, "copy")
    BY <1>2 DEF Confined
  <1>5. Shown(argv, s, w)
    BY <1>3 DEF Shown
  <1>6. Connects(argv, s)
    <2>1. CASE Full(out)
      <3>1. /\ TP!Words(argv.input, "hwaccel_device") = <<TP!VaapiDevice>> /\ TP!Words(argv.input, "hwaccel_output_format") = <<"vaapi">>
            /\ TP!Words(argv.output, "vf") = <<"scale_vaapi">> /\ TP!VideoCodec(argv) = <<"h264_vaapi">> /\ TP!VaapiDevice \in host.nodes
        BY <1>1, <2>1, FullIsBuilt DEF Full
      <3>2. <<s.codec, s.depth>> \in host.decodes => TP!Decoded(argv, s) = "gpu"
        BY <3>1 DEF TP!Decoded, TP!Range
      <3> QED  BY <3>1, <3>2, DeviceConnects DEF Connects
    <2>2. ASSUME Half(out) \/ Software(out)
          PROVE  TP!Decoded(argv, s) = "cpu"
      <3>1. TP!Words(argv.input, "hwaccel_output_format") = <<>>
        BY <1>1, <2>2, HalfIsBuilt, SoftwareIsBuilt DEF Half, Software
      <3>2. <<>> # <<"vaapi">>
        OBVIOUS
      <3> QED  BY <3>1, <3>2 DEF TP!Decoded
    <2>3. CASE Half(out)
      <3>1. /\ TP!Words(argv.input, "vaapi_device") = <<TP!VaapiDevice>> /\ TP!VaapiDevice \in host.nodes
            /\ TP!Words(argv.output, "vf") = <<"format", "hwupload">> /\ TP!VideoCodec(argv) = <<"h264_vaapi">>
        BY <1>1, <2>3, HalfIsBuilt DEF Half
      <3> QED  BY <2>2, <2>3, <3>1, UploadConnects DEF Connects
    <2>4. CASE Software(out)
      <3>1. TP!Words(argv.output, "vf") = <<>> /\ TP!VideoCodec(argv) = <<"libx264">>
        BY <1>1, <2>4, SoftwareIsBuilt DEF Software
      <3> QED  BY <2>2, <2>4, <3>1, SoftwareConnects DEF Connects
    <2> QED  BY <2>1, <2>3, <2>4
  <1>7. Reported(argv, CopyOf, out.log)
    <2>1. CASE Full(out)
      <3>1. TP!VideoCodec(argv) = <<"h264_vaapi">> /\ TP!Words(argv.input, "hwaccel") = <<"vaapi">>
        BY <1>1, <2>1, FullIsBuilt DEF Full
      <3>2. /\ TP!Parsed(out.log).target = <<"h264_vaapi">> /\ TP!Parsed(out.log).action = Nothing
            /\ TP!Parsed(out.log).profile = "vaapi-full-h264"
        BY <2>1, LoudLine DEF Full
      <3>3. <<"vaapi">> # <<>>
        OBVIOUS
      <3> QED  BY <3>1, <3>2, <3>3 DEF Reported, PipelineParameters
    <2>2. CASE Half(out)
      <3>1. TP!VideoCodec(argv) = <<"h264_vaapi">> /\ TP!Words(argv.input, "hwaccel") = <<>>
        BY <1>1, <2>2, HalfIsBuilt DEF Half
      <3>2. /\ TP!Parsed(out.log).target = <<"h264_vaapi">> /\ TP!Parsed(out.log).action = Nothing
            /\ TP!Parsed(out.log).profile = "vaapi-h264"
        BY <2>2, LoudLine DEF Half
      <3> QED  BY <3>1, <3>2 DEF Reported, PipelineParameters
    <2>3. CASE Software(out)
      <3>1. TP!VideoCodec(argv) = <<"libx264">> /\ TP!Words(argv.input, "hwaccel") = <<>>
        BY <1>1, <2>3, SoftwareIsBuilt DEF Software
      <3>2. /\ TP!Parsed(out.log).target = <<"libx264">> /\ TP!Parsed(out.log).action = Nothing
            /\ TP!Parsed(out.log).profile = "cpu-h264"
        BY <2>3, LoudLine DEF Software
      <3> QED  BY <3>1, <3>2 DEF Reported, PipelineParameters
    <2> QED  BY <2>1, <2>2, <2>3
  <1> QED  BY <1>1, <1>4, <1>5, <1>6, <1>7

\* A command without a decision: it is no copy, and only VAAPI misses a device.
LEMMA UndecidedRuns ==
    ASSUME NEW s, NEW b, b.name \in {"vaapi", "nvenc", "none"}, NEW argv, argv = TP!UndecidedCmd(b)
    PROVE  /\ ~TP!Copies(argv) /\ (b.name # "vaapi" => Connects(argv, s)) /\ Confined(argv, argv, "undecided")
           /\ Reported(argv, argv, TP!Line(Nothing, Nothing, "unchanged"))
  <1>1. /\ TP!VideoCodec(argv) \in {<<"h264_vaapi">>, <<"h264_nvenc">>, <<"libx264">>}
        /\ TP!Words(argv.input, "hwaccel_output_format") = <<>>
        /\ b.name = "nvenc" => TP!VideoCodec(argv) = <<"h264_nvenc">> /\ TP!Words(argv.output, "vf") = <<"format">>
        /\ b.name = "none" => TP!VideoCodec(argv) = <<"libx264">> /\ TP!Words(argv.output, "vf") = <<>>
    <2> USE DEF TP!UndecidedCmd, TP!UndecidedVideo, TP!With, TP!Words, TP!VideoCodec
    <2>1. CASE b.name = "vaapi"
      BY <2>1
    <2>2. CASE b.name = "nvenc"
      BY <2>2
    <2>3. CASE b.name = "none"
      BY <2>3
    <2> QED  BY <2>1, <2>2, <2>3
  <1>2. ~TP!Copies(argv)
    BY <1>1 DEF TP!Copies
  <1>3. TP!Decoded(argv, s) = "cpu"
    <2>1. <<>> # <<"vaapi">>
      OBVIOUS
    <2> QED  BY <1>1, <2>1 DEF TP!Decoded
  <1>4. b.name # "vaapi" => Connects(argv, s)
    BY <1>1, <1>3, SoftwareConnects DEF Connects
  <1>5. Confined(argv, argv, "undecided")
    BY DEF Confined
  <1>6. PICK log : log = TP!Line(Nothing, Nothing, "unchanged")
    OBVIOUS
  <1>7. log.to = Nothing /\ log.wording = "unchanged"
    BY <1>6 DEF TP!Line
  <1>8. TP!Parsed(log).target = Nothing /\ TP!Parsed(log).action = Nothing
    BY <1>7, QuietLine
  <1>9. Reported(argv, argv, log)
    BY <1>8 DEF Reported
  <1> QED  BY <1>2, <1>4, <1>5, <1>6, <1>9

----------------------------------------------------------------------------
\* What the wrapper runs is what it must be.
LEMMA WrapperRuns ==
    ASSUME PipelineParameters, NEW s \in Sources, NEW c, NEW b, b.name \in {"vaapi", "nvenc", "none"},
           ~lost /\ b.name = "vaapi" => b.device \in host.nodes,
           NEW w, NEW action, action = TP!Decide(s, c),
           NEW built, built = TP!BuildHlsCmd(s, c, action, b),
           NEW out, out = IF config.mode = "auto" THEN TP!AutoApply(built, s, w)
                          ELSE [argv |-> built, log |-> TP!Line(Nothing, Nothing, "unchanged")]
    PROVE  /\ Connects(out.argv, s) /\ Confined(out.argv, built, action) /\ Shown(out.argv, s, w)
           /\ Reported(out.argv, built, out.log)
  <1>1. action \in {"transcode", "copy"} /\ (action = "copy" => ~TP!IsHdr(s))
    BY DEF TP!Decide
  <1>2. PICK unchanged : unchanged = TP!Line(Nothing, Nothing, "unchanged")
    OBVIOUS
  <1>3. CASE action = "transcode"
    <2>1. /\ ~TP!Copies(built) /\ Connects(built, s) /\ Confined(built, built, action) /\ Shown(built, s, w)
          /\ Reported(built, built, unchanged)
      BY <1>2, <1>3, TranscodeRuns
    <2>2. out = [argv |-> built, log |-> unchanged]
      BY <1>2, <2>1 DEF TP!AutoApply
    <2>3. out.argv = built /\ out.log = unchanged
      BY <2>2
    <2> QED  BY <2>1, <2>3
  <1>4. CASE action = "copy"
    <2>1. built = CopyOf
      BY <1>4, CopyIsBuilt
    <2>2. CASE config.mode # "auto"
      <3>1. out = [argv |-> CopyOf, log |-> unchanged]
        BY <1>2, <2>1, <2>2
      <3>2. out.argv = CopyOf /\ out.log = unchanged
        BY <3>1
      <3>3. unchanged.to = Nothing
        BY <1>2 DEF TP!Line
      <3>4. /\ Connects(CopyOf, s) /\ Confined(CopyOf, CopyOf, "copy") /\ Shown(CopyOf, s, w)
            /\ Reported(CopyOf, CopyOf, unchanged)
        BY <1>1, <1>4, <2>2, <3>3, CopyRuns
      <3> QED  BY <1>4, <2>1, <3>2, <3>4
    <2>3. CASE config.mode = "auto"
      <3>1. out = TP!AutoApply(CopyOf, s, w) /\ s.codec # Nothing
        BY <2>1, <2>3 DEF PipelineParameters
      <3>2. /\ Preserved(out) \/ Full(out) \/ Half(out) \/ Software(out)
            /\ Preserved(out) /\ "libx264" \in host.encoders /\ Answered(w) => s.codec \in config.direct
        BY <3>1, AutoOfCopy DEF Answered
      <3>3. CASE Preserved(out)
        <4>1. out.argv = CopyOf /\ out.log.to = Nothing
          BY <3>3 DEF Preserved
        <4>2. /\ Connects(CopyOf, s) /\ Confined(CopyOf, CopyOf, "copy") /\ Shown(CopyOf, s, w)
              /\ Reported(CopyOf, CopyOf, out.log)
          BY <1>1, <1>4, <3>2, <3>3, <4>1, CopyRuns
        <4> QED  BY <1>4, <2>1, <4>1, <4>2
      <3>4. CASE Full(out) \/ Half(out) \/ Software(out)
        <4>1. /\ Connects(out.argv, s) /\ Confined(out.argv, CopyOf, "copy") /\ Shown(out.argv, s, w)
              /\ Reported(out.argv, CopyOf, out.log)
          BY <1>1, <1>4, <3>4, RewrittenRuns
        <4> QED  BY <1>4, <2>1, <4>1
      <3> QED  BY <3>2, <3>3, <3>4
    <2> QED  BY <2>2, <2>3
  <1> QED  BY <1>1, <1>3, <1>4

\* A job that runs is as it must be if its command is.
LEMMA RunsAsTold ==
    ASSUME PipelineIInv, PipelineParameters, TP!RunWrapper
    PROVE  TP!PipelineConnects' /\ TP!RewriteIsConfined' /\ TP!PlayerCanShow' /\ TP!ReportIsTrue'
  <1>1. PICK w \in [{"codec", "encoders", "codecAgain", "encodersAgain", "format"} -> BOOLEAN] :
          LET out == IF config.mode = "auto" THEN TP!AutoApply(job.built, job.source, w)
                     ELSE [argv |-> job.built, log |-> TP!Line(Nothing, Nothing, "unchanged")]
          IN job' = [job EXCEPT !.pc = "runs", !.run = out.argv, !.log = out.log, !.flaked = \E k \in DOMAIN w : ~w[k]]
    BY DEF TP!RunWrapper
  <1>2. PICK out : out = IF config.mode = "auto" THEN TP!AutoApply(job.built, job.source, w)
                         ELSE [argv |-> job.built, log |-> TP!Line(Nothing, Nothing, "unchanged")]
    OBVIOUS
  <1>3. job' = [job EXCEPT !.pc = "runs", !.run = out.argv, !.log = out.log, !.flaked = \E k \in DOMAIN w : ~w[k]]
    BY <1>1, <1>2
  <1>4. /\ job'.source = job.source /\ job'.seen = job.seen /\ job'.action = job.action /\ job'.built = job.built
        /\ job'.run = out.argv /\ job'.log = out.log
    BY <1>3 DEF PipelineIInv
  <1>5. job'.flaked = \E k \in DOMAIN w : ~w[k]
    BY <1>3 DEF PipelineIInv
  <1>7. ~job'.flaked => Answered(w)
    BY <1>5 DEF Answered
  <1>8. job.pc = "built"
    BY DEF TP!RunWrapper
  <1>9. backend.name \in {"vaapi", "nvenc", "none"} /\ (~lost /\ backend.name = "vaapi" => backend.device \in host.nodes)
    BY DEF PipelineIInv
  <1>10. job.seen # Nothing =>
           /\ Connects(out.argv, job.source) /\ Confined(out.argv, job.built, job.action)
           /\ Shown(out.argv, job.source, w) /\ Reported(out.argv, job.built, out.log)
    <2> SUFFICES ASSUME job.seen # Nothing
                 PROVE  /\ Connects(out.argv, job.source) /\ Confined(out.argv, job.built, job.action)
                        /\ Shown(out.argv, job.source, w) /\ Reported(out.argv, job.built, out.log)
      OBVIOUS
    <2>1. /\ job.source \in Sources /\ job.action = TP!Decide(job.source, job.client)
          /\ job.built = TP!BuildHlsCmd(job.source, job.client, job.action, backend)
      BY <1>8 DEF PipelineIInv
    <2>2. PICK s, c, action, built : s \in Sources /\ s = job.source /\ c = job.client /\ action = job.action /\ built = job.built
      BY <2>1
    <2>3. action = TP!Decide(s, c) /\ built = TP!BuildHlsCmd(s, c, action, backend)
      BY <2>1, <2>2
    <2>4. out = IF config.mode = "auto" THEN TP!AutoApply(built, s, w)
                ELSE [argv |-> built, log |-> TP!Line(Nothing, Nothing, "unchanged")]
      BY <1>2, <2>2
    <2>5. /\ Connects(out.argv, s) /\ Confined(out.argv, built, action)
          /\ Shown(out.argv, s, w) /\ Reported(out.argv, built, out.log)
      BY <1>9, <2>2, <2>3, <2>4, WrapperRuns
    <2> QED  BY <2>2, <2>5
  <1>11. job.seen = Nothing =>
           /\ ~TP!Copies(out.argv) /\ (backend.name # "vaapi" => Connects(out.argv, job.source))
           /\ Confined(out.argv, job.built, job.action) /\ Reported(out.argv, job.built, out.log)
    <2> SUFFICES ASSUME job.seen = Nothing
                 PROVE  /\ ~TP!Copies(out.argv) /\ (backend.name # "vaapi" => Connects(out.argv, job.source))
                        /\ Confined(out.argv, job.built, job.action) /\ Reported(out.argv, job.built, out.log)
      OBVIOUS
    <2>1. job.action = "undecided" /\ job.built = TP!UndecidedCmd(backend)
      BY <1>8 DEF PipelineIInv
    <2>2. PICK s, built, unchanged : s = job.source /\ built = job.built /\ unchanged = TP!Line(Nothing, Nothing, "unchanged")
      OBVIOUS
    <2>3. /\ ~TP!Copies(built) /\ (backend.name # "vaapi" => Connects(built, s)) /\ Confined(built, built, "undecided")
          /\ Reported(built, built, unchanged)
      BY <1>9, <2>1, <2>2, UndecidedRuns
    <2>4. out = [argv |-> built, log |-> unchanged]
      BY <1>2, <2>2, <2>3 DEF TP!AutoApply
    <2>5. out.argv = built /\ out.log = unchanged
      BY <2>4
    <2> QED  BY <2>1, <2>2, <2>3, <2>5
  <1>12. host' = host /\ config' = config /\ lost' = lost /\ backend' = backend
    BY DEF TP!RunWrapper
  <1>13. job.seen # Nothing \/ backend.name # "vaapi" => Connects(out.argv, job.source)
    BY <1>10, <1>11
  <1>14. Confined(out.argv, job.built, job.action) /\ Reported(out.argv, job.built, out.log)
    BY <1>10, <1>11
  <1>15. /\ TP!IsHdr(job.source) => ~TP!Copies(out.argv)
         /\ TP!IsHdr(job.source) /\ job.seen # Nothing /\ TP!Engine(out.argv) = "vaapi"
              => "tonemap_vaapi" \in TP!Range(TP!Words(out.argv.output, "vf"))
         /\ ~lost /\ Answered(w) /\ config.mode = "auto" /\ "libx264" \in host.encoders
              => ~TP!Copies(out.argv) \/ job.source.codec \in config.direct
    BY <1>10, <1>11 DEF Shown
  <1>16. TP!PipelineConnects'
    BY <1>4, <1>12, <1>13 DEF TP!PipelineConnects, TP!GpuDecodes, Connects, TP!Encodes, TP!Decoded
  <1>17. TP!RewriteIsConfined'
    BY <1>4, <1>12, <1>14 DEF TP!RewriteIsConfined, Confined
  <1>18. TP!PlayerCanShow'
    BY <1>4, <1>7, <1>12, <1>15 DEF TP!PlayerCanShow
  <1>19. TP!ReportIsTrue'
    BY <1>4, <1>12, <1>14 DEF TP!ReportIsTrue, Reported
  <1> QED  BY <1>16, <1>17, <1>18, <1>19

LEMMA PipelineBegins ==
    ASSUME PipelineParameters, TP!Init
    PROVE  PipelineIInv
  <1>1. job.pc = "none"
    BY DEF TP!Init, TP!NoJob
  <1>2. TP!PipelineConnects /\ TP!RewriteIsConfined /\ TP!PlayerCanShow /\ TP!ReportIsTrue
    BY <1>1 DEF TP!PipelineConnects, TP!RewriteIsConfined, TP!PlayerCanShow, TP!ReportIsTrue, TP!Runs
  <1>3. backend.name \in {"vaapi", "nvenc", "none"} /\ (backend.name = "vaapi" => backend.device \in host.nodes)
    BY BackendIsThere DEF TP!Init
  <1>4. HostIs(host)
    BY DEF TP!Init, PipelineParameters
  <1>5. job = TP!NoJob
    BY DEF TP!Init
  <1> QED  BY <1>1, <1>2, <1>3, <1>4, <1>5 DEF PipelineIInv, TP!NoJob

\* A step before the command runs.
LEMMA NotYetRuns ==
    ASSUME job'.pc # "runs"
    PROVE  TP!PipelineConnects' /\ TP!RewriteIsConfined' /\ TP!PlayerCanShow' /\ TP!ReportIsTrue'
  BY DEF TP!PipelineConnects, TP!RewriteIsConfined, TP!PlayerCanShow, TP!ReportIsTrue, TP!Runs

LEMMA PipelineStep ==
    ASSUME PipelineParameters, PipelineIInv, [TP!Next]_pipeVars
    PROVE  PipelineIInv'
  <1> DEFINE JobIs == job = [pc |-> job.pc, source |-> job.source, seen |-> job.seen, client |-> job.client, action |-> job.action,
                             built |-> job.built, run |-> job.run, log |-> job.log, flaked |-> job.flaked]
  <1>1. CASE TP!Probe
    <2>1. PICK s \in Sources, c \in Players : \E answer \in {s, Nothing} :
            job' = [job EXCEPT !.pc = "probed", !.source = s, !.seen = answer, !.client = c]
      BY <1>1 DEF TP!Probe
    <2>4. PICK answer \in {s, Nothing} : job' = [job EXCEPT !.pc = "probed", !.source = s, !.seen = answer, !.client = c]
      BY <2>1
    <2>2. job'.pc = "probed" /\ job'.source = s /\ job'.seen \in {s, Nothing} /\ JobIs'
      BY <2>4 DEF PipelineIInv
    <2>3. UNCHANGED <<host, config, backend, lost>>
      BY <1>1 DEF TP!Probe
    <2> QED  BY <2>2, <2>3, NotYetRuns DEF PipelineIInv, HostIs
  <1>2. CASE TP!Build
    <2>1. PICK action : action = TP!Decide(job.source, job.client)
      OBVIOUS
    <2>2. PICK built : built = TP!BuildHlsCmd(job.source, job.client, action, backend)
      OBVIOUS
    <2>3. UNCHANGED <<host, config, backend, lost>> /\ job.source \in Sources /\ job.seen # Nothing /\ job.seen = job.source
      BY <1>2 DEF TP!Build, PipelineIInv
    <2>4. job' = [job EXCEPT !.pc = "built", !.action = action, !.built = built]
      BY <1>2, <2>1, <2>2, <2>3 DEF TP!Build
    <2>5. /\ job'.pc = "built" /\ job'.source = job.source /\ job'.seen = job.seen /\ job'.client = job.client /\ JobIs'
          /\ job'.action = action /\ job'.built = built
      BY <2>4 DEF PipelineIInv
    <2>6. job'.action = TP!Decide(job'.source, job'.client) /\ job'.built = TP!BuildHlsCmd(job'.source, job'.client, job'.action, backend')
      BY <2>1, <2>2, <2>3, <2>5
    <2>7. job'.seen # Nothing /\ job'.seen \in {job'.source, Nothing}
      BY <2>3, <2>5
    <2> QED  BY <2>3, <2>5, <2>6, <2>7, NotYetRuns DEF PipelineIInv, HostIs, TP!Decide, TP!BuildHlsCmd
  <1>6. CASE TP!BuildUndecided
    <2>1. PICK built : built = TP!UndecidedCmd(backend)
      OBVIOUS
    <2>2. UNCHANGED <<host, config, backend, lost>> /\ job.source \in Sources /\ job.seen = Nothing
      BY <1>6 DEF TP!BuildUndecided, PipelineIInv
    <2>3. job' = [job EXCEPT !.pc = "built", !.action = "undecided", !.built = built]
      BY <1>6, <2>1 DEF TP!BuildUndecided
    <2>4. /\ job'.pc = "built" /\ job'.source = job.source /\ job'.seen = Nothing /\ JobIs'
          /\ job'.action = "undecided" /\ job'.built = built
      BY <2>2, <2>3 DEF PipelineIInv
    <2>5. job'.built = TP!UndecidedCmd(backend')
      BY <2>1, <2>2, <2>4
    <2> QED  BY <2>2, <2>4, <2>5, NotYetRuns DEF PipelineIInv, HostIs, TP!UndecidedCmd
  <1>3. CASE TP!RunWrapper
    <2>1. TP!PipelineConnects' /\ TP!RewriteIsConfined' /\ TP!PlayerCanShow' /\ TP!ReportIsTrue'
      BY <1>3, RunsAsTold
    <2>2. PICK w \in [{"codec", "encoders", "codecAgain", "encodersAgain", "format"} -> BOOLEAN] :
            LET out == IF config.mode = "auto" THEN TP!AutoApply(job.built, job.source, w)
                       ELSE [argv |-> job.built, log |-> TP!Line(Nothing, Nothing, "unchanged")]
            IN job' = [job EXCEPT !.pc = "runs", !.run = out.argv, !.log = out.log, !.flaked = \E k \in DOMAIN w : ~w[k]]
      BY <1>3 DEF TP!RunWrapper
    <2>3. PICK out : out = IF config.mode = "auto" THEN TP!AutoApply(job.built, job.source, w)
                           ELSE [argv |-> job.built, log |-> TP!Line(Nothing, Nothing, "unchanged")]
      OBVIOUS
    <2>5. job' = [job EXCEPT !.pc = "runs", !.run = out.argv, !.log = out.log, !.flaked = \E k \in DOMAIN w : ~w[k]]
      BY <2>2, <2>3
    <2>6. job'.pc = "runs" /\ job'.source = job.source /\ job'.seen = job.seen /\ JobIs'
      BY <2>5 DEF PipelineIInv
    <2>4. UNCHANGED <<host, config, backend, lost>> /\ job.source \in Sources /\ job.seen \in {job.source, Nothing}
      BY <1>3 DEF TP!RunWrapper, PipelineIInv
    <2> QED  BY <2>1, <2>4, <2>6 DEF PipelineIInv, HostIs
  <1>4. CASE TP!LoseDevice
    <2>1. PICK n \in host.nodes : host' = [host EXCEPT !.nodes = @ \ {n}]
      BY <1>4 DEF TP!LoseDevice
    <2>2. HostIs(host)' /\ host'.encoders = host.encoders
      BY <2>1 DEF PipelineIInv, HostIs
    <2>3. lost' = TRUE /\ UNCHANGED <<config, backend, job>>
      BY <1>4 DEF TP!LoseDevice
    <2>4. TP!PipelineConnects'
      BY <2>3 DEF TP!PipelineConnects
    <2>5. TP!RewriteIsConfined'
      BY <2>2, <2>3 DEF PipelineIInv, TP!RewriteIsConfined, TP!Runs
    <2>6. TP!PlayerCanShow'
      BY <2>2, <2>3 DEF PipelineIInv, TP!PlayerCanShow, TP!Runs
    <2>7. TP!ReportIsTrue'
      BY <2>3 DEF PipelineIInv, TP!ReportIsTrue, TP!Runs
    <2> QED  BY <2>2, <2>3, <2>4, <2>5, <2>6, <2>7 DEF PipelineIInv
  <1>5. CASE UNCHANGED pipeVars
    <2>1. UNCHANGED <<host, config, backend, lost, job>>
      BY <1>5 DEF pipeVars
    <2>2. TP!PipelineConnects'
      BY <2>1 DEF PipelineIInv, TP!PipelineConnects, TP!GpuDecodes, TP!Encodes, TP!Decoded, TP!Runs
    <2>3. TP!RewriteIsConfined' /\ TP!PlayerCanShow' /\ TP!ReportIsTrue'
      BY <2>1 DEF PipelineIInv, TP!RewriteIsConfined, TP!PlayerCanShow, TP!ReportIsTrue, TP!Runs
    <2> QED  BY <2>1, <2>2, <2>3 DEF PipelineIInv, HostIs
  <1> QED  BY <1>1, <1>2, <1>3, <1>4, <1>5, <1>6 DEF TP!Next

----------------------------------------------------------------------------
\* What holds of the pipeline, as a part of the whole.
LEMMA PipelineHolds ==
    ASSUME PipelineParameters
    PROVE  Spec => [](part = "pipeline" => PipelineIInv)
  <1> DEFINE Inv == part = "pipeline" => PipelineIInv
  <1>1. Init => Inv
    BY PartsBegin, PipelineBegins
  <1>2. Inv /\ [Next]_allVars => Inv'
    BY PartsStep, PipelineStep
  <1> QED  BY <1>1, <1>2, PTL DEF Spec

\* For any hosts, settings, sources and players, every stage of the command that
\* runs gets its frames where it takes them, on a device that is there, unless
\* ffprobe failed and VAAPI encodes (converter.build_hls_cmd, ffmpeg_wrapper).
THEOREM CommandsConnect ==
    ASSUME PipelineParameters
    PROVE  Spec => []PipelineConnects
  <1>1. (part = "pipeline" => PipelineIInv) => PipelineConnects
    BY DEF PipelineIInv, PipelineConnects
  <1> QED  BY <1>1, PipelineHolds, PTL

\* For any of them the wrapper changes nothing but the video of a copy, and only to
\* what its ffmpeg encodes (ffmpeg_wrapper).
THEOREM RewritesAreConfined ==
    ASSUME PipelineParameters
    PROVE  Spec => []RewriteIsConfined
  <1>1. (part = "pipeline" => PipelineIInv) => RewriteIsConfined
    BY DEF PipelineIInv, RewriteIsConfined
  <1> QED  BY <1>1, PipelineHolds, PTL

\* For any of them HDR is never copied to a player, VAAPI maps the tones of what
\* ffprobe told to be HDR, and a copy is of a codec that is direct when all that the
\* wrapper asks answers (fingerprint.decide, ffmpeg_wrapper).
THEOREM PlayersCanShow ==
    ASSUME PipelineParameters
    PROVE  Spec => []PlayerCanShow
  <1>1. (part = "pipeline" => PipelineIInv) => PlayerCanShow
    BY DEF PipelineIInv, PlayerCanShow
  <1> QED  BY <1>1, PipelineHolds, PTL

\* For any of them what WebAdmin reads in the log is what runs
\* (transcoding_policy_parser.parse_policy_log).
THEOREM ReportsAreTrue ==
    ASSUME PipelineParameters
    PROVE  Spec => []ReportIsTrue
  <1>1. (part = "pipeline" => PipelineIInv) => ReportIsTrue
    BY DEF PipelineIInv, ReportIsTrue
  <1> QED  BY <1>1, PipelineHolds, PTL

----------------------------------------------------------------------------
(* The places and the credentials of the media proxy (MediaProxy).          *)

\* what the parameters of the proxy are: finitely many requests, numbers, and a
\* mark that is no origin
ProxyParameters ==
    /\ IsFiniteSet(Requests)
    /\ Places \in Nat /\ OutsidePlaces \in Nat

\* the places of a client in the order they are taken: the first n of them, and how many it needs
Needs(home) == IF home THEN 1 ELSE 2
FirstPlaces(home, n) ==
    CASE n = 0 -> {}
      [] n = 1 -> IF home THEN {"slots"} ELSE {"outside"}
      [] n = 2 -> {"slots", "outside"}
AllPlaces(home) == FirstPlaces(home, Needs(home))

Served == {"hop", "sent", "playlist", "stream"}
AskPcs == {"idle", "admit", "back", "release"} \cup Served

Hops == [origin : Origins \cup {Nothing}, creds : BOOLEAN]
Asks == [pc : AskPcs, home : BOOLEAN, n : 0..2, held : BOOLEAN, again : BOOLEAN, owns : SUBSET {"slots", "outside"},
         origin : Origins \cup {Nothing}, creds : BOOLEAN, trail : Seq(Hops)]

\* A request owns all its places from its admission until the first release of its slot,
\* and none when that release is over, however many follow.
Placed(s) ==
    /\ s.pc = "idle" => s.owns = {}
    /\ s.pc = "admit" => ~s.held /\ s.n < Needs(s.home) /\ s.owns = FirstPlaces(s.home, s.n)
    /\ s.pc = "back" => ~s.held /\ s.n <= Needs(s.home) /\ s.owns = FirstPlaces(s.home, s.n)
    /\ s.pc \in Served => s.held /\ s.owns = AllPlaces(s.home)
    /\ s.pc = "release" => s.owns = IF s.held THEN AllPlaces(s.home) ELSE {}

\* What still has its credentials was never sent elsewhere.
Loyal(trail) ==
    \A j \in 1..Len(trail) : trail[j].creds => \A i \in 1..j : trail[i].origin = trail[1].origin
Sent(s) ==
    /\ s.creds => \A i \in 1..Len(s.trail) : s.trail[i].origin = s.origin
    /\ Loyal(s.trail)

\* Every place is free or owned by one request.
Counted ==
    /\ free \in [slots : Nat, outside : Nat]
    /\ free.slots + Cardinality(MP!Holders("slots")) = Places
    /\ free.outside + Cardinality(MP!Holders("outside")) = OutsidePlaces

\* A refused client of the home network found there what internet clients may not hold.
RefusedFairly == refused # Nothing => refused >= Places - OutsidePlaces

ProxyIInv ==
    /\ rq \in [Requests -> Asks]
    /\ \A r \in Requests : Placed(rq[r]) /\ Sent(rq[r])
    /\ Counted
    /\ RefusedFairly

----------------------------------------------------------------------------
LEMMA HoldersFinite ==
    ASSUME ProxyParameters
    PROVE  \A pool : IsFiniteSet(MP!Holders(pool)) /\ Cardinality(MP!Holders(pool)) \in Nat
  <1> SUFFICES ASSUME NEW pool
               PROVE  IsFiniteSet(MP!Holders(pool)) /\ Cardinality(MP!Holders(pool)) \in Nat
    OBVIOUS
  <1>1. MP!Holders(pool) \in SUBSET Requests
    BY DEF MP!Holders
  <1>2. IsFiniteSet(MP!Holders(pool))
    BY <1>1, FS_Subset DEF ProxyParameters
  <1> QED  BY <1>2, FS_CardinalityType

\* A request that changes but not in what it owns leaves the places alone.
LEMMA SameOwned ==
    ASSUME ProxyParameters, ProxyIInv, NEW r \in Requests, NEW s \in Asks, MP!Go(r, s),
           Placed(s), Sent(s), s.owns = rq[r].owns, UNCHANGED <<free, refused>>
    PROVE  ProxyIInv'
  <1>1. rq' \in [Requests -> Asks] /\ \A u \in Requests : rq'[u] = IF u = r THEN s ELSE rq[u]
    BY DEF ProxyIInv, MP!Go
  <1>2. \A u \in Requests : Placed(rq'[u]) /\ Sent(rq'[u])
    BY <1>1 DEF ProxyIInv
  <1>3. \A u \in Requests : rq'[u].owns = rq[u].owns
    BY <1>1
  <1>4. \A pool : MP!Holders(pool)' = MP!Holders(pool)
    BY <1>3 DEF MP!Holders
  <1>5. Counted' /\ RefusedFairly'
    BY <1>4 DEF ProxyIInv, Counted, RefusedFairly
  <1> QED  BY <1>1, <1>2, <1>5 DEF ProxyIInv

\* A place that is taken from the semaphore gets an owner.
LEMMA PlaceTaken ==
    ASSUME ProxyParameters, ProxyIInv, NEW r \in Requests, NEW s \in Asks, MP!Go(r, s), Placed(s), Sent(s),
           NEW pool \in {"slots", "outside"}, pool \notin rq[r].owns, s.owns = rq[r].owns \cup {pool},
           free[pool] # 0, free' = [free EXCEPT ![pool] = @ - 1], refused' = refused
    PROVE  ProxyIInv'
  <1>1. rq' \in [Requests -> Asks] /\ \A u \in Requests : rq'[u] = IF u = r THEN s ELSE rq[u]
    BY DEF ProxyIInv, MP!Go
  <1>2. \A u \in Requests : Placed(rq'[u]) /\ Sent(rq'[u])
    BY <1>1 DEF ProxyIInv
  <1>3. \A q : MP!Holders(q)' = {u \in Requests : q \in rq'[u].owns}
    BY DEF MP!Holders
  <1>4. MP!Holders(pool)' = MP!Holders(pool) \cup {r} /\ r \notin MP!Holders(pool)
    BY <1>1, <1>3 DEF MP!Holders
  <1>5. \A q \in {"slots", "outside"} \ {pool} : MP!Holders(q)' = MP!Holders(q)
    BY <1>1, <1>3 DEF MP!Holders
  <1>6. Cardinality(MP!Holders(pool)') = Cardinality(MP!Holders(pool)) + 1
    BY <1>4, HoldersFinite, FS_AddElement
  <1>7. Counted'
    <2>1. CASE pool = "slots"
      <3>1. free'.slots = free.slots - 1 /\ free'.outside = free.outside /\ free' \in [slots : Nat, outside : Nat]
        BY <2>1 DEF ProxyIInv, Counted
      <3>2. MP!Holders("outside")' = MP!Holders("outside")
        BY <2>1, <1>5
      <3> QED  BY <2>1, <3>1, <3>2, <1>6, HoldersFinite DEF ProxyIInv, Counted, ProxyParameters
    <2>2. CASE pool = "outside"
      <3>1. free'.outside = free.outside - 1 /\ free'.slots = free.slots /\ free' \in [slots : Nat, outside : Nat]
        BY <2>2 DEF ProxyIInv, Counted
      <3>2. MP!Holders("slots")' = MP!Holders("slots")
        BY <2>2, <1>5
      <3> QED  BY <2>2, <3>1, <3>2, <1>6, HoldersFinite DEF ProxyIInv, Counted, ProxyParameters
    <2> QED  BY <2>1, <2>2
  <1> QED  BY <1>1, <1>2, <1>7 DEF ProxyIInv, RefusedFairly

\* A place that is given back to the semaphore by its owner loses it.
LEMMA PlaceGivenBack ==
    ASSUME ProxyParameters, ProxyIInv, NEW r \in Requests, NEW s \in Asks, MP!Go(r, s), Placed(s), Sent(s),
           NEW pool \in {"slots", "outside"}, pool \in rq[r].owns, s.owns = rq[r].owns \ {pool},
           free' = [free EXCEPT ![pool] = @ + 1], refused' = refused
    PROVE  ProxyIInv'
  <1>1. rq' \in [Requests -> Asks] /\ \A u \in Requests : rq'[u] = IF u = r THEN s ELSE rq[u]
    BY DEF ProxyIInv, MP!Go
  <1>2. \A u \in Requests : Placed(rq'[u]) /\ Sent(rq'[u])
    BY <1>1 DEF ProxyIInv
  <1>3. \A q : MP!Holders(q)' = {u \in Requests : q \in rq'[u].owns}
    BY DEF MP!Holders
  <1>4. MP!Holders(pool)' = MP!Holders(pool) \ {r} /\ r \in MP!Holders(pool)
    BY <1>1, <1>3 DEF MP!Holders
  <1>5. \A q \in {"slots", "outside"} \ {pool} : MP!Holders(q)' = MP!Holders(q)
    BY <1>1, <1>3 DEF MP!Holders
  <1>6. Cardinality(MP!Holders(pool)') = Cardinality(MP!Holders(pool)) - 1
    BY <1>4, HoldersFinite, FS_RemoveElement
  <1>7. Counted'
    <2>1. CASE pool = "slots"
      <3>1. free'.slots = free.slots + 1 /\ free'.outside = free.outside /\ free' \in [slots : Nat, outside : Nat]
        BY <2>1 DEF ProxyIInv, Counted
      <3>2. MP!Holders("outside")' = MP!Holders("outside")
        BY <2>1, <1>5
      <3> QED  BY <2>1, <3>1, <3>2, <1>6, HoldersFinite DEF ProxyIInv, Counted, ProxyParameters
    <2>2. CASE pool = "outside"
      <3>1. free'.outside = free.outside + 1 /\ free'.slots = free.slots /\ free' \in [slots : Nat, outside : Nat]
        BY <2>2 DEF ProxyIInv, Counted
      <3>2. MP!Holders("slots")' = MP!Holders("slots")
        BY <2>2, <1>5
      <3> QED  BY <2>2, <3>1, <3>2, <1>6, HoldersFinite DEF ProxyIInv, Counted, ProxyParameters
    <2> QED  BY <2>1, <2>2
  <1> QED  BY <1>1, <1>2, <1>7 DEF ProxyIInv, RefusedFairly

----------------------------------------------------------------------------
\* The places in their order.
LEMMA PoolsInOrder ==
    ASSUME NEW home \in BOOLEAN
    PROVE  /\ Len(MP!Pools(home)) = Needs(home)
           /\ \A n \in 0..2 : n < Needs(home) =>
                LET pool == MP!Pools(home)[n + 1] IN
                  /\ pool \in {"slots", "outside"} /\ pool \notin FirstPlaces(home, n)
                  /\ FirstPlaces(home, n + 1) = FirstPlaces(home, n) \cup {pool}
                  /\ FirstPlaces(home, n + 1) \ {pool} = FirstPlaces(home, n)
                  /\ home => pool = "slots"
  <1>1. CASE home
    BY <1>1 DEF MP!Pools, Needs, FirstPlaces
  <1>2. CASE ~home
    BY <1>2 DEF MP!Pools, Needs, FirstPlaces
  <1> QED  BY <1>1, <1>2

\* Idle is a request that owns nothing.
LEMMA IdleIsFine ==
    MP!Idle \in Asks /\ Placed(MP!Idle) /\ Sent(MP!Idle) /\ MP!Idle.owns = {} /\ MP!Idle.trail = <<>>
  <1>1. MP!Idle.pc = "idle" /\ MP!Idle.owns = {} /\ MP!Idle.trail = <<>>
    BY DEF MP!Idle
  <1>2. MP!Idle \in Asks
    BY DEF MP!Idle, Asks, AskPcs
  <1>3. Placed(MP!Idle)
    BY <1>1 DEF Placed, Served
  <1>4. Sent(MP!Idle)
    <2>1. 1..Len(MP!Idle.trail) = {}
      BY <1>1
    <2> QED  BY <2>1 DEF Sent, Loyal
  <1> QED  BY <1>1, <1>2, <1>3, <1>4

\* An answered request leaves its slot to be released.
LEMMA FinishKeeps ==
    ASSUME ProxyParameters, ProxyIInv, NEW r \in Requests, NEW again \in BOOLEAN, MP!Finish(r, again),
           rq[r].pc \in Served, UNCHANGED <<free, refused>>
    PROVE  ProxyIInv'
  <1> DEFINE s == [MP!Idle EXCEPT !.pc = "release", !.home = rq[r].home, !.owns = rq[r].owns, !.held = rq[r].held,
                                  !.again = again]
  <1>1. rq[r] \in Asks /\ Placed(rq[r])
    BY DEF ProxyIInv
  <1>2. rq[r].home \in BOOLEAN /\ rq[r].owns \in SUBSET {"slots", "outside"} /\ rq[r].held \in BOOLEAN
    BY <1>1 DEF Asks
  <1>3. /\ s \in Asks /\ s.pc = "release" /\ s.home = rq[r].home /\ s.owns = rq[r].owns /\ s.held = rq[r].held
        /\ s.trail = MP!Idle.trail
    BY <1>2, IdleIsFine DEF Asks, AskPcs
  <1>4. MP!Go(r, s)
    BY DEF MP!Finish
  <1> HIDE DEF s
  <1>5. Placed(s)
    BY <1>1, <1>3 DEF Placed, Served
  <1>6. Sent(s)
    <2>1. 1..Len(s.trail) = {}
      BY <1>3, IdleIsFine
    <2> QED  BY <2>1 DEF Sent, Loyal
  <1> QED  BY <1>3, <1>4, <1>5, <1>6, SameOwned

LEMMA AskKeeps ==
    ASSUME ProxyParameters, ProxyIInv, NEW r \in Requests, MP!Ask(r)
    PROVE  ProxyIInv'
  <1>1. PICK home \in BOOLEAN, o \in Origins : MP!Go(r, [MP!Idle EXCEPT !.pc = "admit", !.home = home, !.origin = o])
    BY DEF MP!Ask
  <1> DEFINE s == [MP!Idle EXCEPT !.pc = "admit", !.home = home, !.origin = o]
  <1>2. /\ s \in Asks /\ s.pc = "admit" /\ s.owns = {} /\ s.home = home /\ s.trail = MP!Idle.trail
        /\ s.n = MP!Idle.n /\ s.held = MP!Idle.held
    BY IdleIsFine DEF Asks, AskPcs
  <1>3. MP!Go(r, s)
    BY <1>1
  <1> HIDE DEF s
  <1>4. s.n = 0 /\ ~s.held
    BY <1>2 DEF MP!Idle
  <1>5. Placed(s)
    BY <1>2, <1>4 DEF Placed, Served, Needs, FirstPlaces
  <1>6. Sent(s)
    <2>1. 1..Len(s.trail) = {}
      BY <1>2, IdleIsFine
    <2> QED  BY <2>1 DEF Sent, Loyal
  <1>7. rq[r].owns = {} /\ UNCHANGED <<free, refused>>
    BY DEF MP!Ask, ProxyIInv, Placed
  <1> QED  BY <1>2, <1>3, <1>5, <1>6, <1>7, SameOwned

\* Internet clients own no more shared places than there are places for them, so
\* that when all are taken the home network holds the rest.
LEMMA HomeHoldsTheRest ==
    ASSUME ProxyParameters, ProxyIInv, free.slots = 0
    PROVE  Cardinality({u \in MP!Holders("slots") : rq[u].home}) >= Places - OutsidePlaces
  <1> DEFINE homes == {u \in MP!Holders("slots") : rq[u].home}
             others == MP!Holders("slots") \ homes
  <1>1. others \subseteq MP!Holders("outside")
    <2> SUFFICES ASSUME NEW u \in others
                 PROVE  u \in MP!Holders("outside")
      OBVIOUS
    <2>1. u \in Requests /\ ~rq[u].home /\ "slots" \in rq[u].owns
      BY DEF MP!Holders
    <2>2. rq[u] \in Asks /\ Placed(rq[u])
      BY <2>1 DEF ProxyIInv
    <2>3. \E n \in 0..2 : rq[u].owns = FirstPlaces(FALSE, n)
      <3>1. rq[u].pc \in AskPcs /\ rq[u].n \in 0..2 /\ rq[u].home = FALSE
        BY <2>1, <2>2 DEF Asks
      <3>2. CASE rq[u].pc \in {"admit", "back"}
        <4>1. rq[u].owns = FirstPlaces(rq[u].home, rq[u].n)
          BY <2>2, <3>2 DEF Placed
        <4> QED  BY <3>1, <4>1
      <3>3. CASE rq[u].pc \in Served \cup {"release"}
        <4>1. rq[u].owns = AllPlaces(rq[u].home)
          BY <2>1, <2>2, <3>3 DEF Placed
        <4>2. AllPlaces(FALSE) = FirstPlaces(FALSE, 2)
          BY DEF AllPlaces, Needs
        <4>3. rq[u].home = FALSE
          BY <3>1
        <4>4. rq[u].owns = FirstPlaces(FALSE, 2)
          BY <4>1, <4>2, <4>3, Zenon
        <4>5. 2 \in 0..2
          OBVIOUS
        <4> QED  BY <4>4, <4>5, Zenon
      <3>4. CASE rq[u].pc = "idle"
        BY <2>1, <2>2, <3>4 DEF Placed
      <3>5. rq[u].pc \in {"admit", "back"} \/ rq[u].pc \in Served \cup {"release"} \/ rq[u].pc = "idle"
        BY <3>1 DEF AskPcs
      <3> QED  BY <3>2, <3>3, <3>4, <3>5
    <2>4. "outside" \in rq[u].owns
      BY <2>1, <2>3 DEF FirstPlaces
    <2> QED  BY <2>1, <2>4 DEF MP!Holders
  <1>2. homes \subseteq MP!Holders("slots")
    OBVIOUS
  <1>3. IsFiniteSet(homes) /\ IsFiniteSet(others)
    BY <1>1, <1>2, HoldersFinite, FS_Subset
  <1>4. Cardinality(others) <= Cardinality(MP!Holders("outside"))
    BY <1>1, HoldersFinite, FS_Subset
  <1>5. Cardinality(homes \cup others) = Cardinality(homes) + Cardinality(others) - Cardinality(homes \cap others)
    BY <1>3, FS_Union
  <1>6. homes \cup others = MP!Holders("slots") /\ homes \cap others = {}
    BY <1>2
  <1>7. Cardinality(homes) \in Nat /\ Cardinality(others) \in Nat
    BY <1>3, FS_CardinalityType
  <1> HIDE DEF homes, others
  <1>8. Cardinality(MP!Holders("slots")) = Cardinality(homes) + Cardinality(others)
    <2>1. Cardinality(homes \cap others) = 0
      BY <1>6, FS_EmptySet
    <2>2. Cardinality(homes \cup others) = Cardinality(MP!Holders("slots"))
      BY <1>6
    <2> QED  BY <2>1, <2>2, <1>5, <1>7
  <1>9. Cardinality(MP!Holders("slots")) = Places /\ Cardinality(MP!Holders("outside")) <= OutsidePlaces
    BY HoldersFinite DEF ProxyIInv, Counted, ProxyParameters
  <1>10. Cardinality(homes) >= Places - OutsidePlaces
    BY <1>4, <1>7, <1>8, <1>9, HoldersFinite DEF ProxyParameters
  <1> QED  BY <1>10 DEF homes

\* Cardinality is the same wherever it is defined.
LEMMA CardinalityIsOne ==
    \A S : MP!Cardinality(S) = Cardinality(S)
  BY DEF MP!Cardinality, Cardinality, MP!IsFiniteSet, IsFiniteSet

\* One more place, or a refusal.
LEMMA AdmitKeeps ==
    ASSUME ProxyParameters, ProxyIInv, NEW r \in Requests, MP!Admit(r)
    PROVE  ProxyIInv'
  <1> DEFINE pools == MP!Pools(rq[r].home)
             pool == pools[rq[r].n + 1]
             all == rq[r].n + 1 = Len(pools)
  <1>1. rq[r] \in Asks /\ Placed(rq[r]) /\ Sent(rq[r]) /\ rq[r].pc = "admit"
    BY DEF ProxyIInv, MP!Admit
  <1>2. /\ rq[r].home \in BOOLEAN /\ rq[r].n \in 0..2 /\ rq[r].n < Needs(rq[r].home) /\ ~rq[r].held
        /\ rq[r].owns = FirstPlaces(rq[r].home, rq[r].n) /\ rq[r].owns \in SUBSET {"slots", "outside"}
    BY <1>1 DEF Placed, Asks
  <1>3. /\ pool \in {"slots", "outside"} /\ pool \notin rq[r].owns /\ (rq[r].home => pool = "slots")
        /\ FirstPlaces(rq[r].home, rq[r].n + 1) = rq[r].owns \cup {pool} /\ Len(pools) = Needs(rq[r].home)
    BY <1>2, PoolsInOrder
  <1>4. CASE free[pool] = 0
    <2> DEFINE s == [rq[r] EXCEPT !.pc = "back"]
    <2>1. MP!Go(r, s) /\ free' = free
      BY <1>4 DEF MP!Admit
    <2>2. refused' = IF rq[r].home THEN Cardinality({u \in MP!Holders("slots") : rq[u].home}) ELSE refused
      BY <1>4, CardinalityIsOne DEF MP!Admit
    <2>3. /\ s \in Asks /\ s.owns = rq[r].owns /\ s.home = rq[r].home /\ s.pc = "back" /\ s.trail = rq[r].trail
          /\ s.origin = rq[r].origin /\ s.creds = rq[r].creds /\ s.n = rq[r].n /\ s.held = rq[r].held
      BY <1>1 DEF Asks, AskPcs
    <2> HIDE DEF s
    <2>4. Placed(s)
      BY <1>2, <2>3 DEF Placed, Served, Needs
    <2>5. Sent(s)
      BY <1>1, <2>3 DEF Sent
    <2>6. RefusedFairly'
      <3>1. CASE rq[r].home
        <4>1. free.slots = 0
          BY <3>1, <1>3, <1>4
        <4> QED  BY <3>1, <4>1, <2>2, HomeHoldsTheRest DEF RefusedFairly
      <3>2. CASE ~rq[r].home
        BY <3>2, <2>2 DEF ProxyIInv, RefusedFairly
      <3> QED  BY <3>1, <3>2
    <2>7. rq' \in [Requests -> Asks] /\ \A u \in Requests : rq'[u] = IF u = r THEN s ELSE rq[u]
      BY <2>1, <2>3 DEF ProxyIInv, MP!Go
    <2>8. \A q : MP!Holders(q)' = MP!Holders(q)
      BY <2>3, <2>7 DEF MP!Holders
    <2>9. Counted'
      BY <2>1, <2>8 DEF ProxyIInv, Counted
    <2>10. \A u \in Requests : Placed(rq'[u]) /\ Sent(rq'[u])
      BY <2>4, <2>5, <2>7 DEF ProxyIInv
    <2> QED  BY <2>6, <2>7, <2>9, <2>10 DEF ProxyIInv
  <1>5. CASE free[pool] # 0
    <2> DEFINE s == [rq[r] EXCEPT !.n = @ + 1, !.owns = @ \cup {pool}, !.held = all, !.pc = IF all THEN "hop" ELSE "admit"]
    <2>1. MP!Go(r, s) /\ free' = [free EXCEPT ![pool] = @ - 1] /\ refused' = refused
      BY <1>5 DEF MP!Admit
    <2>2. /\ DOMAIN rq[r] = {"pc", "home", "n", "held", "again", "owns", "origin", "creds", "trail"}
          /\ rq[r].n + 1 \in 0..2 /\ rq[r].owns \cup {pool} \in SUBSET {"slots", "outside"}
      BY <1>1, <1>2, <1>3 DEF Asks, Needs
    <2>3. /\ s.owns = rq[r].owns \cup {pool} /\ s.home = rq[r].home /\ s.n = rq[r].n + 1 /\ s.held = all
          /\ s.pc = (IF all THEN "hop" ELSE "admit")
          /\ s.trail = rq[r].trail /\ s.origin = rq[r].origin /\ s.creds = rq[r].creds
      BY <2>2
    <2>4. s \in Asks
      <3> HIDE DEF pool
      <3> QED  BY <1>1, <2>2 DEF Asks, AskPcs, Served
    <2> HIDE DEF s
    <2>5. Sent(s)
      BY <1>1, <2>3 DEF Sent
    <2>6. Placed(s)
      <3>1. CASE all
        <4>1. s.pc = "hop" /\ s.held /\ s.owns = FirstPlaces(rq[r].home, rq[r].n + 1) /\ rq[r].n + 1 = Needs(rq[r].home)
          BY <3>1, <1>3, <2>3
        <4> QED  BY <4>1, <2>3 DEF Placed, AllPlaces, Served
      <3>2. CASE ~all
        <4>1. s.pc = "admit" /\ ~s.held /\ s.owns = FirstPlaces(rq[r].home, rq[r].n + 1) /\ rq[r].n + 1 < Needs(rq[r].home)
          BY <3>2, <1>2, <1>3, <2>3 DEF Needs
        <4> QED  BY <4>1, <2>3 DEF Placed, Served
      <3> QED  BY <3>1, <3>2
    <2> HIDE DEF pool
    <2> QED  BY <1>3, <1>5, <2>1, <2>3, <2>4, <2>5, <2>6, PlaceTaken
  <1> QED  BY <1>4, <1>5

\* A release that is over is followed by the other one, or by nothing.
LEMMA ReleasedKeeps ==
    ASSUME ProxyParameters, ProxyIInv, NEW r \in Requests, MP!Go(r, MP!Released(rq[r])),
           rq[r].owns = {}, ~rq[r].held, UNCHANGED <<free, refused>>
    PROVE  ProxyIInv'
  <1>1. rq[r] \in Asks /\ Sent(rq[r])
    BY DEF ProxyIInv
  <1>2. CASE rq[r].again
    <2> DEFINE s == [rq[r] EXCEPT !.pc = "release", !.again = FALSE]
    <2>1. MP!Go(r, s)
      BY <1>2 DEF MP!Released
    <2>2. /\ s \in Asks /\ s.pc = "release" /\ s.owns = {} /\ ~s.held /\ s.trail = rq[r].trail
          /\ s.origin = rq[r].origin /\ s.creds = rq[r].creds
      BY <1>1 DEF Asks, AskPcs
    <2> HIDE DEF s
    <2>3. Placed(s) /\ Sent(s)
      BY <1>1, <2>2 DEF Placed, Sent, Served
    <2> QED  BY <2>1, <2>2, <2>3, SameOwned
  <1>3. CASE ~rq[r].again
    BY <1>3, IdleIsFine, SameOwned DEF MP!Released
  <1> QED  BY <1>2, <1>3

\* The first release has the places of the slot given back, another finds nothing to do.
LEMMA ReleaseKeeps ==
    ASSUME ProxyParameters, ProxyIInv, NEW r \in Requests, MP!Release(r)
    PROVE  ProxyIInv'
  <1>1. rq[r] \in Asks /\ Placed(rq[r]) /\ Sent(rq[r]) /\ rq[r].pc = "release" /\ UNCHANGED <<free, refused>>
    BY DEF ProxyIInv, MP!Release
  <1>2. CASE rq[r].held
    <2> DEFINE s == [rq[r] EXCEPT !.held = FALSE, !.pc = "back", !.n = Len(MP!Pools(rq[r].home))]
    <2>1. MP!Go(r, s)
      BY <1>2 DEF MP!Release
    <2>2. Len(MP!Pools(rq[r].home)) = Needs(rq[r].home) /\ Needs(rq[r].home) \in 0..2
      <3>1. rq[r].home \in BOOLEAN
        BY <1>1 DEF Asks
      <3>2. Len(MP!Pools(rq[r].home)) = Needs(rq[r].home)
        BY <3>1, PoolsInOrder
      <3>3. Needs(rq[r].home) \in 0..2
        BY DEF Needs
      <3> QED  BY <3>2, <3>3
    <2>3. /\ s \in Asks /\ s.pc = "back" /\ s.owns = rq[r].owns /\ s.held = FALSE /\ s.n = Needs(rq[r].home)
          /\ s.home = rq[r].home /\ s.trail = rq[r].trail /\ s.origin = rq[r].origin /\ s.creds = rq[r].creds
      BY <1>1, <2>2 DEF Asks, AskPcs
    <2> HIDE DEF s
    <2>4. Placed(s)
      BY <1>1, <1>2, <2>2, <2>3 DEF Placed, AllPlaces, Served
    <2>5. Sent(s)
      BY <1>1, <2>3 DEF Sent
    <2> QED  BY <1>1, <2>1, <2>3, <2>4, <2>5, SameOwned
  <1>3. CASE ~rq[r].held
    <2>1. MP!Go(r, MP!Released(rq[r])) /\ rq[r].owns = {}
      BY <1>1, <1>3 DEF MP!Release, Placed
    <2> QED  BY <1>1, <1>3, <2>1, ReleasedKeeps
  <1> QED  BY <1>2, <1>3

\* The last place taken is the first that is given back.
LEMMA GiveBackKeeps ==
    ASSUME ProxyParameters, ProxyIInv, NEW r \in Requests, MP!GiveBack(r)
    PROVE  ProxyIInv'
  <1>1. rq[r] \in Asks /\ Placed(rq[r]) /\ Sent(rq[r]) /\ rq[r].pc = "back" /\ refused' = refused
    BY DEF ProxyIInv, MP!GiveBack
  <1>2. /\ rq[r].home \in BOOLEAN /\ rq[r].n \in 0..2 /\ rq[r].n <= Needs(rq[r].home) /\ ~rq[r].held
        /\ rq[r].owns = FirstPlaces(rq[r].home, rq[r].n) /\ rq[r].owns \in SUBSET {"slots", "outside"}
    BY <1>1 DEF Placed, Asks
  <1>3. CASE rq[r].n = 0
    <2>1. rq[r].owns = {}
      BY <1>2, <1>3 DEF FirstPlaces
    <2> QED  BY <1>1, <1>2, <1>3, <2>1, ReleasedKeeps DEF MP!GiveBack
  <1>4. CASE rq[r].n # 0
    <2> DEFINE pool == MP!Pools(rq[r].home)[rq[r].n]
               s == [rq[r] EXCEPT !.n = @ - 1, !.owns = @ \ {pool}]
    <2>1. MP!Go(r, s) /\ free' = [free EXCEPT ![pool] = @ + 1]
      BY <1>4 DEF MP!GiveBack
    <2>2. PICK m \in 0..2 : m = rq[r].n - 1 /\ m + 1 = rq[r].n /\ m < Needs(rq[r].home)
      BY <1>2, <1>4 DEF Needs
    <2>3. /\ pool \in {"slots", "outside"} /\ pool \notin FirstPlaces(rq[r].home, m)
          /\ rq[r].owns = FirstPlaces(rq[r].home, m) \cup {pool}
          /\ rq[r].owns \ {pool} = FirstPlaces(rq[r].home, m)
      <3>1. LET p == MP!Pools(rq[r].home)[m + 1] IN
              /\ p \in {"slots", "outside"} /\ p \notin FirstPlaces(rq[r].home, m)
              /\ FirstPlaces(rq[r].home, m + 1) = FirstPlaces(rq[r].home, m) \cup {p}
              /\ FirstPlaces(rq[r].home, m + 1) \ {p} = FirstPlaces(rq[r].home, m)
        BY <1>2, <2>2, PoolsInOrder
      <3>2. rq[r].owns = FirstPlaces(rq[r].home, m + 1) /\ pool = MP!Pools(rq[r].home)[m + 1]
        BY <1>2, <2>2
      <3> QED  BY <3>1, <3>2
    <2>4. /\ DOMAIN rq[r] = {"pc", "home", "n", "held", "again", "owns", "origin", "creds", "trail"}
          /\ rq[r].owns \ {pool} \in SUBSET {"slots", "outside"}
      BY <1>1, <1>2 DEF Asks
    <2>5. /\ s.owns = rq[r].owns \ {pool} /\ s.home = rq[r].home /\ s.pc = "back" /\ s.n = m /\ s.held = rq[r].held
          /\ s.trail = rq[r].trail /\ s.origin = rq[r].origin /\ s.creds = rq[r].creds
      BY <1>1, <2>2, <2>4
    <2>6. s \in Asks
      <3> HIDE DEF pool
      <3> QED  BY <1>1, <2>2, <2>4 DEF Asks
    <2> HIDE DEF s
    <2>7. Placed(s)
      <3>1. s.pc = "back" /\ ~s.held /\ s.n <= Needs(s.home) /\ s.owns = FirstPlaces(s.home, s.n)
        BY <1>2, <2>2, <2>3, <2>5 DEF Needs
      <3> QED  BY <3>1 DEF Placed, Served
    <2>8. Sent(s)
      BY <1>1, <2>5 DEF Sent
    <2> HIDE DEF pool
    <2> QED  BY <1>1, <2>1, <2>3, <2>5, <2>6, <2>7, <2>8, PlaceGivenBack
  <1> QED  BY <1>3, <1>4

\* A hop sends the credentials only where all hops before it went.
LEMMA HopKeeps ==
    ASSUME ProxyParameters, ProxyIInv, NEW r \in Requests, MP!Hop(r)
    PROVE  ProxyIInv'
  <1>1. rq[r] \in Asks /\ Placed(rq[r]) /\ Sent(rq[r]) /\ rq[r].pc = "hop" /\ UNCHANGED <<free, refused>>
    BY DEF ProxyIInv, MP!Hop
  <1> DEFINE hop == [origin |-> rq[r].origin, creds |-> rq[r].creds]
             s == [rq[r] EXCEPT !.pc = "sent", !.trail = Append(@, hop)]
  <1>2. CASE MP!Finish(r, FALSE)
    BY <1>1, <1>2, FinishKeeps DEF Served
  <1>3. CASE MP!Go(r, s)
    <2>1. rq[r].trail \in Seq(Hops) /\ hop \in Hops /\ rq[r].creds \in BOOLEAN
      BY <1>1 DEF Asks, Hops
    <2>2. PICK t : t = Append(rq[r].trail, hop)
      OBVIOUS
    <2>3. /\ t \in Seq(Hops) /\ Len(t) = Len(rq[r].trail) + 1 /\ Len(rq[r].trail) \in Nat
          /\ \A i \in 1..Len(rq[r].trail) : t[i] = rq[r].trail[i]
          /\ t[Len(rq[r].trail) + 1] = hop
      BY <2>1, <2>2, AppendProperties
    <2>4. /\ s \in Asks /\ s.pc = "sent" /\ s.owns = rq[r].owns /\ s.home = rq[r].home /\ s.held = rq[r].held
          /\ s.trail = t /\ s.origin = rq[r].origin /\ s.creds = rq[r].creds
      BY <1>1, <2>2, <2>3 DEF Asks, AskPcs, Served
    <2> HIDE DEF s
    <2>5. Placed(s)
      BY <1>1, <2>4 DEF Placed, Served
    <2>6. rq[r].creds => \A i \in 1..Len(t) : t[i].origin = rq[r].origin
      <3> SUFFICES ASSUME rq[r].creds, NEW i \in 1..Len(t)
                   PROVE  t[i].origin = rq[r].origin
        OBVIOUS
      <3>1. CASE i \in 1..Len(rq[r].trail)
        BY <3>1, <1>1, <2>3 DEF Sent
      <3>2. CASE i = Len(rq[r].trail) + 1
        BY <3>2, <2>3
      <3> QED  BY <3>1, <3>2, <2>3
    <2>7. Loyal(t)
      <3> SUFFICES ASSUME NEW j \in 1..Len(t), t[j].creds, NEW i \in 1..j
                   PROVE  t[i].origin = t[1].origin
        BY DEF Loyal
      <3>1. CASE j \in 1..Len(rq[r].trail)
        <4>1. i \in 1..Len(rq[r].trail) /\ 1 \in 1..Len(rq[r].trail)
          BY <3>1, <2>3
        <4>2. rq[r].trail[j].creds
          BY <3>1, <2>3
        <4>3. rq[r].trail[i].origin = rq[r].trail[1].origin
          BY <3>1, <4>2, <1>1 DEF Sent, Loyal
        <4> QED  BY <4>1, <4>3, <2>3
      <3>2. CASE j = Len(rq[r].trail) + 1
        <4>1. rq[r].creds
          BY <3>2, <2>3
        <4>2. i \in 1..Len(t) /\ 1 \in 1..Len(t)
          BY <2>3
        <4> QED  BY <4>1, <4>2, <2>6
      <3> QED  BY <3>1, <3>2, <2>3
    <2>8. Sent(s)
      BY <2>4, <2>6, <2>7 DEF Sent
    <2> QED  BY <1>1, <1>3, <2>4, <2>5, <2>8, SameOwned
  <1> QED  BY <1>2, <1>3 DEF MP!Hop

\* An answer that redirects to another origin ends the use of the credentials.
LEMMA AnswerKeeps ==
    ASSUME ProxyParameters, ProxyIInv, NEW r \in Requests, MP!Answer(r)
    PROVE  ProxyIInv'
  <1>1. rq[r] \in Asks /\ Placed(rq[r]) /\ Sent(rq[r]) /\ rq[r].pc = "sent" /\ UNCHANGED <<free, refused>>
    BY DEF ProxyIInv, MP!Answer
  <1>2. ASSUME NEW again \in BOOLEAN, MP!Finish(r, again)
        PROVE  ProxyIInv'
    BY <1>1, <1>2, FinishKeeps DEF Served
  <1>3. ASSUME NEW to \in Origins,
               MP!Go(r, [rq[r] EXCEPT !.pc = "hop", !.creds = MP!CredsAfter(rq[r], to), !.origin = to])
        PROVE  ProxyIInv'
    <2> DEFINE s == [rq[r] EXCEPT !.pc = "hop", !.creds = MP!CredsAfter(rq[r], to), !.origin = to]
    <2>1. MP!CredsAfter(rq[r], to) = (rq[r].creds /\ rq[r].origin = to) /\ MP!CredsAfter(rq[r], to) \in BOOLEAN
      BY <1>1 DEF MP!CredsAfter, Asks
    <2>2. /\ s \in Asks /\ s.owns = rq[r].owns /\ s.home = rq[r].home /\ s.pc = "hop" /\ s.held = rq[r].held
          /\ s.trail = rq[r].trail /\ s.origin = to /\ s.creds = MP!CredsAfter(rq[r], to)
      BY <1>1, <2>1 DEF Asks, AskPcs, Served
    <2> HIDE DEF s
    <2>3. Placed(s)
      BY <1>1, <2>2 DEF Placed, Served
    <2>4. Sent(s)
      BY <1>1, <2>1, <2>2 DEF Sent
    <2> QED  BY <1>1, <1>3, <2>2, <2>3, <2>4, SameOwned DEF s
  <1>4. ASSUME NEW pc \in {"playlist", "stream"}, MP!Go(r, [rq[r] EXCEPT !.pc = pc])
        PROVE  ProxyIInv'
    <2> DEFINE s == [rq[r] EXCEPT !.pc = pc]
    <2>1. /\ s \in Asks /\ s.owns = rq[r].owns /\ s.home = rq[r].home /\ s.pc = pc /\ s.held = rq[r].held
          /\ s.trail = rq[r].trail /\ s.origin = rq[r].origin /\ s.creds = rq[r].creds
      BY <1>1 DEF Asks, AskPcs, Served
    <2> HIDE DEF s
    <2>2. Placed(s)
      BY <1>1, <2>1 DEF Placed, Served
    <2>3. Sent(s)
      BY <1>1, <2>1 DEF Sent
    <2> QED  BY <1>1, <1>4, <2>1, <2>2, <2>3, SameOwned DEF s
  <1> QED  BY <1>2, <1>3, <1>4 DEF MP!Answer

LEMMA ProxyBegins ==
    ASSUME ProxyParameters, MP!Init
    PROVE  ProxyIInv
  <1>1. rq \in [Requests -> Asks] /\ \A r \in Requests : rq[r] = MP!Idle
    BY IdleIsFine DEF MP!Init
  <1>2. \A pool : MP!Holders(pool) = {}
    BY <1>1, IdleIsFine DEF MP!Holders
  <1>3. Counted
    BY <1>2, FS_EmptySet DEF MP!Init, Counted, ProxyParameters
  <1>4. RefusedFairly
    BY DEF MP!Init, RefusedFairly
  <1> QED  BY <1>1, <1>3, <1>4, IdleIsFine DEF ProxyIInv

LEMMA ProxyKeeps ==
    ASSUME ProxyParameters, ProxyIInv, [MP!Next]_proxyVars
    PROVE  ProxyIInv'
  <1>1. CASE UNCHANGED proxyVars
    BY <1>1 DEF proxyVars, ProxyIInv, Placed, Sent, Loyal, Counted, RefusedFairly, MP!Holders
  <1>2. ASSUME NEW r \in Requests, MP!Playlist(r) \/ MP!Stream(r)
        PROVE  ProxyIInv'
    <2>1. PICK again \in BOOLEAN : MP!Finish(r, again)
      BY <1>2 DEF MP!Playlist, MP!Stream
    <2>2. rq[r].pc \in Served /\ UNCHANGED <<free, refused>>
      BY <1>2 DEF MP!Playlist, MP!Stream, Served
    <2> QED  BY <2>1, <2>2, FinishKeeps
  <1>3. ASSUME NEW r \in Requests,
               MP!Ask(r) \/ MP!Admit(r) \/ MP!GiveBack(r) \/ MP!Release(r) \/ MP!Hop(r) \/ MP!Answer(r)
        PROVE  ProxyIInv'
    BY <1>3, AskKeeps, AdmitKeeps, GiveBackKeeps, ReleaseKeeps, HopKeeps, AnswerKeeps
  <1> QED  BY <1>1, <1>2, <1>3 DEF MP!Next

ProxyInv == part = "proxy" => ProxyIInv

LEMMA ProxyInvHolds ==
    ASSUME ProxyParameters
    PROVE  Spec => []ProxyInv
  <1>1. Init => ProxyInv
    BY PartsBegin, ProxyBegins DEF ProxyInv
  <1>2. ProxyInv /\ [Next]_allVars => ProxyInv'
    BY PartsStep, ProxyKeeps DEF ProxyInv
  <1> QED  BY <1>1, <1>2, PTL DEF Spec

\* However a request ends, and as often as its slot is released (_admit, _Slot.release),
\* every place is free or owned by one request, and a home client is refused only when
\* the home network holds what internet clients may not.
THEOREM PlacesKept ==
    ASSUME ProxyParameters
    PROVE  Spec => []PlacesAreKept
  <1>1. ProxyIInv => MP!PlacesAreKept
    BY CardinalityIsOne DEF ProxyIInv, Counted, RefusedFairly, MP!PlacesAreKept
  <1>2. ProxyInv => PlacesAreKept
    BY <1>1 DEF ProxyInv, PlacesAreKept
  <1> QED  BY <1>2, ProxyInvHolds, PTL

\* Through however many redirects (open_url), the credentials of a request are sent
\* with no hop that follows one to another origin, back where it was first sent included.
THEOREM CredentialsSentOnce ==
    ASSUME ProxyParameters
    PROVE  Spec => []CredentialsStay
  <1>1. ProxyIInv => MP!CredentialsStay
    <2> SUFFICES ASSUME ProxyIInv, NEW r \in Requests
                 PROVE  \A j \in DOMAIN rq[r].trail : rq[r].trail[j].creds
                          => \A i \in 1..j : rq[r].trail[i].origin = rq[r].trail[1].origin
      BY DEF MP!CredentialsStay
    <2>1. rq[r].trail \in Seq(Hops) /\ Loyal(rq[r].trail)
      BY DEF ProxyIInv, Asks, Sent
    <2>2. DOMAIN rq[r].trail = 1..Len(rq[r].trail)
      BY <2>1
    <2> QED  BY <2>1, <2>2 DEF Loyal
  <1>2. ProxyInv => CredentialsStay
    BY <1>1 DEF ProxyInv, CredentialsStay
  <1> QED  BY <1>2, ProxyInvHolds, PTL

----------------------------------------------------------------------------
(* The page of the hardware (TranscodingAdmin).                             *)

\* what the parameters are: times, and tests that are cached for some time
AdminParameters == TestsTTL \in Nat \ {0} /\ AdminUntil \in Nat

Requested == {"pc", "force", "began", "early", "found", "next", "read"}

\* A request has read the clock before; one that shows what is cached, and was not
\* early, has tests that ended less than TTL before that, whatever was stored since.
Timed(c, by) == c.began \in Nat /\ c.began <= by
InTime(c, value) == c.pc = "show" /\ ~c.early /\ value # Nothing => c.began < value.ended + TestsTTL

\* The cache is dated before the end of the tests it holds, unless one is being filled.
Dated ==
    /\ adminTime \in Nat /\ cache.at \in Nat /\ cache.at <= adminTime
    /\ cache.value # Nothing => cache.value.ended \in Nat
    /\ cache.value # Nothing /\ (\A a \in Admins : requests[a].pc # "store") => cache.at <= cache.value.ended

AdminIInv ==
    /\ DOMAIN requests = Admins /\ \A a \in Admins : DOMAIN requests[a] = Requested
    /\ \A a \in Admins : Timed(requests[a], adminTime) /\ InTime(requests[a], cache.value)
    /\ DOMAIN cache = {"at", "value"} /\ Dated

----------------------------------------------------------------------------
\* A request that goes on, and stores nothing, leaves the cache dated as it was.
LEMMA RequestKeeps ==
    ASSUME AdminIInv, NEW a \in Admins, NEW c, requests' = [requests EXCEPT ![a] = c],
           DOMAIN c = Requested, Timed(c, adminTime), InTime(c, cache.value), requests[a].pc # "store",
           UNCHANGED <<adminTime, cache>>
    PROVE  AdminIInv'
  <1>1. DOMAIN requests' = Admins /\ requests'[a] = c /\ \A b \in Admins \ {a} : requests'[b] = requests[b]
    BY DEF AdminIInv
  <1>2. \A b \in Admins : DOMAIN requests'[b] = Requested
    BY <1>1 DEF AdminIInv
  <1>3. \A b \in Admins : Timed(requests'[b], adminTime') /\ InTime(requests'[b], cache'.value)
    BY <1>1 DEF AdminIInv, Timed, InTime
  <1>4. (\A b \in Admins : requests'[b].pc # "store") => \A b \in Admins : requests[b].pc # "store"
    BY <1>1
  <1>5. Dated'
    BY <1>4 DEF AdminIInv, Dated
  <1> QED  BY <1>1, <1>2, <1>3, <1>5 DEF AdminIInv

\* A request that is over is as it was before.
LEMMA IdleIsTimed ==
    /\ DOMAIN TA!Idle = Requested /\ TA!Idle.pc = "idle" /\ TA!Idle.began = 0
    /\ (\A value : InTime(TA!Idle, value)) /\ (adminTime \in Nat => Timed(TA!Idle, adminTime))
  BY DEF TA!Idle, Requested, InTime, Timed

\* A request that does not show what is cached, and has the clock it had, goes on.
LEMMA GoingOnKeeps ==
    ASSUME AdminIInv, NEW a \in Admins, NEW c, requests' = [requests EXCEPT ![a] = c],
           DOMAIN c = Requested, c.pc # "show", c.began \in {requests[a].began, adminTime}, requests[a].pc # "store",
           UNCHANGED <<adminTime, cache>>
    PROVE  AdminIInv'
  <1>1. Timed(c, adminTime)
    BY DEF AdminIInv, Timed, Dated
  <1>2. InTime(c, cache.value)
    BY DEF InTime
  <1> QED  BY <1>1, <1>2, RequestKeeps

LEMMA OverKeeps ==
    ASSUME AdminIInv, NEW a \in Admins, requests' = [requests EXCEPT ![a] = TA!Idle], requests[a].pc # "store",
           UNCHANGED <<adminTime, cache>>
    PROVE  AdminIInv'
  <1>1. adminTime \in Nat
    BY DEF AdminIInv, Dated
  <1> QED  BY <1>1, IdleIsTimed, RequestKeeps

LEMMA AskForPageKeeps ==
    ASSUME AdminIInv, NEW a \in Admins, TA!Ask(a)
    PROVE  AdminIInv'
  <1>1. PICK pc \in {"profiles", "status"}, force \in BOOLEAN :
               requests' = [requests EXCEPT ![a] = [TA!Idle EXCEPT !.pc = pc, !.force = force]]
    BY DEF TA!Ask, TA!Stay
  <1>2. PICK c : c = [TA!Idle EXCEPT !.pc = pc, !.force = force]
    OBVIOUS
  <1>3. DOMAIN c = Requested /\ c.pc = pc /\ c.began = 0
    BY <1>2, IdleIsTimed DEF TA!Idle, Requested
  <1>4. requests[a].pc # "store" /\ UNCHANGED <<adminTime, cache>> /\ adminTime \in Nat
    BY DEF TA!Ask, AdminIInv, Dated
  <1>5. Timed(c, adminTime) /\ InTime(c, cache.value)
    BY <1>3, <1>4 DEF Timed, InTime
  <1> QED  BY <1>1, <1>2, <1>3, <1>4, <1>5, RequestKeeps

\* The reading of the clock, and the first of the value.
LEMMA ProfilesKeeps ==
    ASSUME AdminIInv, NEW a \in Admins, TA!Profiles(a) \/ TA!Look(a)
    PROVE  AdminIInv'
  <1>1. CASE TA!Profiles(a)
    <2>1. PICK c : c = [requests[a] EXCEPT !.began = adminTime, !.pc = IF requests[a].force THEN "tests" ELSE "look"]
      OBVIOUS
    <2>2. requests' = [requests EXCEPT ![a] = c] /\ requests[a].pc # "store" /\ UNCHANGED <<adminTime, cache>>
      BY <1>1, <2>1 DEF TA!Profiles, TA!Stay
    <2>3. DOMAIN c = Requested /\ c.began = adminTime /\ c.pc # "show"
      BY <2>1 DEF AdminIInv, Requested
    <2> QED  BY <2>2, <2>3, GoingOnKeeps
  <1>2. CASE TA!Look(a)
    <2>1. PICK c : c = [requests[a] EXCEPT !.pc = IF cache.value = Nothing THEN "tests" ELSE "date"]
      OBVIOUS
    <2>2. requests' = [requests EXCEPT ![a] = c] /\ requests[a].pc # "store" /\ UNCHANGED <<adminTime, cache>>
      BY <1>2, <2>1 DEF TA!Look, TA!Stay
    <2>3. DOMAIN c = Requested /\ c.began = requests[a].began /\ c.pc # "show"
      BY <2>1 DEF AdminIInv, Requested
    <2> QED  BY <2>2, <2>3, GoingOnKeeps
  <1> QED  BY <1>1, <1>2

\* The date: of tests that have ended, unless others are being stored.
LEMMA DateKeeps ==
    ASSUME AdminParameters, AdminIInv, NEW a \in Admins, TA!Date(a)
    PROVE  AdminIInv'
  <1>1. PICK e \in BOOLEAN : e = \E b \in Admins : requests[b].pc = "store"
    OBVIOUS
  <1>2. PICK c : c = [requests[a] EXCEPT !.pc = IF TA!Fresh(requests[a]) THEN "show" ELSE "tests", !.early = e]
    OBVIOUS
  <1>3. requests' = [requests EXCEPT ![a] = c] /\ requests[a].pc # "store" /\ UNCHANGED <<adminTime, cache>>
    BY <1>1, <1>2 DEF TA!Date, TA!Stay
  <1>4. /\ DOMAIN c = Requested /\ c.began = requests[a].began /\ c.early = e
        /\ c.pc = "show" => TA!Fresh(requests[a])
    BY <1>2 DEF AdminIInv, Requested
  <1>5. Timed(c, adminTime)
    BY <1>4 DEF AdminIInv, Timed
  <1>6. InTime(c, cache.value)
    <2> SUFFICES ASSUME c.pc = "show", ~c.early, cache.value # Nothing
                 PROVE  c.began < cache.value.ended + TestsTTL
      BY DEF InTime
    <2>1. c.began < cache.at + TestsTTL
      BY <1>4 DEF TA!Fresh
    <2>2. \A b \in Admins : requests[b].pc # "store"
      BY <1>1, <1>4
    <2>3. cache.at <= cache.value.ended /\ cache.at \in Nat /\ cache.value.ended \in Nat
      BY <2>2 DEF AdminIInv, Dated
    <2> QED  BY <2>1, <2>3, <1>5 DEF Timed, AdminParameters
  <1> QED  BY <1>3, <1>4, <1>5, <1>6, RequestKeeps

\* The requests that end, or test.
LEMMA TestKeeps ==
    ASSUME AdminIInv, NEW a \in Admins,
           TA!Show(a) \/ TA!Status(a) \/ TA!TestProfile(a) \/ TA!TestsFail(a) \/ TA!ReadConfig(a) \/ TA!SetProfile(a)
    PROVE  AdminIInv'
  <1>1. requests[a].pc # "store" /\ UNCHANGED <<adminTime, cache>>
    BY DEF TA!Show, TA!Status, TA!TestProfile, TA!TestsFail, TA!ReadConfig, TA!SetProfile
  <1>2. CASE TA!Show(a) \/ TA!TestsFail(a)
    BY <1>1, <1>2, OverKeeps DEF TA!Show, TA!TestsFail, TA!Done, TA!Stay
  <1>3. CASE TA!Status(a)
    <2>1. PICK c : c = [requests[a] EXCEPT !.pc = "profiles"]
      OBVIOUS
    <2>2. requests' = [requests EXCEPT ![a] = TA!Idle] \/ requests' = [requests EXCEPT ![a] = c]
      BY <1>3, <2>1 DEF TA!Status, TA!Done, TA!Stay
    <2>3. DOMAIN c = Requested /\ c.pc # "show" /\ c.began = requests[a].began
      BY <2>1 DEF AdminIInv, Requested
    <2>4. CASE requests' = [requests EXCEPT ![a] = c]
      BY <1>1, <2>3, <2>4, GoingOnKeeps
    <2> QED  BY <1>1, <2>2, <2>4, OverKeeps
  <1>4. CASE TA!TestProfile(a)
    <2>1. PICK f : requests' = [requests EXCEPT ![a] = [requests[a] EXCEPT !.next = @ + 1, !.found = @ \cup f]]
      BY <1>4 DEF TA!TestProfile, TA!Stay
    <2>2. PICK c : c = [requests[a] EXCEPT !.next = @ + 1, !.found = @ \cup f]
      OBVIOUS
    <2>3. DOMAIN c = Requested /\ c.pc = requests[a].pc /\ c.began = requests[a].began
      BY <2>2 DEF AdminIInv, Requested
    <2>4. requests[a].pc # "show"
      BY <1>4 DEF TA!TestProfile
    <2> QED  BY <1>1, <2>1, <2>2, <2>3, <2>4, GoingOnKeeps
  <1>5. CASE TA!ReadConfig(a)
    <2>1. PICK c : c = [requests[a] EXCEPT !.pc = "write", !.read = adminConfig]
      OBVIOUS
    <2>2. requests' = [requests EXCEPT ![a] = c]
      BY <1>5, <2>1 DEF TA!ReadConfig, TA!Stay
    <2>3. DOMAIN c = Requested /\ c.pc # "show" /\ c.began = requests[a].began
      BY <2>1 DEF AdminIInv, Requested
    <2> QED  BY <1>1, <2>2, <2>3, GoingOnKeeps
  <1>6. CASE TA!SetProfile(a)
    <2>1. PICK c : c = [TA!Idle EXCEPT !.pc = "forget"]
      OBVIOUS
    <2>2. requests' = [requests EXCEPT ![a] = c]
      BY <1>6, <2>1 DEF TA!SetProfile, TA!Stay
    <2>3. DOMAIN c = Requested /\ c.pc = "forget" /\ c.began = 0
      BY <2>1, IdleIsTimed DEF TA!Idle, Requested
    <2>4. Timed(c, adminTime) /\ InTime(c, cache.value)
      BY <2>3 DEF Timed, InTime, AdminIInv, Dated
    <2> QED  BY <1>1, <2>2, <2>3, <2>4, RequestKeeps
  <1> QED  BY <1>2, <1>3, <1>4, <1>5, <1>6

----------------------------------------------------------------------------
\* The two halves of a store: the date, ...
LEMMA StoreAtKeeps ==
    ASSUME AdminIInv, NEW a \in Admins, TA!StoreAt(a)
    PROVE  AdminIInv'
  <1>1. requests[a].pc = "tests" /\ cache' = [cache EXCEPT !.at = requests[a].began] /\ UNCHANGED adminTime
    BY DEF TA!StoreAt
  <1>2. PICK c : c = [requests[a] EXCEPT !.pc = "store"]
    OBVIOUS
  <1>3. requests' = [requests EXCEPT ![a] = c]
    BY <1>2 DEF TA!StoreAt, TA!Stay
  <1>4. DOMAIN c = Requested /\ c.pc = "store" /\ c.began = requests[a].began
    BY <1>2 DEF AdminIInv, Requested
  <1>5. DOMAIN requests' = Admins /\ requests'[a] = c /\ \A b \in Admins \ {a} : requests'[b] = requests[b]
    BY <1>3 DEF AdminIInv
  <1>6. DOMAIN cache' = {"at", "value"} /\ cache'.at = requests[a].began /\ cache'.value = cache.value
    BY <1>1 DEF AdminIInv
  <1>7. \A b \in Admins : DOMAIN requests'[b] = Requested /\ Timed(requests'[b], adminTime') /\ InTime(requests'[b], cache'.value)
    BY <1>1, <1>4, <1>5, <1>6 DEF AdminIInv, Timed, InTime
  <1>8. Dated'
    BY <1>1, <1>4, <1>5, <1>6 DEF AdminIInv, Dated, Timed
  <1> QED  BY <1>5, <1>6, <1>7, <1>8 DEF AdminIInv

\* ... and what was found: it has ended now, which no date and no clock that was read is after.
LEMMA StoreValueKeeps ==
    ASSUME AdminParameters, AdminIInv, NEW a \in Admins, TA!StoreValue(a)
    PROVE  AdminIInv'
  <1>1. /\ cache' = [cache EXCEPT !.value = [found |-> requests[a].found, ended |-> adminTime]]
        /\ requests' = [requests EXCEPT ![a] = TA!Idle] /\ UNCHANGED adminTime
    BY DEF TA!StoreValue, TA!Done, TA!Stay
  <1>2. adminTime \in Nat
    BY DEF AdminIInv, Dated
  <1>3. DOMAIN requests' = Admins /\ requests'[a] = TA!Idle /\ \A b \in Admins \ {a} : requests'[b] = requests[b]
    BY <1>1 DEF AdminIInv
  <1>4. DOMAIN cache' = {"at", "value"} /\ cache'.at = cache.at /\ cache'.value.ended = adminTime
    BY <1>1 DEF AdminIInv
  <1>5. \A b \in Admins : DOMAIN requests'[b] = Requested /\ requests'[b].began \in Nat /\ requests'[b].began <= adminTime
    BY <1>2, <1>3, IdleIsTimed DEF AdminIInv, Timed
  <1>6. \A b \in Admins : Timed(requests'[b], adminTime') /\ InTime(requests'[b], cache'.value)
    BY <1>1, <1>2, <1>4, <1>5 DEF Timed, InTime, AdminParameters
  <1>7. Dated'
    BY <1>1, <1>2, <1>4 DEF AdminIInv, Dated
  <1> QED  BY <1>3, <1>4, <1>5, <1>6, <1>7 DEF AdminIInv

\* A saved profile makes the tests forgotten: their date, ...
LEMMA ForgetAtKeeps ==
    ASSUME AdminIInv, NEW a \in Admins, TA!ForgetAt(a)
    PROVE  AdminIInv'
  <1>1. requests[a].pc = "forget" /\ cache' = [cache EXCEPT !.at = 0] /\ UNCHANGED adminTime
    BY DEF TA!ForgetAt
  <1>2. PICK c : c = [requests[a] EXCEPT !.pc = "empty"]
    OBVIOUS
  <1>3. requests' = [requests EXCEPT ![a] = c]
    BY <1>2 DEF TA!ForgetAt, TA!Stay
  <1>4. DOMAIN c = Requested /\ c.pc = "empty" /\ c.began = requests[a].began
    BY <1>2 DEF AdminIInv, Requested
  <1>5. DOMAIN requests' = Admins /\ requests'[a] = c /\ \A b \in Admins \ {a} : requests'[b] = requests[b]
    BY <1>3 DEF AdminIInv
  <1>6. DOMAIN cache' = {"at", "value"} /\ cache'.at = 0 /\ cache'.value = cache.value
    BY <1>1 DEF AdminIInv
  <1>7. \A b \in Admins : DOMAIN requests'[b] = Requested /\ Timed(requests'[b], adminTime') /\ InTime(requests'[b], cache'.value)
    BY <1>1, <1>4, <1>5, <1>6 DEF AdminIInv, Timed, InTime
  <1>8. Dated'
    BY <1>1, <1>6 DEF AdminIInv, Dated
  <1> QED  BY <1>5, <1>6, <1>7, <1>8 DEF AdminIInv

\* ... and what they found.
LEMMA ForgetValueKeeps ==
    ASSUME AdminIInv, NEW a \in Admins, TA!ForgetValue(a)
    PROVE  AdminIInv'
  <1>1. /\ cache' = [cache EXCEPT !.value = Nothing]
        /\ requests' = [requests EXCEPT ![a] = TA!Idle] /\ UNCHANGED adminTime
    BY DEF TA!ForgetValue, TA!Done, TA!Stay
  <1>2. adminTime \in Nat
    BY DEF AdminIInv, Dated
  <1>3. DOMAIN requests' = Admins /\ requests'[a] = TA!Idle /\ \A b \in Admins \ {a} : requests'[b] = requests[b]
    BY <1>1 DEF AdminIInv
  <1>4. DOMAIN cache' = {"at", "value"} /\ cache'.at = cache.at /\ cache'.value = Nothing
    BY <1>1 DEF AdminIInv
  <1>5. \A b \in Admins : DOMAIN requests'[b] = Requested /\ requests'[b].began \in Nat /\ requests'[b].began <= adminTime
    BY <1>2, <1>3, IdleIsTimed DEF AdminIInv, Timed
  <1>6. \A b \in Admins : Timed(requests'[b], adminTime') /\ InTime(requests'[b], cache'.value)
    BY <1>1, <1>2, <1>4, <1>5 DEF Timed, InTime
  <1>7. Dated'
    BY <1>1, <1>2, <1>4 DEF AdminIInv, Dated
  <1> QED  BY <1>3, <1>4, <1>5, <1>6, <1>7 DEF AdminIInv

\* Steps that leave the requests and the cache alone, at this time or later.
LEMMA PageUntouched ==
    ASSUME AdminIInv, UNCHANGED <<requests, cache>>, adminTime' \in Nat, adminTime <= adminTime'
    PROVE  AdminIInv'
  <1>1. \A b \in Admins : Timed(requests'[b], adminTime') /\ InTime(requests'[b], cache'.value)
    BY DEF AdminIInv, Timed, InTime, Dated
  <1>2. Dated'
    BY DEF AdminIInv, Dated
  <1> QED  BY <1>1, <1>2 DEF AdminIInv

LEMMA AdminKeeps ==
    ASSUME AdminParameters, AdminIInv, [TA!Next]_adminVars
    PROVE  AdminIInv'
  <1>0. adminTime \in Nat
    BY DEF AdminIInv, Dated
  <1>1. CASE TA!Tick
    BY <1>0, <1>1, PageUntouched DEF TA!Tick
  <1>2. ASSUME NEW a \in Admins, TA!SaveConfig(a)
        PROVE  AdminIInv'
    BY <1>0, <1>2, PageUntouched DEF TA!SaveConfig
  <1>3. CASE UNCHANGED adminVars \/ TA!HostChanges
    BY <1>0, <1>3, PageUntouched DEF adminVars, TA!HostChanges
  <1> QED  BY <1>1, <1>2, <1>3, AskForPageKeeps, ProfilesKeeps, DateKeeps, TestKeeps, StoreAtKeeps, StoreValueKeeps,
              ForgetAtKeeps, ForgetValueKeeps DEF TA!Next

LEMMA AdminBegins ==
    ASSUME AdminParameters, TA!Init
    PROVE  AdminIInv
  <1>1. requests = [a \in Admins |-> TA!Idle] /\ cache = [at |-> 0, value |-> Nothing] /\ adminTime \in Nat
    BY DEF TA!Init, AdminParameters
  <1>2. \A a \in Admins : DOMAIN requests[a] = Requested /\ Timed(requests[a], adminTime) /\ InTime(requests[a], cache.value)
    BY <1>1, IdleIsTimed
  <1>3. Dated
    BY <1>1 DEF Dated
  <1> QED  BY <1>1, <1>2, <1>3 DEF AdminIInv

AdminInv == part = "admin" => AdminIInv

\* Whatever requests of the hardware page and of the dashboard overlap, with their reads
\* and writes of the cache in any order and profiles saved meanwhile: what is shown from
\* the cache ended less than TTL before it was asked for, unless the date that was read
\* is of tests still to be stored (webadmin/transcoding_profiles.py, _profiles and set_profile).
THEOREM PageStaysFresh ==
    ASSUME AdminParameters
    PROVE  Spec => []PageIsFresh
  <1>1. Init => AdminInv
    BY PartsBegin, AdminBegins DEF AdminInv
  <1>2. AdminInv /\ [Next]_allVars => AdminInv'
    BY PartsStep, AdminKeeps DEF AdminInv
  <1>3. AdminInv => PageIsFresh
    <2> SUFFICES ASSUME AdminIInv
                 PROVE  TA!ShownIsFresh
      BY DEF AdminInv, PageIsFresh
    <2> QED  BY DEF AdminIInv, InTime, TA!ShownIsFresh
  <1> QED  BY <1>1, <1>2, <1>3, PTL DEF Spec

----------------------------------------------------------------------------
(* The fonts of the files that TVs play (EmbeddedAss).                      *)

\* finitely many threads, a mark that is none, room for one file at least
AssParameters ==
    /\ IsFiniteSet(Threads) /\ Nothing \notin Threads
    /\ FontsKeep \in Nat \ {0} /\ Work \in Nat

AssPcs == {"idle", "look", "lock", "probe", "place", "cut", "root", "fonts", "dump", "write", "check", "mark",
           "touch", "drop", "rmdir"}
Fontings == [pc : AssPcs, kind : {"ask", "window", "font"}, file : Files \cup {Nothing}, stale : Seq(Files),
             crossed : BOOLEAN]

\* no file is in the order of use twice
Once(order) == \A i, j \in 1..Len(order) : order[i] = order[j] => i = j

StoreTyped ==
    /\ th \in [Threads -> Fontings]
    /\ lock \in [Files -> Threads \cup {Nothing}]
    /\ dir \in [Files -> {"absent", "empty", "part", "whole"}]
    /\ assUsed \in Seq(Files) /\ Once(assUsed)
    /\ ready \in BOOLEAN /\ done \subseteq Files

Dumping == {"dump", "write", "check", "mark"}
Serving == {"touch", "drop", "rmdir"}

\* What a thread relies on, of the locks, the directories and their marks: it holds
\* the lock of its file while it probes or dumps, the directory it dumps to is not
\* marked yet, and what it serves is whole and marked unless it was crossed.
Relies(s, t, locks, dirs, marks, rooted) ==
    /\ s.pc # "idle" => s.file \in Files
    /\ s.pc \in Dumping \cup {"probe"} => locks[s.file] = t
    /\ s.pc \in Dumping \cup Serving \cup {"fonts"} => rooted
    /\ s.pc \in Dumping => s.file \notin marks
    /\ s.pc = "rmdir" => s.stale # <<>>
    /\ s.pc = "mark" /\ ~s.crossed => dirs[s.file] = "whole"
    /\ s.pc \in Serving /\ ~s.crossed => dirs[s.file] = "whole" /\ s.file \in marks

\* A thread that was not crossed works on a file that nobody has given up, ...
Undisturbed(s) == s.pc \in Dumping \cup Serving /\ ~s.crossed
NoneGivenUp == \A t, u \in Threads : Undisturbed(th[t]) => th[t].file \notin EA!Range(th[u].stale)

\* ... so a directory marked by such a thread is whole until the mark goes.
MarksAreTrue == ready => \A f \in done \ doubt : dir[f] = "whole"

Cuts == {t \in Threads : th[t].pc \in {"cut", "write"}}
WorkIsBounded == working = Cuts /\ EA!Cardinality(working) <= Work

AssIInv ==
    /\ StoreTyped
    /\ \A t \in Threads : Relies(th[t], t, lock, dir, done, ready)
    /\ NoneGivenUp /\ MarksAreTrue /\ WorkIsBounded

----------------------------------------------------------------------------
\* One thread moves: what the others rely on is left alone, and if it is undisturbed
\* it was so before, or begins to be when nobody has given up its file.
LEMMA ThreadMoves ==
    ASSUME AssIInv, NEW t \in Threads, StoreTyped', MarksAreTrue', WorkIsBounded',
           \A u \in Threads \ {t} : th'[u] = th[u],
           \A u \in Threads : Relies(th'[u], u, lock', dir', done', ready'),
           EA!Range(th'[t].stale) \subseteq EA!Range(th[t].stale),
           Undisturbed(th'[t]) => \/ Undisturbed(th[t]) /\ th'[t].file = th[t].file
                                  \/ ~EA!Dropped(th'[t].file)
    PROVE  AssIInv'
  <1>1. NoneGivenUp'
    <2> SUFFICES ASSUME NEW v \in Threads, NEW u \in Threads, Undisturbed(th'[v])
                 PROVE  th'[v].file \notin EA!Range(th'[u].stale)
      BY DEF NoneGivenUp
    <2>1. EA!Range(th'[u].stale) \subseteq EA!Range(th[u].stale)
      BY DEF AssIInv
    <2>2. th'[v].file \notin EA!Range(th[u].stale)
      <3>1. CASE v = t
        BY <3>1 DEF AssIInv, NoneGivenUp, EA!Dropped
      <3>2. CASE v # t
        BY <3>2 DEF AssIInv, NoneGivenUp
      <3> QED  BY <3>1, <3>2
    <2> QED  BY <2>1, <2>2
  <1> QED  BY <1>1 DEF AssIInv

\* The work is what it was if nobody begins to cut, and nobody ends.
LEMMA WorkStays ==
    ASSUME AssIInv, NEW t \in Threads, working' = working, \A u \in Threads \ {t} : th'[u] = th[u],
           th'[t].pc \in {"cut", "write"} <=> th[t].pc \in {"cut", "write"}
    PROVE  WorkIsBounded'
  <1>1. Cuts' = Cuts
    BY DEF Cuts
  <1> QED  BY <1>1 DEF AssIInv, WorkIsBounded

LEMMA AssCardinality ==
    \A S : EA!Cardinality(S) = Cardinality(S)
  BY DEF EA!Cardinality, Cardinality, EA!IsFiniteSet, IsFiniteSet

LEMMA WorkBegins ==
    ASSUME AssParameters, AssIInv, NEW t \in Threads, EA!Cardinality(working) < Work, working' = working \cup {t},
           \A u \in Threads \ {t} : th'[u] = th[u], th'[t].pc \in {"cut", "write"}
    PROVE  WorkIsBounded'
  <1>1. Cuts' = Cuts \cup {t}
    BY DEF Cuts
  <1>2. working \subseteq Threads
    BY DEF AssIInv, WorkIsBounded, Cuts
  <1>3. IsFiniteSet(working)
    BY <1>2, FS_Subset DEF AssParameters
  <1>4. Cardinality(working) \in Nat
    BY <1>3, FS_CardinalityType
  <1>5. Cardinality(working \cup {t}) \in {Cardinality(working), Cardinality(working) + 1}
    BY <1>3, FS_AddElement
  <1>6. Cardinality(working') <= Work
    BY <1>4, <1>5, AssCardinality DEF AssParameters
  <1> QED  BY <1>1, <1>6, AssCardinality DEF AssIInv, WorkIsBounded

LEMMA WorkEnds ==
    ASSUME AssParameters, AssIInv, NEW t \in Threads, working' = working \ {t},
           \A u \in Threads \ {t} : th'[u] = th[u], th'[t].pc \notin {"cut", "write"}
    PROVE  WorkIsBounded'
  <1>1. Cuts' = Cuts \ {t}
    BY DEF Cuts
  <1>2. working \subseteq Threads
    BY DEF AssIInv, WorkIsBounded, Cuts
  <1>3. IsFiniteSet(working)
    BY <1>2, FS_Subset DEF AssParameters
  <1>4. Cardinality(working \ {t}) <= Cardinality(working) /\ Cardinality(working \ {t}) \in Nat
        /\ Cardinality(working) \in Nat
    BY <1>3, FS_Subset, FS_CardinalityType
  <1>5. Cardinality(working') <= Work
    BY <1>4, AssCardinality DEF AssParameters, AssIInv, WorkIsBounded
  <1> QED  BY <1>1, <1>5, AssCardinality DEF AssIInv, WorkIsBounded

\* What one thread becomes.
LEMMA GoesOn ==
    ASSUME AssIInv, NEW t \in Threads, NEW pc \in AssPcs, EA!Go(t, pc)
    PROVE  /\ th' \in [Threads -> Fontings] /\ \A u \in Threads \ {t} : th'[u] = th[u]
           /\ th'[t].pc = pc /\ th'[t].kind = th[t].kind /\ th'[t].file = th[t].file
           /\ th'[t].stale = th[t].stale /\ th'[t].crossed = th[t].crossed
  BY DEF EA!Go, AssIInv, StoreTyped, Fontings

LEMMA Ends ==
    ASSUME AssIInv, NEW t \in Threads, EA!End(t)
    PROVE  /\ th' \in [Threads -> Fontings] /\ \A u \in Threads \ {t} : th'[u] = th[u]
           /\ th'[t].pc = "idle" /\ EA!Range(th'[t].stale) = {}
  <1>1. EA!Idle \in Fontings /\ EA!Idle.pc = "idle" /\ EA!Idle.stale = <<>>
    BY DEF EA!Idle, Fontings, AssPcs
  <1>2. th' = [th EXCEPT ![t] = EA!Idle]
    BY DEF EA!End
  <1>3. PICK c : c = EA!Idle
    OBVIOUS
  <1>4. th' \in [Threads -> Fontings] /\ th'[t] = c /\ \A u \in Threads \ {t} : th'[u] = th[u]
    BY <1>1, <1>2, <1>3 DEF AssIInv, StoreTyped
  <1>5. EA!Range(<<>>) = {}
    BY DEF EA!Range
  <1> QED  BY <1>1, <1>3, <1>4, <1>5

\* the thread is over, or goes to where its route continues
LEMMA AnswersGoOn ==
    ASSUME AssIInv, NEW t \in Threads, EA!Answered(t)
    PROVE  /\ th' \in [Threads -> Fontings] /\ \A u \in Threads \ {t} : th'[u] = th[u]
           /\ th'[t].pc \in {"idle", "place", "root"} /\ (th'[t].pc # "idle" => th'[t].file = th[t].file)
           /\ EA!Range(th'[t].stale) \subseteq EA!Range(th[t].stale)
  <1>0. th[t].kind \in {"ask", "window", "font"}
    BY DEF AssIInv, StoreTyped, Fontings
  <1>1. CASE th[t].kind = "ask"
    BY <1>1, Ends DEF EA!Answered
  <1>2. CASE th[t].kind # "ask"
    <2>1. EA!After(th[t].kind) \in {"place", "root"}
      BY <1>0, <1>2 DEF EA!After
    <2>2. EA!Go(t, EA!After(th[t].kind))
      BY <1>2 DEF EA!Answered
    <2>3. PICK pc \in {"place", "root"} : EA!Go(t, pc)
      BY <2>1, <2>2
    <2> QED  BY <2>3, GoesOn DEF AssPcs
  <1> QED  BY <1>1, <1>2

----------------------------------------------------------------------------
\* A thread that serves and dumps nothing relies on little.
LEMMA ReliesOnLittle ==
    ASSUME NEW s, NEW t, NEW locks, NEW dirs, NEW marks, NEW rooted,
           s.pc \in {"idle", "look", "lock", "place", "cut", "root"}, s.pc # "idle" => s.file \in Files
    PROVE  Relies(s, t, locks, dirs, marks, rooted) /\ ~Undisturbed(s)
  BY DEF Relies, Undisturbed, Dumping, Serving

LEMMA AssAskKeeps ==
    ASSUME AssParameters, AssIInv, NEW t \in Threads, EA!Ask(t)
    PROVE  AssIInv'
  <1>1. PICK kind \in {"ask", "window", "font"}, f \in Files :
               th' = [th EXCEPT ![t] = [EA!Idle EXCEPT !.pc = "look", !.kind = kind, !.file = f]]
    BY DEF EA!Ask
  <1>2. PICK c : c = [EA!Idle EXCEPT !.pc = "look", !.kind = kind, !.file = f]
    OBVIOUS
  <1>3. c \in Fontings /\ c.pc = "look" /\ c.file = f /\ c.stale = <<>>
    <2>1. c = [pc |-> "look", kind |-> kind, file |-> f, stale |-> <<>>, crossed |-> FALSE]
      BY <1>2 DEF EA!Idle
    <2> QED  BY <2>1 DEF Fontings, AssPcs
  <1>4. th' \in [Threads -> Fontings] /\ th'[t] = c /\ \A u \in Threads \ {t} : th'[u] = th[u]
    BY <1>1, <1>2, <1>3 DEF AssIInv, StoreTyped
  <1>5. UNCHANGED <<found, assUsed, ready, lock, working, dir, done, doubt>> /\ th[t].pc = "idle"
    BY DEF EA!Ask, EA!memory, EA!store
  <1>6. StoreTyped' /\ MarksAreTrue'
    BY <1>4, <1>5 DEF AssIInv, StoreTyped, MarksAreTrue
  <1>7. WorkIsBounded'
    BY <1>3, <1>4, <1>5, WorkStays
  <1>8. Relies(c, t, lock', dir', done', ready') /\ ~Undisturbed(c)
    BY <1>3, ReliesOnLittle
  <1>9. EA!Range(<<>>) = {}
    BY DEF EA!Range
  <1> QED  BY <1>3, <1>4, <1>5, <1>6, <1>7, <1>8, <1>9, ThreadMoves DEF AssIInv

\* The lock of a file that a thread holds goes to nobody.
LEMMA UnlockHurtsNobody ==
    ASSUME AssParameters, AssIInv, NEW t \in Threads, th[t].pc \in Dumping \cup {"probe"}, EA!Unlock(th[t].file)
    PROVE  /\ lock' \in [Files -> Threads \cup {Nothing}]
           /\ \A u \in Threads \ {t} : Relies(th[u], u, lock', dir, done, ready)
  <1>1. PICK f : f = th[t].file
    OBVIOUS
  <1>2. f \in Files /\ lock[f] = t
    BY <1>1 DEF AssIInv, Relies, Dumping
  <1>3. lock' = [lock EXCEPT ![f] = Nothing]
    BY <1>1 DEF EA!Unlock
  <1>4. lock' \in [Files -> Threads \cup {Nothing}] /\ \A g \in Files \ {f} : lock'[g] = lock[g]
    BY <1>2, <1>3 DEF AssIInv, StoreTyped
  <1>5. ASSUME NEW u \in Threads \ {t}
        PROVE  Relies(th[u], u, lock', dir, done, ready)
    <2>1. Relies(th[u], u, lock, dir, done, ready)
      BY DEF AssIInv
    <2>2. th[u].pc \in Dumping \cup {"probe"} => lock'[th[u].file] = u
      BY <1>2, <1>4, <2>1 DEF Relies, Dumping
    <2> QED  BY <2>1, <2>2 DEF Relies
  <1> QED  BY <1>4, <1>5

\* Nor does one that was free hurt anybody when it is taken.
LEMMA LockHurtsNobody ==
    ASSUME AssParameters, AssIInv, NEW t \in Threads, NEW f \in Files, lock[f] = Nothing,
           lock' = [lock EXCEPT ![f] = t]
    PROVE  /\ lock' \in [Files -> Threads \cup {Nothing}] /\ lock'[f] = t
           /\ \A u \in Threads \ {t} : Relies(th[u], u, lock', dir, done, ready)
  <1>1. lock' \in [Files -> Threads \cup {Nothing}] /\ lock'[f] = t /\ \A g \in Files \ {f} : lock'[g] = lock[g]
    BY DEF AssIInv, StoreTyped
  <1>2. ASSUME NEW u \in Threads \ {t}
        PROVE  Relies(th[u], u, lock', dir, done, ready)
    <2>1. Relies(th[u], u, lock, dir, done, ready)
      BY DEF AssIInv
    <2>2. th[u].pc \in Dumping \cup {"probe"} => lock'[th[u].file] = u
      BY <1>1, <2>1 DEF Relies, Dumping, AssParameters
    <2> QED  BY <2>1, <2>2 DEF Relies
  <1> QED  BY <1>1, <1>2

\* The discovery of what a file has.
LEMMA DiscoveryKeeps ==
    ASSUME AssParameters, AssIInv, NEW t \in Threads, EA!Discovery(t)
    PROVE  AssIInv'
  <1>1. UNCHANGED <<lock, working, assUsed, ready, dir, done, doubt>> /\ th[t].pc = "look"
    BY DEF EA!Discovery, EA!store
  <1>2. EA!Answered(t) \/ EA!Go(t, "lock")
    BY DEF EA!Discovery
  <1>3. /\ th' \in [Threads -> Fontings] /\ \A u \in Threads \ {t} : th'[u] = th[u]
        /\ th'[t].pc \in {"idle", "place", "root", "lock"} /\ (th'[t].pc # "idle" => th'[t].file = th[t].file)
        /\ EA!Range(th'[t].stale) \subseteq EA!Range(th[t].stale)
    BY <1>2, AnswersGoOn, GoesOn DEF AssPcs
  <1>4. StoreTyped' /\ MarksAreTrue'
    BY <1>1, <1>3 DEF AssIInv, StoreTyped, MarksAreTrue
  <1>5. WorkIsBounded'
    BY <1>1, <1>3, WorkStays
  <1>6. th[t].file \in Files
    BY <1>1 DEF AssIInv, Relies
  <1>7. Relies(th'[t], t, lock', dir', done', ready') /\ ~Undisturbed(th'[t])
    BY <1>3, <1>6, ReliesOnLittle
  <1> QED  BY <1>1, <1>3, <1>4, <1>5, <1>7, ThreadMoves DEF AssIInv

LEMMA FileLockKeeps ==
    ASSUME AssParameters, AssIInv, NEW t \in Threads, EA!FileLock(t)
    PROVE  AssIInv'
  <1>1. UNCHANGED <<working, assUsed, ready, dir, done, doubt>> /\ th[t].pc = "lock" /\ lock[th[t].file] = Nothing
    BY DEF EA!FileLock, EA!store
  <1>2. th[t].file \in Files
    BY <1>1 DEF AssIInv, Relies
  <1>3. CASE EA!Answered(t) /\ lock' = lock
    <2>1. /\ th' \in [Threads -> Fontings] /\ \A u \in Threads \ {t} : th'[u] = th[u]
          /\ th'[t].pc \in {"idle", "place", "root"} /\ (th'[t].pc # "idle" => th'[t].file = th[t].file)
          /\ EA!Range(th'[t].stale) \subseteq EA!Range(th[t].stale)
      BY <1>3, AnswersGoOn
    <2>2. StoreTyped' /\ MarksAreTrue'
      BY <1>1, <1>3, <2>1 DEF AssIInv, StoreTyped, MarksAreTrue
    <2>3. WorkIsBounded'
      BY <1>1, <2>1, WorkStays
    <2>4. Relies(th'[t], t, lock', dir', done', ready') /\ ~Undisturbed(th'[t])
      BY <1>2, <2>1, ReliesOnLittle
    <2> QED  BY <1>1, <1>3, <2>1, <2>2, <2>3, <2>4, ThreadMoves DEF AssIInv
  <1>4. CASE EA!Go(t, "probe") /\ lock' = [lock EXCEPT ![th[t].file] = t]
    <2>1. /\ th' \in [Threads -> Fontings] /\ \A u \in Threads \ {t} : th'[u] = th[u]
          /\ th'[t].pc = "probe" /\ th'[t].file = th[t].file /\ th'[t].stale = th[t].stale
      BY <1>4, GoesOn DEF AssPcs
    <2>2. /\ lock' \in [Files -> Threads \cup {Nothing}] /\ lock'[th[t].file] = t
          /\ \A u \in Threads \ {t} : Relies(th[u], u, lock', dir, done, ready)
      BY <1>1, <1>2, <1>4, LockHurtsNobody
    <2>3. StoreTyped' /\ MarksAreTrue'
      BY <1>1, <2>1, <2>2 DEF AssIInv, StoreTyped, MarksAreTrue
    <2>4. WorkIsBounded'
      BY <1>1, <2>1, WorkStays
    <2>5. Relies(th'[t], t, lock', dir', done', ready') /\ ~Undisturbed(th'[t])
      BY <1>2, <2>1, <2>2 DEF Relies, Undisturbed, Dumping, Serving
    <2>6. \A u \in Threads : Relies(th'[u], u, lock', dir', done', ready')
      BY <1>1, <2>1, <2>2, <2>5
    <2> QED  BY <2>1, <2>3, <2>4, <2>5, <2>6, ThreadMoves
  <1> QED  BY <1>3, <1>4 DEF EA!FileLock

LEMMA ProbeKeeps ==
    ASSUME AssParameters, AssIInv, NEW t \in Threads, EA!Probe(t)
    PROVE  AssIInv'
  <1>1. UNCHANGED <<working, assUsed, ready, dir, done, doubt>> /\ th[t].pc = "probe" /\ EA!Unlock(th[t].file)
    BY DEF EA!Probe, EA!store
  <1>2. th[t].file \in Files
    BY <1>1 DEF AssIInv, Relies
  <1>3. EA!Answered(t) \/ EA!End(t)
    BY DEF EA!Probe
  <1>4. /\ th' \in [Threads -> Fontings] /\ \A u \in Threads \ {t} : th'[u] = th[u]
        /\ th'[t].pc \in {"idle", "place", "root"} /\ (th'[t].pc # "idle" => th'[t].file = th[t].file)
        /\ EA!Range(th'[t].stale) \subseteq EA!Range(th[t].stale)
    BY <1>3, AnswersGoOn, Ends
  <1>5. /\ lock' \in [Files -> Threads \cup {Nothing}]
        /\ \A u \in Threads \ {t} : Relies(th[u], u, lock', dir, done, ready)
    BY <1>1, UnlockHurtsNobody
  <1>6. StoreTyped' /\ MarksAreTrue'
    BY <1>1, <1>4, <1>5 DEF AssIInv, StoreTyped, MarksAreTrue
  <1>7. WorkIsBounded'
    BY <1>1, <1>4, WorkStays
  <1>8. Relies(th'[t], t, lock', dir', done', ready') /\ ~Undisturbed(th'[t])
    BY <1>2, <1>4, ReliesOnLittle
  <1>9. \A u \in Threads : Relies(th'[u], u, lock', dir', done', ready')
    BY <1>1, <1>4, <1>5, <1>8
  <1> QED  BY <1>4, <1>6, <1>7, <1>8, <1>9, ThreadMoves

----------------------------------------------------------------------------
\* A place for ffmpeg is taken, ...
LEMMA AcquireKeeps ==
    ASSUME AssParameters, AssIInv, NEW t \in Threads, EA!Acquire(t)
    PROVE  AssIInv'
  <1>1. /\ UNCHANGED <<lock, assUsed, ready, dir, done, doubt>> /\ th[t].pc \in {"place", "dump"}
        /\ EA!Cardinality(working) < Work /\ working' = working \cup {t}
    BY DEF EA!Acquire, EA!memory, EA!store
  <1>2. /\ th' \in [Threads -> Fontings] /\ \A u \in Threads \ {t} : th'[u] = th[u]
        /\ th'[t].pc = (IF th[t].pc = "place" THEN "cut" ELSE "write") /\ th'[t].file = th[t].file
        /\ th'[t].stale = th[t].stale /\ th'[t].crossed = th[t].crossed
    <2>1. CASE th[t].pc = "place"
      <3>1. EA!Go(t, "cut")
        BY <2>1 DEF EA!Acquire
      <3> QED  BY <2>1, <3>1, GoesOn DEF AssPcs
    <2>2. CASE th[t].pc = "dump"
      <3>1. EA!Go(t, "write")
        BY <2>2 DEF EA!Acquire
      <3> QED  BY <2>2, <3>1, GoesOn DEF AssPcs
    <2> QED  BY <1>1, <2>1, <2>2
  <1>3. StoreTyped' /\ MarksAreTrue'
    BY <1>1, <1>2 DEF AssIInv, StoreTyped, MarksAreTrue
  <1>4. WorkIsBounded'
    BY <1>1, <1>2, WorkBegins
  <1>5. Relies(th[t], t, lock, dir, done, ready)
    BY DEF AssIInv
  <1>6. Relies(th'[t], t, lock, dir, done, ready) /\ (Undisturbed(th'[t]) => Undisturbed(th[t]))
    BY <1>1, <1>2, <1>5 DEF Relies, Undisturbed, Dumping, Serving
  <1> QED  BY <1>1, <1>2, <1>3, <1>4, <1>6, ThreadMoves DEF AssIInv

\* ... or there is none, ...
LEMMA BusyKeeps ==
    ASSUME AssParameters, AssIInv, NEW t \in Threads, EA!Busy(t)
    PROVE  AssIInv'
  <1>1. /\ UNCHANGED <<working, assUsed, ready, dir, done, doubt>> /\ th[t].pc \in {"place", "dump"} /\ EA!End(t)
        /\ (th[t].pc = "dump" => EA!Unlock(th[t].file)) /\ (th[t].pc = "place" => lock' = lock)
    BY DEF EA!Busy, EA!memory, EA!store
  <1>2. /\ th' \in [Threads -> Fontings] /\ \A u \in Threads \ {t} : th'[u] = th[u]
        /\ th'[t].pc = "idle" /\ EA!Range(th'[t].stale) = {}
    BY <1>1, Ends
  <1>3. /\ lock' \in [Files -> Threads \cup {Nothing}]
        /\ \A u \in Threads \ {t} : Relies(th[u], u, lock', dir, done, ready)
    <2>1. CASE th[t].pc = "dump"
      BY <1>1, <2>1, UnlockHurtsNobody DEF Dumping
    <2>2. CASE th[t].pc = "place"
      BY <1>1, <2>2 DEF AssIInv, StoreTyped
    <2> QED  BY <1>1, <2>1, <2>2
  <1>4. StoreTyped' /\ MarksAreTrue'
    BY <1>1, <1>2, <1>3 DEF AssIInv, StoreTyped, MarksAreTrue
  <1>5. WorkIsBounded'
    BY <1>1, <1>2, WorkStays
  <1>6. Relies(th'[t], t, lock', dir', done', ready') /\ ~Undisturbed(th'[t])
    BY <1>2, ReliesOnLittle
  <1>7. \A u \in Threads : Relies(th'[u], u, lock', dir', done', ready')
    BY <1>1, <1>2, <1>3, <1>6
  <1> QED  BY <1>2, <1>4, <1>5, <1>6, <1>7, ThreadMoves

\* ... and it is given back with the window.
LEMMA CutWindowKeeps ==
    ASSUME AssParameters, AssIInv, NEW t \in Threads, EA!CutWindow(t)
    PROVE  AssIInv'
  <1>1. UNCHANGED <<lock, assUsed, ready, dir, done, doubt>> /\ EA!End(t) /\ working' = working \ {t}
    BY DEF EA!CutWindow, EA!memory, EA!store
  <1>2. /\ th' \in [Threads -> Fontings] /\ \A u \in Threads \ {t} : th'[u] = th[u]
        /\ th'[t].pc = "idle" /\ EA!Range(th'[t].stale) = {}
    BY <1>1, Ends
  <1>3. StoreTyped' /\ MarksAreTrue'
    BY <1>1, <1>2 DEF AssIInv, StoreTyped, MarksAreTrue
  <1>4. WorkIsBounded'
    BY <1>1, <1>2, WorkEnds
  <1>5. Relies(th'[t], t, lock', dir', done', ready') /\ ~Undisturbed(th'[t])
    BY <1>2, ReliesOnLittle
  <1> QED  BY <1>1, <1>2, <1>3, <1>4, <1>5, ThreadMoves DEF AssIInv

----------------------------------------------------------------------------
\* The root of the fonts is emptied when nobody has a directory in it yet.
LEMMA FontRootKeeps ==
    ASSUME AssParameters, AssIInv, NEW t \in Threads, EA!FontRoot(t)
    PROVE  AssIInv'
  <1>1. /\ th[t].pc = "root" /\ EA!Go(t, "fonts") /\ ready' = TRUE
        /\ UNCHANGED <<lock, working, assUsed, doubt>>
        /\ (ready => UNCHANGED <<dir, done>>)
        /\ (~ready => dir' = [f \in Files |-> "absent"] /\ done' = {})
    BY DEF EA!FontRoot, EA!store
  <1>2. /\ th' \in [Threads -> Fontings] /\ \A u \in Threads \ {t} : th'[u] = th[u]
        /\ th'[t].pc = "fonts" /\ th'[t].file = th[t].file /\ th'[t].stale = th[t].stale
    BY <1>1, GoesOn DEF AssPcs
  <1>3. StoreTyped'
    BY <1>1, <1>2 DEF AssIInv, StoreTyped
  <1>4. MarksAreTrue'
    BY <1>1 DEF AssIInv, StoreTyped, MarksAreTrue
  <1>5. WorkIsBounded'
    BY <1>1, <1>2, WorkStays
  <1>6. ASSUME NEW u \in Threads
        PROVE  Relies(th'[u], u, lock', dir', done', ready')
    <2>1. Relies(th[u], u, lock, dir, done, ready)
      BY DEF AssIInv
    <2>2. CASE u = t
      BY <1>1, <1>2, <2>1, <2>2 DEF Relies, Dumping, Serving
    <2>3. CASE u # t /\ ready
      BY <1>1, <1>2, <2>1, <2>3 DEF Relies
    <2>4. CASE u # t /\ ~ready
      BY <1>1, <1>2, <2>1, <2>4 DEF Relies, Dumping, Serving
    <2> QED  BY <2>2, <2>3, <2>4 DEF AssIInv, StoreTyped
  <1>7. ~Undisturbed(th'[t])
    BY <1>2 DEF Undisturbed, Dumping, Serving
  <1> QED  BY <1>2, <1>3, <1>4, <1>5, <1>6, <1>7, ThreadMoves

\* A directory that is not marked, under the lock that t holds or takes, is nobody else's.
LEMMA OwnDirectory ==
    ASSUME AssIInv, NEW t \in Threads, NEW f \in Files, f \notin done,
           lock[f] = t \/ lock[f] = Nothing, Nothing \notin Threads,
           NEW dirs, \A g \in Files \ {f} : dirs[g] = dir[g],
           NEW locks, NEW u \in Threads \ {t}, Relies(th[u], u, locks, dir, done, ready)
    PROVE  Relies(th[u], u, locks, dirs, done, ready)
  <1>1. th[u].pc \in Dumping => th[u].file # f
    BY DEF AssIInv, Relies
  <1> QED  BY <1>1 DEF Relies, Dumping, Serving

LEMMA FontsDirKeeps ==
    ASSUME AssParameters, AssIInv, NEW t \in Threads, EA!FontsDir(t)
    PROVE  AssIInv'
  <1>1. PICK f : f = th[t].file
    OBVIOUS
  <1>2. /\ th[t].pc = "fonts" /\ lock[f] = Nothing
        /\ th' = [th EXCEPT ![t].pc = IF f \in done THEN "touch" ELSE "dump",
                            ![t].crossed = EA!Dropped(f) \/ f \in done \cap doubt]
        /\ UNCHANGED <<working, assUsed, ready, done, doubt>>
        /\ f \in done => UNCHANGED <<lock, dir>>
        /\ f \notin done => lock' = [lock EXCEPT ![f] = t] /\ dir' = [dir EXCEPT ![f] = "empty"]
    BY <1>1 DEF EA!FontsDir, EA!Fill, EA!memory, EA!store
  <1>3. PICK pc \in {"touch", "dump"} : pc = IF f \in done THEN "touch" ELSE "dump"
    OBVIOUS
  <1>4. PICK x \in BOOLEAN : x = (EA!Dropped(f) \/ f \in done \cap doubt)
    BY DEF EA!Dropped
  <1>5. /\ th' \in [Threads -> Fontings] /\ \A u \in Threads \ {t} : th'[u] = th[u]
        /\ th'[t].pc = pc /\ th'[t].file = f /\ th'[t].stale = th[t].stale /\ th'[t].crossed = x
    <2>1. th \in [Threads -> Fontings] /\ th[t] \in Fontings
      BY DEF AssIInv, StoreTyped
    <2>2. PICK r : r = [th[t] EXCEPT !.pc = pc, !.crossed = x]
      OBVIOUS
    <2>3. /\ r \in Fontings /\ r.pc = pc /\ r.file = th[t].file /\ r.stale = th[t].stale
          /\ r.crossed = x
      BY <2>1, <2>2 DEF Fontings, AssPcs
    <2>4. th' = [th EXCEPT ![t] = r]
      BY <1>2, <1>3, <1>4, <2>1, <2>2
    <2> QED  BY <1>1, <2>1, <2>3, <2>4
  <1>6. f \in Files /\ ready
    BY <1>1, <1>2 DEF AssIInv, Relies
  <1>7. WorkIsBounded'
    BY <1>2, <1>3, <1>5, WorkStays
  <1>8. Undisturbed(th'[t]) => ~EA!Dropped(f)
    BY <1>4, <1>5 DEF Undisturbed
  <1>9. CASE f \in done
    <2>1. StoreTyped' /\ MarksAreTrue'
      BY <1>2, <1>5, <1>9 DEF AssIInv, StoreTyped, MarksAreTrue
    <2>2. ~x => dir[f] = "whole"
      BY <1>4, <1>6, <1>9 DEF AssIInv, MarksAreTrue
    <2>3. Relies(th'[t], t, lock', dir', done', ready')
      BY <1>2, <1>3, <1>5, <1>6, <1>9, <2>2 DEF Relies, Dumping, Serving
    <2>4. \A u \in Threads : Relies(th'[u], u, lock', dir', done', ready')
      BY <1>2, <1>5, <1>9, <2>3 DEF AssIInv
    <2> QED  BY <1>5, <1>7, <1>8, <2>1, <2>4, ThreadMoves
  <1>10. CASE f \notin done
    <2>1. /\ lock' \in [Files -> Threads \cup {Nothing}] /\ lock'[f] = t
          /\ \A u \in Threads \ {t} : Relies(th[u], u, lock', dir, done, ready)
      BY <1>2, <1>6, <1>10, LockHurtsNobody
    <2>2. dir' \in [Files -> {"absent", "empty", "part", "whole"}] /\ \A g \in Files \ {f} : dir'[g] = dir[g]
      BY <1>2, <1>6, <1>10 DEF AssIInv, StoreTyped
    <2>3. StoreTyped'
      BY <1>2, <1>5, <2>1, <2>2 DEF AssIInv, StoreTyped
    <2>3a. done' \subseteq Files
      BY <1>2 DEF AssIInv, StoreTyped
    <2>4. MarksAreTrue'
      BY <1>2, <1>10, <2>2, <2>3a DEF AssIInv, MarksAreTrue
    <2>5. Relies(th'[t], t, lock', dir', done', ready')
      BY <1>2, <1>3, <1>5, <1>6, <1>10, <2>1 DEF Relies, Dumping, Serving
    <2>6. ASSUME NEW u \in Threads \ {t}
          PROVE  Relies(th'[u], u, lock', dir', done', ready')
      <3>1. Relies(th[u], u, lock', dir, done, ready)
        BY <2>1
      <3>2. Relies(th[u], u, lock', dir', done, ready)
        BY <1>2, <1>6, <1>10, <2>2, <3>1, OwnDirectory DEF AssParameters
      <3> QED  BY <1>2, <1>5, <3>2
    <2>7. \A u \in Threads : Relies(th'[u], u, lock', dir', done', ready')
      BY <2>5, <2>6
    <2> QED  BY <1>5, <1>7, <1>8, <2>3, <2>4, <2>7, ThreadMoves
  <1> QED  BY <1>9, <1>10

\* ffmpeg leaves all the fonts in the directory, or some, or none.
LEMMA DumpKeeps ==
    ASSUME AssParameters, AssIInv, NEW t \in Threads, EA!Dump(t)
    PROVE  AssIInv'
  <1>1. PICK f : f = th[t].file
    OBVIOUS
  <1>2. /\ th[t].pc = "write" /\ working' = working \ {t} /\ UNCHANGED <<assUsed, ready, done, doubt>>
        /\ \/ dir' = [dir EXCEPT ![f] = "whole"] /\ EA!Go(t, "check") /\ lock' = lock
           \/ /\ \E left \in {dir[f], IF dir[f] = "absent" THEN "absent" ELSE "part"} : dir' = [dir EXCEPT ![f] = left]
              /\ EA!End(t) /\ EA!Unlock(f)
    BY <1>1 DEF EA!Dump, EA!memory
  <1>3. f \in Files /\ f \notin done /\ lock[f] = t /\ ready /\ done \subseteq Files
    BY <1>1, <1>2 DEF AssIInv, StoreTyped, Relies, Dumping
  <1>4. dir' \in [Files -> {"absent", "empty", "part", "whole"}] /\ \A g \in Files \ {f} : dir'[g] = dir[g]
    BY <1>2, <1>3 DEF AssIInv, StoreTyped
  <1>5. MarksAreTrue'
    BY <1>2, <1>3, <1>4 DEF AssIInv, MarksAreTrue
  <1>6. ASSUME NEW u \in Threads \ {t}, NEW locks, Relies(th[u], u, locks, dir, done, ready)
        PROVE  Relies(th[u], u, locks, dir', done', ready')
    <2>1. Relies(th[u], u, locks, dir', done, ready)
      BY <1>3, <1>4, <1>6, OwnDirectory DEF AssParameters
    <2> QED  BY <1>2, <2>1
  <1>7. CASE EA!Go(t, "check") /\ lock' = lock
    <2>1. /\ th' \in [Threads -> Fontings] /\ \A u \in Threads \ {t} : th'[u] = th[u]
          /\ th'[t].pc = "check" /\ th'[t].file = f /\ th'[t].stale = th[t].stale /\ th'[t].crossed = th[t].crossed
      BY <1>1, <1>7, GoesOn DEF AssPcs
    <2>2. StoreTyped'
      BY <1>2, <1>4, <1>7, <2>1 DEF AssIInv, StoreTyped
    <2>3. WorkIsBounded'
      BY <1>2, <2>1, WorkEnds
    <2>4. Relies(th'[t], t, lock', dir', done', ready')
      BY <1>2, <1>3, <1>7, <2>1 DEF Relies, Dumping, Serving
    <2>5. \A u \in Threads : Relies(th'[u], u, lock', dir', done', ready')
      BY <1>6, <1>7, <2>1, <2>4 DEF AssIInv
    <2>6. Undisturbed(th'[t]) => Undisturbed(th[t])
      BY <1>2, <2>1 DEF Undisturbed, Dumping, Serving
    <2> QED  BY <1>1, <1>5, <2>1, <2>2, <2>3, <2>5, <2>6, ThreadMoves
  <1>8. CASE EA!End(t) /\ EA!Unlock(f)
    <2>1. /\ th' \in [Threads -> Fontings] /\ \A u \in Threads \ {t} : th'[u] = th[u]
          /\ th'[t].pc = "idle" /\ EA!Range(th'[t].stale) = {}
      BY <1>8, Ends
    <2>2. /\ lock' \in [Files -> Threads \cup {Nothing}]
          /\ \A u \in Threads \ {t} : Relies(th[u], u, lock', dir, done, ready)
      BY <1>1, <1>2, <1>8, UnlockHurtsNobody DEF Dumping
    <2>3. StoreTyped'
      BY <1>2, <1>4, <2>1, <2>2 DEF AssIInv, StoreTyped
    <2>4. WorkIsBounded'
      BY <1>2, <2>1, WorkEnds
    <2>5. Relies(th'[t], t, lock', dir', done', ready') /\ ~Undisturbed(th'[t])
      BY <2>1, ReliesOnLittle
    <2>6. \A u \in Threads : Relies(th'[u], u, lock', dir', done', ready')
      BY <1>6, <2>1, <2>2, <2>5
    <2> QED  BY <1>5, <2>1, <2>3, <2>4, <2>5, <2>6, ThreadMoves
  <1> QED  BY <1>2, <1>7, <1>8

\* The dump is not complete, or the directory is gone: the request fails.
LEMMA GiveUpKeeps ==
    ASSUME AssParameters, AssIInv, NEW t \in Threads, th[t].pc \in {"check", "mark"},
           EA!End(t), EA!Unlock(th[t].file), UNCHANGED <<working, assUsed, ready, dir, done, doubt>>
    PROVE  AssIInv'
  <1>1. /\ th' \in [Threads -> Fontings] /\ \A u \in Threads \ {t} : th'[u] = th[u]
        /\ th'[t].pc = "idle" /\ EA!Range(th'[t].stale) = {}
    BY Ends
  <1>2. /\ lock' \in [Files -> Threads \cup {Nothing}]
        /\ \A u \in Threads \ {t} : Relies(th[u], u, lock', dir, done, ready)
    BY UnlockHurtsNobody DEF Dumping
  <1>3. StoreTyped' /\ MarksAreTrue'
    BY <1>1, <1>2 DEF AssIInv, StoreTyped, MarksAreTrue
  <1>4. WorkIsBounded'
    BY <1>1, WorkStays
  <1>5. Relies(th'[t], t, lock', dir', done', ready') /\ ~Undisturbed(th'[t])
    BY <1>1, ReliesOnLittle
  <1>6. \A u \in Threads : Relies(th'[u], u, lock', dir', done', ready')
    BY <1>1, <1>2, <1>5
  <1> QED  BY <1>1, <1>3, <1>4, <1>5, <1>6, ThreadMoves

LEMMA CheckKeeps ==
    ASSUME AssParameters, AssIInv, NEW t \in Threads, EA!Check(t)
    PROVE  AssIInv'
  <1>1. th[t].pc = "check" /\ UNCHANGED <<working, assUsed, ready, dir, done, doubt>>
    BY DEF EA!Check, EA!memory, EA!store
  <1>2. CASE dir[th[t].file] = "whole"
    <2>1. lock' = lock /\ EA!Go(t, "mark")
      BY <1>2 DEF EA!Check
    <2>2. /\ th' \in [Threads -> Fontings] /\ \A u \in Threads \ {t} : th'[u] = th[u]
          /\ th'[t].pc = "mark" /\ th'[t].file = th[t].file /\ th'[t].stale = th[t].stale
          /\ th'[t].crossed = th[t].crossed
      BY <2>1, GoesOn DEF AssPcs
    <2>3. StoreTyped' /\ MarksAreTrue'
      BY <1>1, <2>1, <2>2 DEF AssIInv, StoreTyped, MarksAreTrue
    <2>4. WorkIsBounded'
      BY <1>1, <2>2, WorkStays
    <2>5. Relies(th[t], t, lock, dir, done, ready)
      BY DEF AssIInv
    <2>6. Relies(th'[t], t, lock, dir, done, ready) /\ (Undisturbed(th'[t]) => Undisturbed(th[t]))
      BY <1>1, <1>2, <2>2, <2>5 DEF Relies, Undisturbed, Dumping, Serving
    <2> QED  BY <1>1, <2>1, <2>2, <2>3, <2>4, <2>6, ThreadMoves DEF AssIInv
  <1>3. CASE dir[th[t].file] # "whole"
    BY <1>1, <1>3, GiveUpKeeps DEF EA!Check
  <1> QED  BY <1>2, <1>3

LEMMA MarkKeeps ==
    ASSUME AssParameters, AssIInv, NEW t \in Threads, EA!Mark(t)
    PROVE  AssIInv'
  <1>1. PICK f : f = th[t].file
    OBVIOUS
  <1>2. th[t].pc = "mark" /\ UNCHANGED <<working, assUsed, ready, dir>> /\ EA!Unlock(f)
    BY <1>1 DEF EA!Mark, EA!memory
  <1>3. CASE dir[f] = "absent"
    BY <1>1, <1>2, <1>3, GiveUpKeeps DEF EA!Mark
  <1>4. CASE dir[f] # "absent"
    <2>1. /\ EA!Go(t, "touch") /\ done' = done \cup {f}
          /\ doubt' = IF th[t].crossed THEN doubt \cup {f} ELSE doubt \ {f}
      BY <1>1, <1>4 DEF EA!Mark
    <2>2. /\ th' \in [Threads -> Fontings] /\ \A u \in Threads \ {t} : th'[u] = th[u]
          /\ th'[t].pc = "touch" /\ th'[t].file = f /\ th'[t].stale = th[t].stale /\ th'[t].crossed = th[t].crossed
      BY <1>1, <2>1, GoesOn DEF AssPcs
    <2>3. f \in Files /\ lock[f] = t /\ ready /\ (~th[t].crossed => dir[f] = "whole")
      BY <1>1, <1>2 DEF AssIInv, Relies, Dumping
    <2>4. /\ lock' \in [Files -> Threads \cup {Nothing}]
          /\ \A u \in Threads \ {t} : Relies(th[u], u, lock', dir, done, ready)
      BY <1>1, <1>2, UnlockHurtsNobody DEF Dumping
    <2>5. StoreTyped'
      BY <1>2, <2>1, <2>2, <2>3, <2>4 DEF AssIInv, StoreTyped
    <2>6. MarksAreTrue'
      BY <1>2, <2>1, <2>3 DEF AssIInv, MarksAreTrue
    <2>7. WorkIsBounded'
      BY <1>2, <2>2, WorkStays
    <2>8. Relies(th'[t], t, lock', dir', done', ready')
      BY <1>2, <2>1, <2>2, <2>3 DEF Relies, Dumping, Serving
    <2>9. ASSUME NEW u \in Threads \ {t}
          PROVE  Relies(th'[u], u, lock', dir', done', ready')
      <3>1. Relies(th[u], u, lock', dir, done, ready) /\ (th[u].pc \in Dumping => lock[th[u].file] = u)
        BY <2>4 DEF AssIInv, Relies
      <3>2. Relies(th[u], u, lock', dir, done \cup {f}, ready)
        BY <2>3, <3>1 DEF Relies, Dumping, Serving
      <3> QED  BY <1>2, <2>1, <2>2, <3>2
    <2>10. Undisturbed(th'[t]) => Undisturbed(th[t])
      BY <1>2, <2>2 DEF Undisturbed, Dumping, Serving
    <2> QED  BY <1>1, <2>2, <2>5, <2>6, <2>7, <2>8, <2>9, <2>10, ThreadMoves
  <1> QED  BY <1>3, <1>4

----------------------------------------------------------------------------
\* A file is taken out of the order of use, ...
LEMMA WithoutOne ==
    ASSUME NEW order \in Seq(Files), Once(order), NEW f
    PROVE  /\ EA!Without(order, f) \in Seq(Files) /\ Once(EA!Without(order, f))
           /\ \A i \in 1..Len(EA!Without(order, f)) : EA!Without(order, f)[i] # f
  <1>0. Len(order) \in Nat /\ DOMAIN order = 1..Len(order)
    OBVIOUS
  <1>1. CASE f \notin EA!Range(order)
    BY <1>0, <1>1 DEF EA!Without, EA!Range
  <1>2. CASE f \in EA!Range(order)
    <2>1. PICK i : i = CHOOSE j \in DOMAIN order : order[j] = f
      OBVIOUS
    <2>2. i \in 1..Len(order) /\ order[i] = f
      BY <1>0, <1>2, <2>1 DEF EA!Range
    <2>3. PICK w : w = SubSeq(order, 1, i - 1) \o SubSeq(order, i + 1, Len(order))
      OBVIOUS
    <2>4. EA!Without(order, f) = w
      BY <1>2, <2>1, <2>3 DEF EA!Without, EA!RemoveAt
    <2>5. /\ SubSeq(order, 1, i - 1) \in Seq(Files) /\ Len(SubSeq(order, 1, i - 1)) = i - 1
          /\ \A j \in 1..(i - 1) : SubSeq(order, 1, i - 1)[j] = order[j]
      BY <1>0, <2>2, SubSeqProperties
    <2>6. /\ SubSeq(order, i + 1, Len(order)) \in Seq(Files) /\ Len(SubSeq(order, i + 1, Len(order))) = Len(order) - i
          /\ \A j \in 1..(Len(order) - i) : SubSeq(order, i + 1, Len(order))[j] = order[i + j]
      <3>a. PICK m : m = i + 1
        OBVIOUS
      <3>b. PICK n : n = Len(order)
        OBVIOUS
      <3>1. m \in Int /\ n \in Nat /\ i \in 1..n /\ m = i + 1 /\ n = Len(order)
        BY <1>0, <2>2, <3>a, <3>b
      <3>2. /\ SubSeq(order, m, n) \in Seq(Files) /\ Len(SubSeq(order, m, n)) = IF m <= n THEN n - m + 1 ELSE 0
            /\ \A j \in 1..(n - m + 1) : SubSeq(order, m, n)[j] = order[m + j - 1]
        <4>1. \A j \in m..n : order[j] \in Files
          BY <1>0, <2>2, <3>1
        <4>2. m \in Int /\ n \in Int
          BY <3>1
        <4> QED  BY <4>1, <4>2, SubSeqProperties
      <3>3. Len(SubSeq(order, m, n)) = Len(order) - i
        <4>1. CASE m <= n
          BY <3>1, <3>2, <4>1
        <4>2. CASE ~(m <= n)
          BY <3>1, <3>2, <4>2
        <4> QED  BY <4>1, <4>2
      <3>4. n - m + 1 = Len(order) - i /\ \A j \in Nat : m + j - 1 = i + j
        BY <1>0, <2>2, <3>1
      <3>5. \A j \in 1..(Len(order) - i) : SubSeq(order, m, n)[j] = order[i + j]
        BY <1>0, <2>2, <3>2, <3>4
      <3> QED  BY <3>1, <3>2, <3>3, <3>5
    <2>7. /\ w \in Seq(Files) /\ Len(w) = Len(order) - 1
          /\ \A j \in 1..Len(w) : w[j] = IF j < i THEN order[j] ELSE order[j + 1]
      <3>1. PICK a : a = SubSeq(order, 1, i - 1)
        OBVIOUS
      <3>2. PICK b : b = SubSeq(order, i + 1, Len(order))
        OBVIOUS
      <3>3. a \in Seq(Files) /\ Len(a) = i - 1 /\ \A j \in 1..(i - 1) : a[j] = order[j]
        BY <2>5, <3>1
      <3>4. b \in Seq(Files) /\ Len(b) = Len(order) - i /\ \A j \in 1..(Len(order) - i) : b[j] = order[i + j]
        BY <2>6, <3>2
      <3>5. w = a \o b /\ w \in Seq(Files) /\ Len(w) = Len(order) - 1
        <4>1. w = a \o b
          BY <2>3, <3>1, <3>2
        <4>2. a \o b \in Seq(Files) /\ Len(a \o b) = Len(a) + Len(b)
          <5>1. a \in Seq(Files) /\ b \in Seq(Files)
            BY <3>3, <3>4
          <5> QED  BY ONLY <5>1, ConcatProperties
        <4> QED  BY <1>0, <2>2, <3>3, <3>4, <4>1, <4>2
      <3>6. ASSUME NEW j \in 1..Len(w)
            PROVE  w[j] = IF j < i THEN order[j] ELSE order[j + 1]
        <4>1. CASE j < i
          <5>1. j \in 1..Len(a)
            BY <2>2, <3>3, <4>1
          <5>2. (a \o b)[j] = a[j]
            BY <3>3, <3>4, <5>1
          <5> QED  BY <2>2, <3>3, <3>5, <4>1, <5>1, <5>2
        <4>2. CASE ~(j < i)
          <5>1. w[j] = b[j - (i - 1)]
            <6>1. j \in (Len(a) + 1)..(Len(a) + Len(b)) /\ Len(a) = i - 1
              BY <1>0, <2>2, <3>3, <3>4, <3>5, <4>2
            <6>2. (a \o b)[j] = b[j - Len(a)]
              BY <3>3, <3>4, <6>1
            <6> QED  BY <3>5, <6>1, <6>2
          <5>2. j - (i - 1) \in 1..(Len(order) - i) /\ i + (j - (i - 1)) = j + 1
            BY <1>0, <2>2, <3>5, <4>2
          <5> QED  BY <3>4, <4>2, <5>1, <5>2
        <4> QED  BY <4>1, <4>2
      <3> QED  BY <3>5, <3>6
    <2>8. \A j \in 1..Len(w) : w[j] # f
      BY <1>0, <2>2, <2>7 DEF Once
    <2>9. Once(w)
      BY <1>0, <2>2, <2>7 DEF Once
    <2> QED  BY <2>4, <2>7, <2>8, <2>9
  <1> QED  BY <1>1, <1>2

\* ... and put at its end.
LEMMA TouchedLast ==
    ASSUME NEW order \in Seq(Files), Once(order), NEW f \in Files
    PROVE  /\ EA!Touch(order, f) \in Seq(Files) \ {<<>>} /\ Once(EA!Touch(order, f))
           /\ EA!Touch(order, f)[Len(EA!Touch(order, f))] = f
  <1>1. PICK w : w = EA!Without(order, f)
    OBVIOUS
  <1>2. w \in Seq(Files) /\ Once(w) /\ \A i \in 1..Len(w) : w[i] # f
    BY <1>1, WithoutOne
  <1>3. EA!Touch(order, f) = Append(w, f)
    BY <1>1 DEF EA!Touch
  <1>4. /\ Append(w, f) \in Seq(Files) /\ Len(Append(w, f)) = Len(w) + 1 /\ Len(w) \in Nat
        /\ Append(w, f)[Len(w) + 1] = f /\ \A i \in 1..Len(w) : Append(w, f)[i] = w[i]
    BY <1>2
  <1>5. Once(Append(w, f))
    <2> SUFFICES ASSUME NEW i \in 1..(Len(w) + 1), NEW j \in 1..(Len(w) + 1), Append(w, f)[i] = Append(w, f)[j]
                 PROVE  i = j
      BY <1>4 DEF Once
    <2>1. CASE i \in 1..Len(w) /\ j \in 1..Len(w)
      BY <1>2, <1>4, <2>1 DEF Once
    <2>2. CASE i = Len(w) + 1 /\ j \in 1..Len(w)
      BY <1>2, <1>4, <2>2
    <2>3. CASE j = Len(w) + 1 /\ i \in 1..Len(w)
      BY <1>2, <1>4, <2>3
    <2> QED  BY <1>4, <2>1, <2>2, <2>3
  <1>6. Append(w, f) # <<>>
    BY <1>4
  <1> QED  BY <1>3, <1>4, <1>5, <1>6

\* Of the order of use a beginning is given up, but never the file that was used last.
LEMMA StaleIsOthers ==
    ASSUME NEW order \in Seq(Files) \ {<<>>}, Once(order), NEW over \in 0..(Len(order) - 1)
    PROVE  /\ SubSeq(order, 1, over) \in Seq(Files) /\ order[Len(order)] \notin EA!Range(SubSeq(order, 1, over))
           /\ SubSeq(order, over + 1, Len(order)) \in Seq(Files) /\ Once(SubSeq(order, over + 1, Len(order)))
  <1>0. Len(order) \in Nat \ {0}
    OBVIOUS
  <1>1. PICK a : a = SubSeq(order, 1, over)
    OBVIOUS
  <1>2. PICK b : b = SubSeq(order, over + 1, Len(order))
    OBVIOUS
  <1>3. a \in Seq(Files) /\ Len(a) = over /\ \A j \in 1..over : a[j] = order[j]
    BY <1>0, <1>1, SubSeqProperties
  <1>4. b \in Seq(Files) /\ Len(b) = Len(order) - over /\ \A j \in 1..(Len(order) - over) : b[j] = order[over + j]
    BY <1>0, <1>2, SubSeqProperties
  <1>5. order[Len(order)] \notin EA!Range(a)
    BY <1>0, <1>3 DEF EA!Range, Once
  <1>6. Once(b)
    BY <1>0, <1>4 DEF Once
  <1> QED  BY <1>1, <1>2, <1>3, <1>4, <1>5, <1>6

\* The fonts that are over the limit are given up: whoever works on them is crossed.
LEMMA TouchFontsKeeps ==
    ASSUME AssParameters, AssIInv, NEW t \in Threads, EA!TouchFonts(t)
    PROVE  AssIInv'
  <1>1. PICK f : f = th[t].file
    OBVIOUS
  <1>2. PICK order : order = EA!Touch(assUsed, f)
    OBVIOUS
  <1>3. PICK over : over = IF Len(order) > FontsKeep THEN Len(order) - FontsKeep ELSE 0
    OBVIOUS
  <1>4. PICK stale : stale = SubSeq(order, 1, over)
    OBVIOUS
  <1>5. /\ th[t].pc = "touch" /\ assUsed' = SubSeq(order, over + 1, Len(order))
        /\ th' = [u \in Threads |->
                    IF u = t THEN [th[t] EXCEPT !.pc = "drop", !.stale = stale]
                    ELSE [th[u] EXCEPT !.crossed = @ \/ th[u].file \in EA!Range(stale)]]
        /\ UNCHANGED <<ready, lock, working, dir, done, doubt>>
    BY <1>1, <1>2, <1>3, <1>4 DEF EA!TouchFonts, EA!store
  <1>6. f \in Files
    BY <1>1, <1>5 DEF AssIInv, Relies
  <1>7. order \in Seq(Files) \ {<<>>} /\ Once(order) /\ order[Len(order)] = f
    BY <1>2, <1>6, TouchedLast DEF AssIInv, StoreTyped
  <1>8. over \in 0..(Len(order) - 1)
    <2>1. Len(order) \in Nat \ {0}
      BY <1>7
    <2> QED  BY <1>3, <2>1 DEF AssParameters
  <1>9. stale \in Seq(Files) /\ f \notin EA!Range(stale) /\ assUsed' \in Seq(Files) /\ Once(assUsed')
    BY <1>4, <1>5, <1>7, <1>8, StaleIsOthers
  <1>10. /\ th'[t] \in Fontings /\ th'[t].pc = "drop" /\ th'[t].stale = stale /\ th'[t].file = f
         /\ th'[t].crossed = th[t].crossed
    BY <1>1, <1>5, <1>9 DEF AssIInv, StoreTyped, Fontings, AssPcs
  <1>11. ASSUME NEW u \in Threads \ {t}
         PROVE  /\ th'[u] \in Fontings /\ th'[u].pc = th[u].pc /\ th'[u].file = th[u].file
                /\ th'[u].stale = th[u].stale
                /\ th'[u].crossed = (th[u].crossed \/ th[u].file \in EA!Range(stale))
    <2>1. PICK x \in BOOLEAN : x = (th[u].crossed \/ th[u].file \in EA!Range(stale))
      BY DEF AssIInv, StoreTyped, Fontings
    <2>2. th'[u] = [th[u] EXCEPT !.crossed = x]
      BY <1>5, <2>1
    <2>3. th[u] \in Fontings
      BY DEF AssIInv, StoreTyped
    <2> QED  BY <2>1, <2>2, <2>3 DEF Fontings
  <1>12. StoreTyped'
    <2>1. DOMAIN th' = Threads /\ th' = [u \in Threads |-> th'[u]]
      BY <1>5
    <2>2. th' \in [Threads -> Fontings]
      BY <1>10, <1>11, <2>1
    <2> QED  BY <1>5, <1>9, <2>2 DEF AssIInv, StoreTyped
  <1>13. MarksAreTrue'
    BY <1>5 DEF AssIInv, MarksAreTrue
  <1>14. WorkIsBounded'
    <2>1. Cuts' = Cuts
      BY <1>5, <1>10, <1>11 DEF Cuts
    <2> QED  BY <1>5, <2>1 DEF AssIInv, WorkIsBounded
  <1>15. ASSUME NEW u \in Threads
         PROVE  Relies(th'[u], u, lock', dir', done', ready')
    <2>1. Relies(th[u], u, lock, dir, done, ready)
      BY DEF AssIInv
    <2>2. CASE u = t
      BY <1>1, <1>5, <1>6, <1>10, <2>1, <2>2 DEF Relies, Dumping, Serving
    <2>3. CASE u # t
      <3>1. /\ th'[u].pc = th[u].pc /\ th'[u].file = th[u].file /\ th'[u].stale = th[u].stale
            /\ ~th'[u].crossed => ~th[u].crossed
        BY <1>11, <2>3
      <3>2. Relies(th'[u], u, lock, dir, done, ready)
        BY <2>1, <3>1 DEF Relies
      <3> QED  BY <1>5, <3>2
    <2> QED  BY <2>2, <2>3
  <1>16. NoneGivenUp'
    <2> SUFFICES ASSUME NEW v \in Threads, NEW u \in Threads, Undisturbed(th'[v])
                 PROVE  th'[v].file \notin EA!Range(th'[u].stale)
      BY DEF NoneGivenUp
    <2>1. Undisturbed(th[v]) /\ th'[v].file = th[v].file
      BY <1>1, <1>5, <1>10, <1>11 DEF Undisturbed, Dumping, Serving
    <2>2. th[v].file \notin EA!Range(th[u].stale)
      BY <2>1 DEF AssIInv, NoneGivenUp
    <2>3. CASE u # t
      BY <1>11, <2>1, <2>2, <2>3
    <2>4. CASE u = t /\ v = t
      BY <1>9, <1>10, <2>4
    <2>5. CASE u = t /\ v # t
      BY <1>10, <1>11, <2>5 DEF Undisturbed
    <2> QED  BY <2>3, <2>4, <2>5
  <1> QED  BY <1>12, <1>13, <1>14, <1>15, <1>16 DEF AssIInv

\* The first of the files that were given up is nobody's who is undisturbed.
LEMMA GivenUpIsNobodys ==
    ASSUME AssIInv, NEW t \in Threads, th[t].stale # <<>>
    PROVE  /\ Head(th[t].stale) \in Files /\ \A u \in Threads : Undisturbed(th[u]) => th[u].file # Head(th[t].stale)
           /\ Tail(th[t].stale) \in Seq(Files) /\ EA!Range(Tail(th[t].stale)) \subseteq EA!Range(th[t].stale)
  <1>1. PICK s : s = th[t].stale
    OBVIOUS
  <1>2. s \in Seq(Files) /\ s # <<>>
    BY <1>1 DEF AssIInv, StoreTyped, Fontings
  <1>3. /\ Head(s) = s[1] /\ Tail(s) \in Seq(Files) /\ Len(s) \in Nat \ {0} /\ DOMAIN s = 1..Len(s)
        /\ DOMAIN Tail(s) = 1..(Len(s) - 1) /\ \A i \in 1..(Len(s) - 1) : Tail(s)[i] = s[i + 1]
    BY <1>2
  <1>4. Head(s) \in Files /\ Head(s) \in EA!Range(s)
    BY <1>2, <1>3 DEF EA!Range
  <1>5. EA!Range(Tail(s)) \subseteq EA!Range(s)
    BY <1>3 DEF EA!Range
  <1>6. \A u \in Threads : Undisturbed(th[u]) => th[u].file # Head(s)
    BY <1>1, <1>4 DEF AssIInv, NoneGivenUp
  <1> QED  BY <1>1, <1>3, <1>4, <1>5, <1>6

\* Of a directory that is given up the files go with the mark, ...
LEMMA DropFilesKeeps ==
    ASSUME AssParameters, AssIInv, NEW t \in Threads, EA!DropFiles(t)
    PROVE  AssIInv'
  <1>1. PICK f : f = Head(th[t].stale)
    OBVIOUS
  <1>2. /\ th[t].pc = "drop" /\ th[t].stale # <<>> /\ EA!Go(t, "rmdir")
        /\ dir' = [dir EXCEPT ![f] = IF @ = "absent" THEN @ ELSE "empty"] /\ done' = done \ {f}
        /\ UNCHANGED <<assUsed, ready, lock, working, doubt>>
    BY <1>1 DEF EA!DropFiles, EA!memory
  <1>3. f \in Files /\ \A u \in Threads : Undisturbed(th[u]) => th[u].file # f
    BY <1>1, <1>2, GivenUpIsNobodys
  <1>4. /\ th' \in [Threads -> Fontings] /\ \A u \in Threads \ {t} : th'[u] = th[u]
        /\ th'[t].pc = "rmdir" /\ th'[t].file = th[t].file /\ th'[t].stale = th[t].stale
        /\ th'[t].crossed = th[t].crossed
    BY <1>2, GoesOn DEF AssPcs
  <1>5. /\ dir' \in [Files -> {"absent", "empty", "part", "whole"}] /\ \A g \in Files \ {f} : dir'[g] = dir[g]
    BY <1>2, <1>3 DEF AssIInv, StoreTyped
  <1>6. StoreTyped' /\ MarksAreTrue'
    BY <1>2, <1>4, <1>5 DEF AssIInv, StoreTyped, MarksAreTrue
  <1>7. WorkIsBounded'
    BY <1>2, <1>4, WorkStays
  <1>8. ASSUME NEW u \in Threads
        PROVE  Relies(th'[u], u, lock', dir', done', ready')
    <2>1. Relies(th[u], u, lock, dir, done, ready) /\ (Undisturbed(th[u]) => th[u].file # f)
      BY <1>3 DEF AssIInv
    <2>2. Relies(th[u], u, lock, dir', done \ {f}, ready)
      BY <1>5, <2>1 DEF Relies, Undisturbed, Dumping, Serving
    <2>3. CASE u = t
      BY <1>2, <1>4, <2>2, <2>3 DEF Relies, Dumping, Serving
    <2>4. CASE u # t
      BY <1>2, <1>4, <2>2, <2>4
    <2> QED  BY <2>3, <2>4
  <1>9. Undisturbed(th'[t]) => Undisturbed(th[t])
    BY <1>2, <1>4 DEF Undisturbed, Serving
  <1> QED  BY <1>4, <1>6, <1>7, <1>8, <1>9, ThreadMoves

\* ... and then the directory, unless it has been filled or marked again.
LEMMA DropDirKeeps ==
    ASSUME AssParameters, AssIInv, NEW t \in Threads, EA!DropDir(t)
    PROVE  AssIInv'
  <1>1. PICK f : f = Head(th[t].stale)
    OBVIOUS
  <1>2. PICK rest : rest = Tail(th[t].stale)
    OBVIOUS
  <1>3. /\ th[t].pc = "rmdir" /\ th' = [th EXCEPT ![t].pc = "drop", ![t].stale = rest]
        /\ dir' = [dir EXCEPT ![f] = IF @ = "empty" /\ f \notin done THEN "absent" ELSE @]
        /\ UNCHANGED <<assUsed, ready, lock, working, done, doubt>>
    BY <1>1, <1>2 DEF EA!DropDir, EA!memory
  <1>4. th[t].stale # <<>>
    BY <1>3 DEF AssIInv, Relies
  <1>5. /\ f \in Files /\ \A u \in Threads : Undisturbed(th[u]) => th[u].file # f
        /\ rest \in Seq(Files) /\ EA!Range(rest) \subseteq EA!Range(th[t].stale)
    BY <1>1, <1>2, <1>4, GivenUpIsNobodys
  <1>6. /\ th' \in [Threads -> Fontings] /\ \A u \in Threads \ {t} : th'[u] = th[u]
        /\ th'[t].pc = "drop" /\ th'[t].file = th[t].file /\ th'[t].stale = rest /\ th'[t].crossed = th[t].crossed
    <2>1. th \in [Threads -> Fontings] /\ th[t] \in Fontings
      BY DEF AssIInv, StoreTyped
    <2>2. PICK r : r = [th[t] EXCEPT !.pc = "drop", !.stale = rest]
      OBVIOUS
    <2>3. /\ r \in Fontings /\ r.pc = "drop" /\ r.file = th[t].file /\ r.stale = rest
          /\ r.crossed = th[t].crossed
      BY <1>5, <2>1, <2>2 DEF Fontings, AssPcs
    <2>4. th' = [th EXCEPT ![t] = r]
      BY <1>3, <2>1, <2>2
    <2> QED  BY <2>1, <2>3, <2>4
  <1>7. /\ dir' \in [Files -> {"absent", "empty", "part", "whole"}] /\ \A g \in Files \ {f} : dir'[g] = dir[g]
        /\ f \in done => dir'[f] = dir[f]
    BY <1>3, <1>5 DEF AssIInv, StoreTyped
  <1>8. StoreTyped'
    BY <1>3, <1>6, <1>7 DEF AssIInv, StoreTyped
  <1>8a. \A g \in done : dir'[g] = dir[g]
    BY <1>7 DEF AssIInv, StoreTyped
  <1>8b. MarksAreTrue'
    BY <1>3, <1>8a DEF AssIInv, MarksAreTrue
  <1>9. WorkIsBounded'
    BY <1>3, <1>6, WorkStays
  <1>10. ASSUME NEW u \in Threads
         PROVE  Relies(th'[u], u, lock', dir', done', ready')
    <2>1. Relies(th[u], u, lock, dir, done, ready) /\ (Undisturbed(th[u]) => th[u].file # f)
      BY <1>5 DEF AssIInv
    <2>2. Relies(th[u], u, lock, dir', done, ready)
      BY <1>7, <2>1 DEF Relies, Undisturbed, Dumping, Serving
    <2>3. CASE u = t
      BY <1>3, <1>6, <2>2, <2>3 DEF Relies, Dumping, Serving
    <2>4. CASE u # t
      BY <1>3, <1>6, <2>2, <2>4
    <2> QED  BY <2>3, <2>4
  <1>11. Undisturbed(th'[t]) => Undisturbed(th[t])
    BY <1>3, <1>6 DEF Undisturbed, Serving
  <1> QED  BY <1>5, <1>6, <1>8, <1>8b, <1>9, <1>10, <1>11, ThreadMoves

LEMMA FontKeeps ==
    ASSUME AssParameters, AssIInv, NEW t \in Threads, EA!Font(t)
    PROVE  AssIInv'
  <1>1. th[t].pc = "drop" /\ EA!End(t) /\ UNCHANGED <<assUsed, ready, lock, working, dir, done, doubt>>
    BY DEF EA!Font, EA!memory, EA!store
  <1>2. /\ th' \in [Threads -> Fontings] /\ \A u \in Threads \ {t} : th'[u] = th[u]
        /\ th'[t].pc = "idle" /\ EA!Range(th'[t].stale) = {}
    BY <1>1, Ends
  <1>3. StoreTyped' /\ MarksAreTrue'
    BY <1>1, <1>2 DEF AssIInv, StoreTyped, MarksAreTrue
  <1>4. WorkIsBounded'
    BY <1>1, <1>2, WorkStays
  <1>5. Relies(th'[t], t, lock', dir', done', ready') /\ ~Undisturbed(th'[t])
    BY <1>2, ReliesOnLittle
  <1> QED  BY <1>1, <1>2, <1>3, <1>4, <1>5, ThreadMoves DEF AssIInv

----------------------------------------------------------------------------
LEMMA AssBegins ==
    ASSUME AssParameters, EA!Init
    PROVE  AssIInv
  <1>1. /\ th = [t \in Threads |-> EA!Idle] /\ assUsed = <<>> /\ ready = FALSE /\ working = {}
        /\ lock = [f \in Files |-> Nothing] /\ done \subseteq Files
        /\ dir \in [Files -> {"absent", "empty", "part", "whole"}]
    BY DEF EA!Init
  <1>2. EA!Idle \in Fontings /\ EA!Idle.pc = "idle"
    BY DEF EA!Idle, Fontings, AssPcs
  <1>3. \A t \in Threads : th[t].pc = "idle"
    BY <1>1, <1>2
  <1>4. StoreTyped
    <2>1. th \in [Threads -> Fontings] /\ lock \in [Files -> Threads \cup {Nothing}]
      BY <1>1, <1>2
    <2>2. <<>> \in Seq(Files) /\ Len(<<>>) = 0
      OBVIOUS
    <2>3. assUsed \in Seq(Files) /\ Once(assUsed)
      BY <1>1, <2>2 DEF Once
    <2> QED  BY <1>1, <2>1, <2>3 DEF StoreTyped
  <1>5. \A t \in Threads : Relies(th[t], t, lock, dir, done, ready) /\ ~Undisturbed(th[t])
    BY <1>3, ReliesOnLittle
  <1>6. Cuts = {}
    BY <1>3 DEF Cuts
  <1>7. Cardinality({}) = 0
    BY FS_EmptySet
  <1>8. WorkIsBounded
    BY <1>1, <1>6, <1>7, AssCardinality DEF WorkIsBounded, AssParameters
  <1> QED  BY <1>1, <1>4, <1>5, <1>8 DEF AssIInv, NoneGivenUp, MarksAreTrue

LEMMA AssKeeps ==
    ASSUME AssParameters, AssIInv, [EA!Next]_assVars
    PROVE  AssIInv'
  <1>1. CASE UNCHANGED assVars
    BY <1>1 DEF assVars, AssIInv, StoreTyped, NoneGivenUp, EA!Range, MarksAreTrue, WorkIsBounded, Cuts
  <1>2. CASE EA!Next
    BY <1>2, AssAskKeeps, DiscoveryKeeps, FileLockKeeps, ProbeKeeps, AcquireKeeps, BusyKeeps, CutWindowKeeps,
       FontRootKeeps, FontsDirKeeps, DumpKeeps, CheckKeeps, MarkKeeps, TouchFontsKeeps, DropFilesKeeps,
       DropDirKeeps, FontKeeps DEF EA!Next
  <1> QED  BY <1>1, <1>2

AssInv == part = "ass" => AssIInv

\* Whichever requests for windows and fonts overlap or fail, and whatever the limit
\* on the kept files deletes meanwhile: a font that is sent is there, unless the
\* fonts of its file were given up while it was fetched or while they were marked;
\* the lock of a file covers its probe and its dump; and at most Work ffmpeg run
\* (api/embedded_ass.py).
THEOREM FontsStay ==
    ASSUME AssParameters
    PROVE  Spec => []FontsAreThere
  <1>1. Init => AssInv
    BY PartsBegin, AssBegins DEF AssInv
  <1>2. AssInv /\ [Next]_allVars => AssInv'
    BY PartsStep, AssKeeps DEF AssInv
  <1>3. AssIInv => EA!FontsAreThere
    <2> SUFFICES ASSUME AssIInv
                 PROVE  EA!FontsAreThere
      OBVIOUS
    <2>1. \A t \in Threads : EA!Sends(t) /\ ~th[t].crossed => dir[th[t].file] = "whole"
      BY DEF AssIInv, Relies, EA!Sends, Serving
    <2>2. \A t \in Threads : th[t].pc \in {"probe", "dump", "write", "check", "mark"} => lock[th[t].file] = t
      BY DEF AssIInv, Relies, Dumping
    <2> QED  BY <2>1, <2>2 DEF EA!FontsAreThere, AssIInv, WorkIsBounded, Cuts
  <1>4. AssInv => FontsAreThere
    BY <1>3 DEF AssInv, FontsAreThere
  <1> QED  BY <1>1, <1>2, <1>4, PTL DEF Spec
=============================================================================
