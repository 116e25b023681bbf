-------------------------- MODULE StreamActivityProofs --------------------------
(* Proofs about StreamActivity, for any torrents, streams and limit.        *)
EXTENDS StreamActivity, FiniteSetTheorems, TLAPS

\* Which thread is where: the background threads pause and resume only, a stream is
\* open from the request on until it is closed.
Fits(x, s) ==
    /\ s.pc # "idle" => s.h \in Handles /\ s.h[1] \in InSession
    /\ s.pc = "limit" => s.next \in Handles /\ s.next[1] \in InSession
    /\ \A h \in s.todo : h[1] \in InSession
    /\ x = Seeder => s.pc \in {"idle", "pause", "flag"}
    /\ x = Prefetcher => s.pc \in {"idle", "open", "resume", "unflag"}
    /\ x \in Streams =>
         /\ s.pc \notin {"pause", "flag"}
         /\ s.pc \in {"admit", "focus", "apply", "set", "open", "resume", "unflag", "mark", "promote", "stream"} => s.open
         /\ s.pc = "demote" => ~s.open
         /\ s.pc \in {"admit", "focus", "apply", "set"} => s.file \in Files

\* The threads that have a file in focus.
InFocus(x, s) == x \in Streams /\ s.pc \notin {"idle", "admit", "focus", "apply", "set"}

\* The table has each torrent's Handle.
Tabled == \A t \in InSession : table[t] \in Handles /\ table[t][1] = t

Base ==
    /\ table \in [Torrents -> Handles \cup {NoHandle}] /\ Tabled
    /\ active \in [Handles -> Nat] /\ focus \in [Handles -> Files \cup {NoFile}] /\ flag \in SUBSET Handles
    /\ high \in [Torrents -> SUBSET Files] /\ finished \in SUBSET Torrents
    /\ capped \in SUBSET InSession /\ paused \in SUBSET InSession /\ raced \in SUBSET Settings
    /\ th \in [Threads -> Thread]
    /\ \A x \in Threads : Fits(x, th[x]) /\ (InFocus(x, th[x]) => focus[th[x].h] \in Files)

\* The settings.
High(t) == <<"high", t>>
Paused(t) == <<"paused", t>>
Caps == <<"caps", NoTorrent>>

\* What a thread is about to do to each of them.
WritesHigh(s, t) == s.pc \in {"apply", "set", "promote", "demote"} /\ s.h[1] = t
WritesPaused(s, t) == s.pc \in {"resume", "unflag", "pause", "flag"} /\ s.h[1] = t
WritesCaps(s) == s.pc \in {"caps", "limit"}
Raises(s) == s.pc = "promote" \/ (s.pc \in {"apply", "set"} /\ s.act)
\* a stream that will go through the caps yet
Pending(x, s) == x \in Streams /\ s.pc \in {"promote", "demote", "policy"}
ShouldCap(t) == Active # {} /\ t \notin Active

\* The streams that a Handle counts.
Counts(s, h) == s.h = h /\ s.open /\ s.pc \in {"promote", "policy", "caps", "limit", "stream"}
Counted(h) == {x \in Streams : Counts(th[x], h)}

Count == \A h \in Handles : active[h] = Cardinality(Counted(h))

\* Unless it was raced, one thread at most is about to write the priority of a
\* torrent, through the table's Handle, and what it will write is right; if none is,
\* the priority is.
HighInv ==
    \A t \in InSession : High(t) \notin raced =>
      /\ \A x \in Threads : WritesHigh(th[x], t) =>
           /\ th[x].h = table[t]
           /\ Raises(th[x]) <=> t \in Active
           /\ th[x].pc = "set" => (th[x].file \in high[t] <=> Raises(th[x]))
           /\ \A y \in Threads : WritesHigh(th[y], t) => y = x
      /\ (\A x \in Threads : ~WritesHigh(th[x], t)) => (focus[table[t]] \in high[t] <=> t \in Active)

\* Unless it was raced, one thread at most pauses or resumes a torrent, through the
\* table's Handle; between the session and the flag the session has what the flag
\* will have.
PausedInv ==
    \A t \in InSession : Paused(t) \notin raced =>
      /\ \A x \in Threads : WritesPaused(th[x], t) =>
           /\ th[x].h = table[t]
           /\ th[x].pc = "unflag" => t \notin paused
           /\ th[x].pc = "flag" => t \in paused
           /\ \A y \in Threads : WritesPaused(th[y], t) => y = x
      /\ (\A x \in Threads : ~WritesPaused(th[x], t)) => (table[t] \in flag <=> t \in paused)

\* What the thread that goes through the caps has done so far is right.
CapsSoFar(s) ==
    /\ s.act <=> Active # {}
    /\ \A h \in s.todo : h = table[h[1]]
    /\ s.pc = "limit" => s.next = table[s.next[1]] /\ (s.cap <=> ShouldCap(s.next[1]))
    /\ \A t \in InSession : table[t] \notin s.todo /\ ~(s.pc = "limit" /\ s.next = table[t]) =>
         (t \in capped <=> ShouldCap(t))

\* The same of the thread s after its step, when what is played has not changed.
CapsGoneOn(s) ==
    /\ s.act <=> Active # {}
    /\ \A h \in s.todo : h = table[h[1]]
    /\ s.pc = "limit" => s.next = table[s.next[1]] /\ (s.cap <=> ShouldCap(s.next[1]))
    /\ \A t \in InSession : table[t] \notin s.todo /\ ~(s.pc = "limit" /\ s.next = table[t]) =>
         (t \in capped' <=> ShouldCap(t))

\* Unless they were raced, one thread at most goes through the caps, with a picture
\* of what is played that is right unless another stream will go through them yet.
CapsInv ==
    Caps \notin raced =>
      /\ \A x, y \in Threads : WritesCaps(th[x]) /\ WritesCaps(th[y]) => x = y
      /\ (\A x \in Threads : ~Pending(x, th[x])) =>
           /\ \A x \in Threads : WritesCaps(th[x]) => CapsSoFar(th[x])
           /\ (\A x \in Threads : ~WritesCaps(th[x])) => \A t \in InSession : t \in capped <=> ShouldCap(t)

IInv == Base /\ Count /\ HighInv /\ PausedInv /\ CapsInv

----------------------------------------------------------------------------
LEMMA SettingsDiffer ==
    /\ \A t, u : High(t) = High(u) => t = u
    /\ \A t, u : Paused(t) = Paused(u) => t = u
    /\ \A t, u : High(t) # Paused(u)
    /\ \A t : High(t) # Caps /\ Paused(t) # Caps
    /\ \A t \in Torrents : High(t) \in Settings /\ Paused(t) \in Settings
    /\ Caps \in Settings
  BY DEF High, Paused, Caps, Settings

LEMMA WritingIs ==
    /\ \A t : Writing(High(t)) = {x \in Threads : WritesHigh(th[x], t)}
    /\ \A t : Writing(Paused(t)) = {x \in Threads : WritesPaused(th[x], t)}
    /\ Writing(Caps) = {x \in Threads : WritesCaps(th[x])}
  <1>1. \A t : Writing(High(t)) = {x \in Threads : WritesHigh(th[x], t)}
    <2> SUFFICES ASSUME NEW t
                 PROVE  Writing(High(t)) = {x \in Threads : WritesHigh(th[x], t)}
      OBVIOUS
    <2>1. High(t)[1] = "high" /\ High(t)[2] = t
      BY DEF High
    <2> QED  BY <2>1 DEF Writing, WritesHigh, Tor
  <1>2. \A t : Writing(Paused(t)) = {x \in Threads : WritesPaused(th[x], t)}
    <2> SUFFICES ASSUME NEW t
                 PROVE  Writing(Paused(t)) = {x \in Threads : WritesPaused(th[x], t)}
      OBVIOUS
    <2>1. Paused(t)[1] = "paused" /\ Paused(t)[2] = t
      BY DEF Paused
    <2> QED  BY <2>1 DEF Writing, WritesPaused, Tor
  <1>3. Writing(Caps) = {x \in Threads : WritesCaps(th[x])}
    <2>1. Caps[1] = "caps"
      BY DEF Caps
    <2> QED  BY <2>1 DEF Writing, WritesCaps
  <1> QED  BY <1>1, <1>2, <1>3

\* Thread x is replaced by s; no file goes out of focus, the table stays.
Moves(x, s) ==
    /\ th' = [th EXCEPT ![x] = s] /\ s \in Thread /\ Fits(x, s) /\ (InFocus(x, s) => focus'[s.h] \in Files)
    /\ table' = table /\ \A h \in Handles : focus[h] \in Files => focus'[h] \in Files

LEMMA Moved ==
    ASSUME Base, NEW x \in Threads, NEW s, Moves(x, s)
    PROVE  /\ \A y \in Threads : th'[y] = IF y = x THEN s ELSE th[y]
           /\ th' \in [Threads -> Thread]
           /\ \A y \in Threads : Fits(y, th[y])' /\ (InFocus(y, th'[y]) => focus'[th'[y].h] \in Files)
           /\ InSession' = InSession /\ Tabled'
  <1>1. \A y \in Threads : th'[y] = IF y = x THEN s ELSE th[y]
    BY DEF Base, Moves
  <1>2. InSession' = InSession
    BY DEF Moves, InSession
  <1>3. \A y \in Threads : Fits(y, th[y])'
    BY <1>1, <1>2 DEF Moves, Base, Fits
  <1>4. \A y \in Threads : InFocus(y, th'[y]) => focus'[th'[y].h] \in Files
    <2> SUFFICES ASSUME NEW y \in Threads, InFocus(y, th'[y])
                 PROVE  focus'[th'[y].h] \in Files
      OBVIOUS
    <2>1. y # x => th[y].h \in Handles
      BY <1>1 DEF Base, Fits, InFocus
    <2> QED  BY <1>1, <2>1 DEF Moves, Base
  <1> QED  BY <1>1, <1>2, <1>3, <1>4 DEF Base, Moves, Tabled

LEMMA HandlesAre ==
    /\ \A h \in Handles : h[1] \in Torrents
    /\ InSession \subseteq Torrents
  BY DEF Handles, InSession

----------------------------------------------------------------------------
(* The count.                                                               *)

LEMMA CountedFinite ==
    \A t : IsFiniteSet(Counted(t)) /\ Cardinality(Counted(t)) \in Nat /\ Cardinality(Counted(t)) <= Cardinality(Streams)
  <1> SUFFICES ASSUME NEW t
               PROVE  IsFiniteSet(Counted(t)) /\ Cardinality(Counted(t)) \in Nat /\ Cardinality(Counted(t)) <= Cardinality(Streams)
    OBVIOUS
  <1>1. Counted(t) \in SUBSET Streams
    BY DEF Counted
  <1>2. IsFiniteSet(Counted(t)) /\ Cardinality(Counted(t)) <= Cardinality(Streams)
    BY <1>1, StreamAssumption, FS_Subset
  <1> QED  BY <1>2, FS_CardinalityType

LEMMA CountSame ==
    ASSUME Base, Count, NEW x \in Threads, NEW s, Moves(x, s), active' = active,
           x \in Streams => \A t \in Handles : Counts(s, t) <=> Counts(th[x], t)
    PROVE  Count'
  <1>1. \A t \in Handles : Counted(t)' = Counted(t)
    BY Moved DEF Counted, Threads
  <1> QED  BY <1>1 DEF Count

LEMMA CountMore ==
    ASSUME Base, Count, NEW x \in Streams, NEW s, Moves(x, s), NEW t \in Handles,
           Counts(s, t), ~Counts(th[x], t), \A u \in Handles \ {t} : Counts(s, u) <=> Counts(th[x], u),
           active' = [active EXCEPT ![t] = @ + 1]
    PROVE  Count'
  <1>1. \A u \in Handles \ {t} : Counted(u)' = Counted(u)
    BY Moved DEF Counted, Threads
  <1>2. Counted(t)' = Counted(t) \cup {x} /\ x \notin Counted(t)
    BY Moved DEF Counted, Threads
  <1>3. Cardinality(Counted(t)') = Cardinality(Counted(t)) + 1
    BY <1>2, CountedFinite, FS_AddElement
  <1> QED  BY <1>1, <1>3 DEF Count, Base

LEMMA CountLess ==
    ASSUME Base, Count, NEW x \in Streams, NEW s, Moves(x, s), NEW t \in Handles,
           ~Counts(s, t), Counts(th[x], t), \A u \in Handles \ {t} : Counts(s, u) <=> Counts(th[x], u),
           active' = [active EXCEPT ![t] = @ - 1]
    PROVE  Count' /\ active[t] > 0
  <1>1. \A u \in Handles \ {t} : Counted(u)' = Counted(u)
    BY Moved DEF Counted, Threads
  <1>2. Counted(t)' = Counted(t) \ {x} /\ x \in Counted(t)
    BY Moved DEF Counted, Threads
  <1>3. Cardinality(Counted(t)') = Cardinality(Counted(t)) - 1
    BY <1>2, CountedFinite, FS_RemoveElement
  <1>4. Cardinality(Counted(t)) # 0
    BY <1>2, CountedFinite, FS_EmptySet
  <1>5. Count'
    BY <1>1, <1>3 DEF Count, Base
  <1> QED  BY <1>4, <1>5, CountedFinite DEF Count, Base

----------------------------------------------------------------------------
(* The priority.                                                            *)

LEMMA HighSame ==
    ASSUME Base, HighInv, NEW x \in Threads, NEW s, Moves(x, s), UNCHANGED <<high, focus>>,
           \A t \in Torrents : ~WritesHigh(s, t) /\ ~WritesHigh(th[x], t),
           \A t \in Torrents : t \in Active' <=> t \in Active,
           \A t \in Torrents : High(t) \in raced' <=> High(t) \in raced
    PROVE  HighInv'
  BY Moved, HandlesAre DEF HighInv, Moves

LEMMA HighDecided ==
    ASSUME Base, HighInv, NEW x \in Threads, NEW s, Moves(x, s), UNCHANGED <<high, focus>>, NEW h \in Handles,
           WritesHigh(s, h[1]), s.h = h, s.pc # "set", \A u \in Torrents : ~WritesHigh(th[x], u),
           table[h[1]] = h => (Raises(s) <=> h[1] \in Active'),
           \A u \in Torrents \ {h[1]} : u \in Active' <=> u \in Active,
           Decides("high", h)
    PROVE  HighInv'
  <1>1. /\ \A u \in Torrents \ {h[1]} : High(u) \in raced' <=> High(u) \in raced
        /\ High(h[1]) \notin raced' => table[h[1]] = h /\ \A y \in Threads : ~WritesHigh(th[y], h[1])
    BY WritingIs, SettingsDiffer DEF Decides, With, High
  <1>2. \A u \in Torrents \ {h[1]} : ~WritesHigh(s, u)
    BY DEF WritesHigh
  <1>3. (\A y \in Threads : th'[y] = IF y = x THEN s ELSE th[y]) /\ InSession' = InSession /\ table' = table
    BY Moved DEF Moves
  <1>4. \A u \in InSession : u \in Torrents
    BY HandlesAre
  <1> QED  BY <1>1, <1>2, <1>3, <1>4 DEF HighInv

\* prioritize_files is done, the file is not in focus yet.
LEMMA HighApplied ==
    ASSUME Base, HighInv, NEW x \in Threads, NEW s, Moves(x, s), UNCHANGED <<active, focus, raced>>,
           th[x].pc = "apply", s.pc = "set", s.h = th[x].h, s.act = th[x].act, s.file = th[x].file, s.file \in Files,
           NEW t \in Torrents, th[x].h[1] = t, high' = [high EXCEPT ![t] = IF th[x].act THEN {th[x].file} ELSE {}]
    PROVE  HighInv'
  <1>1. \A u \in Torrents \ {t} : ~WritesHigh(th[x], u) /\ ~WritesHigh(s, u) /\ high'[u] = high[u]
    BY DEF WritesHigh, Base
  <1>2. /\ WritesHigh(th[x], t) /\ WritesHigh(s, t) /\ (Raises(s) <=> Raises(th[x]))
        /\ s.file \in high'[t] <=> Raises(s)
    BY DEF WritesHigh, Raises, Base
  <1>3. (\A y \in Threads : th'[y] = IF y = x THEN s ELSE th[y]) /\ InSession' = InSession /\ table' = table
    BY Moved DEF Moves
  <1>4. Active' = Active /\ \A u \in InSession : u \in Torrents
    BY <1>3, HandlesAre DEF Active, Watched
  <1> QED  BY <1>1, <1>2, <1>3, <1>4 DEF HighInv

LEMMA HighWritten ==
    ASSUME Base, HighInv, NEW x \in Threads, NEW s, Moves(x, s), NEW t \in InSession,
           WritesHigh(th[x], t), \A u \in Torrents : ~WritesHigh(s, u), UNCHANGED <<active, raced>>,
           \A u \in Torrents \ {t} : high'[u] = high[u],
           \A h \in Handles : h[1] # t => focus'[h] = focus[h],
           High(t) \notin raced => (focus'[table[t]] \in high'[t] <=> Raises(th[x]))
    PROVE  HighInv'
  <1>1. \A u \in Torrents \ {t} : ~WritesHigh(th[x], u)
    BY DEF WritesHigh
  <1>2. (\A y \in Threads : th'[y] = IF y = x THEN s ELSE th[y]) /\ InSession' = InSession /\ table' = table
    BY Moved DEF Moves
  <1>3. Active' = Active /\ \A u \in InSession : u \in Torrents
    BY <1>2, HandlesAre DEF Active, Watched
  <1>4. \A u \in InSession \ {t} : focus'[table[u]] = focus[table[u]]
    BY DEF Base, Tabled
  <1> QED  BY <1>1, <1>2, <1>3, <1>4 DEF HighInv

----------------------------------------------------------------------------
(* Pausing and resuming.                                                    *)

LEMMA PausedSame ==
    ASSUME Base, PausedInv, NEW x \in Threads, NEW s, Moves(x, s), UNCHANGED <<paused, flag>>,
           \A t \in Torrents : ~WritesPaused(s, t) /\ ~WritesPaused(th[x], t),
           \A t \in Torrents : Paused(t) \in raced' <=> Paused(t) \in raced
    PROVE  PausedInv'
  <1>1. (\A y \in Threads : th'[y] = IF y = x THEN s ELSE th[y]) /\ InSession' = InSession /\ table' = table
    BY Moved DEF Moves
  <1>2. \A u \in InSession : u \in Torrents
    BY HandlesAre
  <1> QED  BY <1>1, <1>2 DEF PausedInv

LEMMA PausedDecided ==
    ASSUME Base, PausedInv, NEW x \in Threads, NEW s, Moves(x, s), UNCHANGED <<paused, flag>>,
           NEW h \in Handles, WritesPaused(s, h[1]), s.h = h, s.pc \in {"resume", "pause"},
           \A u \in Torrents : ~WritesPaused(th[x], u), Decides("paused", h)
    PROVE  PausedInv'
  <1>1. /\ \A u \in Torrents \ {h[1]} : Paused(u) \in raced' <=> Paused(u) \in raced
        /\ Paused(h[1]) \notin raced' => table[h[1]] = h /\ \A y \in Threads : ~WritesPaused(th[y], h[1])
    BY WritingIs, SettingsDiffer DEF Decides, With, Paused
  <1>2. \A u \in Torrents \ {h[1]} : ~WritesPaused(s, u)
    BY DEF WritesPaused
  <1>3. (\A y \in Threads : th'[y] = IF y = x THEN s ELSE th[y]) /\ InSession' = InSession /\ table' = table
    BY Moved DEF Moves
  <1>4. \A u \in InSession : u \in Torrents
    BY HandlesAre
  <1> QED  BY <1>1, <1>2, <1>3, <1>4 DEF PausedInv

LEMMA PausedSession ==
    ASSUME Base, PausedInv, NEW x \in Threads, NEW s, Moves(x, s), NEW t \in Torrents, s.h = th[x].h,
           WritesPaused(th[x], t), WritesPaused(s, t), UNCHANGED <<flag, raced>>,
           \/ s.pc = "unflag" /\ paused' = paused \ {t}
           \/ s.pc = "flag" /\ paused' = paused \cup {t}
    PROVE  PausedInv'
  <1>1. \A u \in Torrents \ {t} : /\ ~WritesPaused(th[x], u) /\ ~WritesPaused(s, u)
                                  /\ u \in paused' <=> u \in paused
    BY DEF WritesPaused
  <1>2. (\A y \in Threads : th'[y] = IF y = x THEN s ELSE th[y]) /\ InSession' = InSession /\ table' = table
    BY Moved DEF Moves
  <1>3. (s.pc = "unflag" => t \notin paused') /\ (s.pc = "flag" => t \in paused')
    OBVIOUS
  <1>4. \A u \in InSession : u \in Torrents
    BY HandlesAre
  <1> QED  BY <1>1, <1>2, <1>3, <1>4 DEF PausedInv

LEMMA PausedFlagged ==
    ASSUME Base, PausedInv, NEW x \in Threads, NEW s, Moves(x, s), NEW h \in Handles, th[x].h = h,
           WritesPaused(th[x], h[1]), \A u \in Torrents : ~WritesPaused(s, u), UNCHANGED <<paused, raced>>,
           \/ th[x].pc = "unflag" /\ flag' = flag \ {h}
           \/ th[x].pc = "flag" /\ flag' = flag \cup {h}
    PROVE  PausedInv'
  <1>1. \A u \in Torrents \ {h[1]} : ~WritesPaused(th[x], u)
    BY DEF WritesPaused
  <1>2. (\A y \in Threads : th'[y] = IF y = x THEN s ELSE th[y]) /\ InSession' = InSession /\ table' = table
    BY Moved DEF Moves
  <1>3. h \in flag' <=> th[x].pc = "flag"
    OBVIOUS
  <1>4. \A u \in InSession : u \in Torrents /\ (u # h[1] => (table[u] \in flag' <=> table[u] \in flag))
    BY HandlesAre DEF Base, Tabled
  <1> QED  BY <1>1, <1>2, <1>3, <1>4 DEF PausedInv

----------------------------------------------------------------------------
(* The caps.                                                                *)

\* What is played is what it was, and a stream that is yet to go through the caps
\* still is; or there is one now.
LEMMA CapsSame ==
    ASSUME Base, CapsInv, NEW x \in Threads, NEW s, Moves(x, s), capped' = capped,
           ~WritesCaps(s), ~WritesCaps(th[x]), Caps \in raced' <=> Caps \in raced,
           Pending(x, s) \/ (active' = active /\ ~Pending(x, th[x]))
    PROVE  CapsInv'
  <1>1. \A y \in Threads : th'[y] = IF y = x THEN s ELSE th[y]
    BY Moved
  <1>2. CASE Pending(x, s)
    BY <1>1, <1>2 DEF CapsInv
  <1>3. CASE active' = active /\ ~Pending(x, th[x]) /\ ~Pending(x, s)
    <2>1. Active' = Active /\ table' = table /\ InSession' = InSession
      BY <1>3, Moved DEF Active, Watched, Moves
    <2>2. \A y \in Threads : Pending(y, th'[y]) <=> Pending(y, th[y])
      BY <1>1, <1>3
    <2>3. \A y \in Threads : WritesCaps(th'[y]) <=> WritesCaps(th[y])
      BY <1>1
    <2>4. \A y \in Threads : WritesCaps(th[y]) => th'[y] = th[y]
      BY <1>1
    <2>5. \A y \in Threads : WritesCaps(th[y]) /\ CapsSoFar(th[y]) => CapsSoFar(th[y])'
      BY <2>1, <2>4 DEF CapsSoFar, ShouldCap
    <2> QED  BY <2>1, <2>2, <2>3, <2>5 DEF CapsInv, ShouldCap
  <1> QED  BY <1>2, <1>3

\* Going through the caps begins.
LEMMA CapsBegun ==
    ASSUME Base, CapsInv, NEW x \in Threads, NEW s, Moves(x, s), UNCHANGED <<capped, active>>,
           s.pc = "caps", s.todo = {table[t] : t \in InSession}, s.act <=> Active # {}, ~WritesCaps(th[x]),
           raced' = With(raced, Caps, Writing(Caps) # {})
    PROVE  CapsInv'
  <1>1. \A y \in Threads : th'[y] = IF y = x THEN s ELSE th[y]
    BY Moved
  <1>2. Caps \notin raced' => \A y \in Threads : ~WritesCaps(th[y])
    BY WritingIs DEF With
  <1>3. Active' = Active /\ table' = table /\ InSession' = InSession
    BY Moved DEF Active, Watched, Moves
  <1>4. CapsSoFar(s)'
    BY <1>3 DEF CapsSoFar, Base, Tabled
  <1>5. WritesCaps(s)
    BY DEF WritesCaps
  <1> QED  BY <1>1, <1>2, <1>3, <1>4, <1>5 DEF CapsInv

\* A step of the thread that goes through them, or its last.
LEMMA CapsGoOn ==
    ASSUME Base, CapsInv, NEW x \in Threads, NEW s, Moves(x, s), UNCHANGED <<active, raced>>,
           WritesCaps(th[x]), ~Pending(x, s),
           \A y \in Threads : WritesCaps(th[y]) => y = x,
           CapsSoFar(th[x]) =>
              IF WritesCaps(s) THEN CapsGoneOn(s) ELSE \A t \in InSession : t \in capped' <=> ShouldCap(t)
    PROVE  CapsInv'
  <1>1. \A y \in Threads : th'[y] = IF y = x THEN s ELSE th[y]
    BY Moved
  <1>2. Active' = Active /\ table' = table /\ InSession' = InSession
    BY Moved DEF Active, Watched, Moves
  <1>3. \A t : ShouldCap(t)' <=> ShouldCap(t)
    BY <1>2 DEF ShouldCap
  <1>4. ~Pending(x, th[x])
    BY DEF Pending, WritesCaps
  <1>5. \A y \in Threads : Pending(y, th'[y]) <=> Pending(y, th[y])
    BY <1>1, <1>4
  <1>6. WritesCaps(s) /\ CapsGoneOn(s) => CapsSoFar(th[x])'
    BY <1>1, <1>2, <1>3 DEF CapsSoFar, CapsGoneOn
  <1> QED  BY <1>1, <1>2, <1>3, <1>5, <1>6 DEF CapsInv

\* Two threads go through the caps only when they are raced, and then nothing is claimed.
LEMMA CapsRaced ==
    ASSUME Base, CapsInv, NEW x \in Threads, NEW s, Moves(x, s), raced' = raced,
           WritesCaps(th[x]), NEW y \in Threads, WritesCaps(th[y]), y # x
    PROVE  CapsInv'
  BY DEF CapsInv

----------------------------------------------------------------------------
(* The steps.                                                               *)

LEMMA BaseKept ==
    ASSUME Base, NEW x \in Threads, NEW s, Moves(x, s), active' \in [Handles -> Nat],
           focus' \in [Handles -> Files \cup {NoFile}], flag' \in SUBSET Handles,
           high' \in [Torrents -> SUBSET Files], finished' \in SUBSET Torrents,
           capped' \in SUBSET InSession, paused' \in SUBSET InSession, raced' \in SUBSET Settings
    PROVE  Base'
  <1>1. table' = table
    BY DEF Moves
  <1> QED  BY <1>1, Moved DEF Base

\* Whoever decides to write one setting leaves the others' races alone.
LEMMA DecidesIs ==
    ASSUME Base, NEW c, NEW h \in Handles, <<c, h[1]>> \in Settings, Decides(c, h)
    PROVE  /\ raced' \in SUBSET Settings
           /\ \A d : d # <<c, h[1]>> => (d \in raced' <=> d \in raced)
  BY DEF Base, Decides, With

\* A step that only moves a thread where it neither counts nor writes.
LEMMA QuietKeeps ==
    ASSUME IInv, NEW x \in Threads, NEW s, Moves(x, s), finished' \in SUBSET Torrents,
           UNCHANGED <<active, focus, high, capped, paused, flag, raced>>,
           {th[x].pc, s.pc} \subseteq {"idle", "admit", "focus", "open", "mark"}
    PROVE  IInv'
  <1>1. /\ \A t : ~WritesHigh(th[x], t) /\ ~WritesHigh(s, t) /\ ~WritesPaused(th[x], t) /\ ~WritesPaused(s, t)
        /\ ~WritesCaps(th[x]) /\ ~WritesCaps(s) /\ ~Pending(x, th[x])
        /\ \A h : ~Counts(th[x], h) /\ ~Counts(s, h)
    BY DEF WritesHigh, WritesPaused, WritesCaps, Pending, Counts
  <1>2. Base'
    BY BaseKept DEF IInv, Base
  <1>3. Count'
    BY <1>1, CountSame DEF IInv
  <1>4. HighInv'
    <2>1. Active' = Active
      BY Moved DEF IInv, Active, Watched, Moves
    <2> QED  BY <1>1, <2>1, HighSame DEF IInv
  <1>5. PausedInv'
    BY <1>1, PausedSame DEF IInv
  <1>6. CapsInv'
    BY <1>1, CapsSame DEF IInv
  <1> QED  BY <1>2, <1>3, <1>4, <1>5, <1>6 DEF IInv

LEMMA IdleIsFine ==
    /\ Idle \in Thread /\ Idle.pc = "idle" /\ Idle.h = NoHandle /\ ~Idle.open /\ Idle.todo = {}
    /\ \A x \in Threads : Fits(x, Idle) /\ ~InFocus(x, Idle)
  <1>1. Idle \in Thread /\ Idle.pc = "idle" /\ Idle.h = NoHandle /\ ~Idle.open /\ Idle.todo = {}
    BY DEF Idle, Thread
  <1> QED  BY <1>1 DEF Fits, InFocus

\* The thread that takes a step, and its Handle.
LEMMA Stepping ==
    ASSUME IInv, NEW x \in Threads
    PROVE  /\ th[x] \in Thread /\ Fits(x, th[x]) /\ (InFocus(x, th[x]) => focus[th[x].h] \in Files)
           /\ th[x].pc # "idle" => th[x].h \in Handles /\ th[x].h[1] \in InSession /\ th[x].h[1] \in Torrents
  BY HandlesAre DEF IInv, Base, Fits

LEMMA ServeKeeps ==
    ASSUME IInv, NEW x \in Streams, NEW t \in Torrents, NEW f \in Files, Serve(x, t, f)
    PROVE  IInv'
  <1> DEFINE h == table[t]
             s == [Idle EXCEPT !.pc = "admit", !.h = h, !.file = f, !.open = TRUE]
  <1>1. th' = [th EXCEPT ![x] = s] /\ th[x].pc = "idle" /\ x \in Threads /\ t \in InSession
    BY DEF Serve, Threads
  <1>2. h \in Handles /\ h[1] = t
    BY <1>1 DEF IInv, Base, Tabled
  <1>3. s \in Thread /\ s.pc = "admit" /\ s.h = h /\ s.file = f /\ s.open /\ s.todo = {}
    BY <1>2, IdleIsFine DEF Thread
  <1>4. UNCHANGED <<table, active, focus, high, capped, paused, flag, finished, raced>>
    BY DEF Serve, fields, session
  <1> HIDE DEF s, h
  <1>5. Moves(x, s)
    BY <1>1, <1>2, <1>3, <1>4, StreamAssumption DEF Moves, Fits, InFocus
  <1> QED  BY <1>1, <1>3, <1>4, <1>5, QuietKeeps DEF IInv, Base

LEMMA AdmitKeeps ==
    ASSUME IInv, NEW x \in Streams, Admit(x)
    PROVE  IInv'
  <1> DEFINE s == [th[x] EXCEPT !.pc = "focus"]
  <1>1. /\ x \in Threads /\ th[x].pc = "admit" /\ th' = [th EXCEPT ![x] = s]
        /\ UNCHANGED <<table, active, focus, high, capped, paused, flag, finished, raced>>
    BY DEF Admit, Goto, fields, session, Threads
  <1>2. /\ th[x] \in Thread /\ Fits(x, th[x])
    BY <1>1, Stepping
  <1>3. /\ s \in Thread /\ s.pc = "focus" /\ s.h = th[x].h /\ s.file = th[x].file
        /\ s.open = th[x].open /\ s.todo = th[x].todo
    BY <1>2 DEF Thread
  <1> HIDE DEF s
  <1>4. Moves(x, s)
    BY <1>1, <1>2, <1>3, StreamAssumption DEF Moves, Fits, InFocus
  <1> QED  BY <1>1, <1>3, <1>4, QuietKeeps DEF IInv, Base

\* The priorities are computed.
LEMMA FocusKeeps ==
    ASSUME IInv, NEW x \in Streams, Focus(x)
    PROVE  IInv'
  <1> DEFINE h == th[x].h
             t == th[x].h[1]
  <1>1. /\ x \in Threads /\ th[x].pc = "focus"
        /\ UNCHANGED <<table, active, focus, high, capped, finished, paused, flag>>
    BY DEF Focus, fields, session, Threads
  <1>2. th[x] \in Thread /\ Fits(x, th[x]) /\ h \in Handles /\ t \in InSession /\ t \in Torrents
    BY <1>1, Stepping
  <1>3. CASE focus[h] = th[x].file /\ Goto(x, "open") /\ UNCHANGED raced
    <2> DEFINE s == [th[x] EXCEPT !.pc = "open"]
    <2>1. th' = [th EXCEPT ![x] = s]
      BY <1>3 DEF Goto
    <2>2. s \in Thread /\ s.pc = "open" /\ s.h = h /\ s.open = th[x].open /\ s.todo = th[x].todo
      BY <1>2 DEF Thread
    <2> HIDE DEF s
    <2>3. Moves(x, s)
      BY <1>1, <1>2, <1>3, <2>1, <2>2, StreamAssumption DEF Moves, Fits, InFocus
    <2> QED  BY <1>1, <1>3, <2>2, <2>3, QuietKeeps DEF IInv, Base
  <1>4. CASE /\ th' = [th EXCEPT ![x].pc = "apply", ![x].act = Watched(h)]
             /\ Decides("high", h)
    <2> DEFINE now == Watched(h)
               s == [th[x] EXCEPT !.pc = "apply", !.act = now]
    <2>1. th' = [th EXCEPT ![x] = s]
      BY <1>1, <1>4 DEF IInv, Base
    <2>2. now \in BOOLEAN /\ (table[t] = h => (now <=> t \in Active))
      BY <1>2 DEF Watched, Active
    <2> HIDE DEF now
    <2>3. /\ s \in Thread /\ s.pc = "apply" /\ s.h = h /\ s.open = th[x].open /\ s.act = now
          /\ s.file = th[x].file /\ s.todo = th[x].todo
      BY <1>2, <2>2 DEF Thread
    <2> HIDE DEF s
    <2>4. Moves(x, s)
      BY <1>1, <1>2, <2>1, <2>3, StreamAssumption DEF Moves, Fits, InFocus
    <2>5. /\ raced' \in SUBSET Settings /\ \A d : d # High(t) => (d \in raced' <=> d \in raced)
      BY <1>2, <1>4, SettingsDiffer, DecidesIs DEF IInv, High
    <2>6. /\ \A u : ~WritesHigh(th[x], u) /\ ~WritesPaused(th[x], u) /\ ~WritesPaused(s, u)
          /\ ~WritesCaps(th[x]) /\ ~WritesCaps(s) /\ ~Pending(x, th[x])
          /\ \A u : ~Counts(th[x], u) /\ ~Counts(s, u)
          /\ WritesHigh(s, t) /\ (Raises(s) <=> now)
      BY <1>1, <2>3 DEF WritesHigh, WritesPaused, WritesCaps, Pending, Counts, Raises
    <2>7. Active' = Active
      BY <1>1 DEF Active, Watched, InSession
    <2>8. Base'
      BY <1>1, <2>4, <2>5, BaseKept DEF IInv, Base
    <2>9. Count'
      BY <1>1, <2>4, <2>6, CountSame DEF IInv
    <2>10. HighInv'
      BY <1>1, <1>2, <1>4, <2>2, <2>3, <2>4, <2>6, <2>7, HighDecided DEF IInv
    <2>11. PausedInv'
      BY <1>1, <2>4, <2>5, <2>6, SettingsDiffer, PausedSame DEF IInv
    <2>12. CapsInv'
      BY <1>1, <2>4, <2>5, <2>6, SettingsDiffer, CapsSame DEF IInv
    <2> QED  BY <2>8, <2>9, <2>10, <2>11, <2>12 DEF IInv
  <1> QED  BY <1>3, <1>4 DEF Focus

\* They are applied, as they were computed.
LEMMA FocusApplyKeeps ==
    ASSUME IInv, NEW x \in Streams, FocusApply(x)
    PROVE  IInv'
  <1> DEFINE t == th[x].h[1]
             s == [th[x] EXCEPT !.pc = "set"]
  <1>1. /\ x \in Threads /\ th[x].pc = "apply" /\ th' = [th EXCEPT ![x] = s]
        /\ UNCHANGED <<table, active, focus, capped, paused, flag, raced>>
        /\ high' = [high EXCEPT ![t] = IF th[x].act THEN {th[x].file} ELSE {}]
    BY DEF FocusApply, Goto, Tor, fields, Threads
  <1>2. th[x] \in Thread /\ Fits(x, th[x]) /\ th[x].h \in Handles /\ t \in InSession /\ t \in Torrents
    BY <1>1, Stepping
  <1>3. th[x].file \in Files
    BY <1>1, <1>2 DEF Fits
  <1>4. finished' \in SUBSET Torrents /\ high' \in [Torrents -> SUBSET Files]
    BY <1>1, <1>2, <1>3 DEF FocusApply, With, Tor, IInv, Base
  <1>5. /\ s \in Thread /\ s.pc = "set" /\ s.h = th[x].h /\ s.open = th[x].open /\ s.todo = th[x].todo
        /\ s.act = th[x].act /\ s.file = th[x].file
    BY <1>2 DEF Thread
  <1> HIDE DEF s
  <1>6. Moves(x, s)
    BY <1>1, <1>2, <1>5, StreamAssumption DEF Moves, Fits, InFocus
  <1>7. /\ \A u : ~WritesPaused(th[x], u) /\ ~WritesPaused(s, u)
        /\ ~WritesCaps(th[x]) /\ ~WritesCaps(s) /\ ~Pending(x, th[x])
        /\ \A u : ~Counts(th[x], u) /\ ~Counts(s, u)
    BY <1>1, <1>5 DEF WritesPaused, WritesCaps, Pending, Counts
  <1>8. Base'
    BY <1>1, <1>4, <1>6, BaseKept DEF IInv, Base
  <1>9. Count'
    BY <1>1, <1>6, <1>7, CountSame DEF IInv
  <1>10. HighInv'
    BY <1>1, <1>2, <1>3, <1>5, <1>6, HighApplied DEF IInv
  <1>11. PausedInv'
    BY <1>1, <1>6, <1>7, PausedSame DEF IInv
  <1>12. CapsInv'
    BY <1>1, <1>6, <1>7, CapsSame DEF IInv
  <1> QED  BY <1>8, <1>9, <1>10, <1>11, <1>12 DEF IInv

\* The file comes into focus.
LEMMA FocusSetKeeps ==
    ASSUME IInv, NEW x \in Streams, FocusSet(x)
    PROVE  IInv'
  <1> DEFINE h == th[x].h
             t == th[x].h[1]
             s == [th[x] EXCEPT !.pc = "open"]
  <1>1. /\ x \in Threads /\ th[x].pc = "set" /\ th' = [th EXCEPT ![x] = s]
        /\ UNCHANGED <<table, active, high, capped, finished, paused, flag, raced>>
        /\ focus' = [focus EXCEPT ![h] = th[x].file]
    BY DEF FocusSet, Goto, session, Threads
  <1>2. th[x] \in Thread /\ Fits(x, th[x]) /\ h \in Handles /\ t \in InSession /\ t \in Torrents
    BY <1>1, Stepping
  <1>3. th[x].file \in Files
    BY <1>1, <1>2 DEF Fits
  <1>4. /\ focus' \in [Handles -> Files \cup {NoFile}] /\ focus'[h] = th[x].file
        /\ \A k \in Handles \ {h} : focus'[k] = focus[k]
    BY <1>1, <1>2, <1>3 DEF IInv, Base
  <1>5. s \in Thread /\ s.pc = "open" /\ s.h = h /\ s.open = th[x].open /\ s.todo = th[x].todo
    BY <1>2 DEF Thread
  <1> HIDE DEF s
  <1>6. Moves(x, s)
    BY <1>1, <1>2, <1>3, <1>4, <1>5, StreamAssumption DEF Moves, Fits, InFocus
  <1>7. /\ \A u : ~WritesHigh(s, u) /\ ~WritesPaused(th[x], u) /\ ~WritesPaused(s, u)
        /\ ~WritesCaps(th[x]) /\ ~WritesCaps(s) /\ ~Pending(x, th[x])
        /\ \A u : ~Counts(th[x], u) /\ ~Counts(s, u)
        /\ WritesHigh(th[x], t)
    BY <1>1, <1>5 DEF WritesHigh, WritesPaused, WritesCaps, Pending, Counts
  <1>8. Base'
    BY <1>1, <1>4, <1>6, BaseKept DEF IInv, Base
  <1>9. Count'
    BY <1>1, <1>6, <1>7, CountSame DEF IInv
  <1>10. HighInv'
    <2>1. ASSUME High(t) \notin raced
          PROVE  focus'[table[t]] \in high'[t] <=> Raises(th[x])
      <3>1. table[t] = h /\ (th[x].file \in high[t] <=> Raises(th[x]))
        BY <1>1, <1>2, <1>7, <2>1 DEF IInv, HighInv
      <3> QED  BY <1>1, <1>4, <3>1
    <2>2. \A k \in Handles : k[1] # t => focus'[k] = focus[k]
      BY <1>4
    <2> HIDE DEF t, h
    <2> QED  BY <1>1, <1>2, <1>6, <1>7, <2>1, <2>2, HighWritten DEF IInv
  <1>11. PausedInv'
    BY <1>1, <1>6, <1>7, PausedSame DEF IInv
  <1>12. CapsInv'
    BY <1>1, <1>6, <1>7, CapsSame DEF IInv
  <1> QED  BY <1>8, <1>9, <1>10, <1>11, <1>12 DEF IInv

LEMMA ServeEndsKeeps ==
    ASSUME IInv, NEW x \in Streams, ServeEnds(x)
    PROVE  IInv'
  <1>1. /\ x \in Threads /\ th[x].pc \in {"admit", "open"} /\ th' = [th EXCEPT ![x] = Idle]
        /\ UNCHANGED <<table, active, focus, high, capped, paused, flag, finished, raced>>
    BY DEF ServeEnds, fields, session, Threads
  <1>2. Moves(x, Idle)
    BY <1>1, IdleIsFine DEF Moves
  <1> QED  BY <1>1, <1>2, IdleIsFine, QuietKeeps DEF IInv, Base

LEMMA OpenedIsFine ==
    ASSUME IInv, NEW x \in Streams \cup {Prefetcher}, th[x].pc \in {"open", "unflag"}
    PROVE  /\ x \in Threads /\ Opened(x) \in Thread /\ Opened(x).pc \in {"mark", "idle"} /\ Fits(x, Opened(x))
           /\ InFocus(x, Opened(x)) => focus[Opened(x).h] \in Files
           /\ th[x] \in Thread /\ th[x].h \in Handles /\ th[x].h[1] \in InSession /\ th[x].h[1] \in Torrents
  <1>1. /\ x \in Threads /\ th[x] \in Thread /\ Fits(x, th[x]) /\ (InFocus(x, th[x]) => focus[th[x].h] \in Files)
        /\ th[x].h \in Handles /\ th[x].h[1] \in InSession /\ th[x].h[1] \in Torrents
    BY Stepping DEF Threads
  <1>2. CASE x \in Streams
    <2> DEFINE s == [th[x] EXCEPT !.pc = "mark"]
    <2>1. s \in Thread /\ s.pc = "mark" /\ s.h = th[x].h /\ s.open = th[x].open /\ s.todo = th[x].todo
      BY <1>1 DEF Thread
    <2>2. Opened(x) = s
      BY <1>2 DEF Opened
    <2> HIDE DEF s
    <2>3. Fits(x, s) /\ (InFocus(x, s) => focus[s.h] \in Files)
      BY <1>1, <1>2, <2>1, StreamAssumption DEF Fits, InFocus
    <2> QED  BY <1>1, <2>1, <2>2, <2>3
  <1>3. CASE x \notin Streams
    BY <1>1, <1>3, IdleIsFine DEF Opened
  <1> QED  BY <1>2, <1>3

LEMMA OpenKeeps ==
    ASSUME IInv, NEW x \in Streams \cup {Prefetcher}, Open(x)
    PROVE  IInv'
  <1> DEFINE h == th[x].h
             t == th[x].h[1]
  <1>1. th[x].pc = "open" /\ UNCHANGED <<table, active, focus, high, capped, finished, paused, flag>>
    BY DEF Open, fields, session
  <1>2. /\ x \in Threads /\ th[x] \in Thread /\ h \in Handles /\ t \in InSession /\ t \in Torrents
        /\ Opened(x) \in Thread /\ Opened(x).pc \in {"mark", "idle"} /\ Fits(x, Opened(x))
        /\ InFocus(x, Opened(x)) => focus[Opened(x).h] \in Files
        /\ Fits(x, th[x]) /\ (InFocus(x, th[x]) => focus[h] \in Files)
    BY <1>1, OpenedIsFine, Stepping
  <1>3. CASE Goto(x, "resume") /\ Decides("paused", h)
    <2> DEFINE s == [th[x] EXCEPT !.pc = "resume"]
    <2>1. th' = [th EXCEPT ![x] = s]
      BY <1>3 DEF Goto
    <2>2. s \in Thread /\ s.pc = "resume" /\ s.h = h /\ s.open = th[x].open /\ s.todo = th[x].todo
      BY <1>2 DEF Thread
    <2> HIDE DEF s
    <2>3. Moves(x, s)
      BY <1>1, <1>2, <2>1, <2>2, StreamAssumption DEF Moves, Fits, InFocus
    <2>4. raced' \in SUBSET Settings /\ \A d : d # Paused(t) => (d \in raced' <=> d \in raced)
      BY <1>2, <1>3, SettingsDiffer, DecidesIs DEF IInv, Paused
    <2>5. /\ \A u : ~WritesHigh(th[x], u) /\ ~WritesHigh(s, u) /\ ~WritesPaused(th[x], u)
          /\ ~WritesCaps(th[x]) /\ ~WritesCaps(s) /\ ~Pending(x, th[x])
          /\ \A u : ~Counts(th[x], u) /\ ~Counts(s, u)
          /\ WritesPaused(s, t)
      BY <1>1, <2>2 DEF WritesHigh, WritesPaused, WritesCaps, Pending, Counts
    <2>6. Active' = Active
      BY <1>1 DEF Active, Watched, InSession
    <2>7. Base'
      BY <1>1, <1>2, <2>3, <2>4, BaseKept DEF IInv, Base
    <2>8. Count'
      BY <1>1, <1>2, <2>3, <2>5, CountSame DEF IInv
    <2>9. HighInv'
      BY <1>1, <1>2, <2>3, <2>4, <2>5, <2>6, SettingsDiffer, HighSame DEF IInv
    <2>10. PausedInv'
      BY <1>1, <1>2, <1>3, <2>2, <2>3, <2>5, PausedDecided DEF IInv
    <2>11. CapsInv'
      BY <1>1, <1>2, <2>3, <2>4, <2>5, SettingsDiffer, CapsSame DEF IInv
    <2> QED  BY <2>7, <2>8, <2>9, <2>10, <2>11 DEF IInv
  <1>4. CASE th' = [th EXCEPT ![x] = Opened(x)] /\ UNCHANGED raced
    <2>1. Moves(x, Opened(x))
      BY <1>1, <1>2, <1>4 DEF Moves
    <2> QED  BY <1>1, <1>2, <1>4, <2>1, QuietKeeps DEF IInv, Base
  <1> QED  BY <1>3, <1>4 DEF Open

\* The session first.
LEMMA ResumeKeeps ==
    ASSUME IInv, NEW x \in Streams \cup {Prefetcher}, Resume(x)
    PROVE  IInv'
  <1> DEFINE t == th[x].h[1]
             s == [th[x] EXCEPT !.pc = "unflag"]
  <1>1. /\ x \in Threads
        /\ th[x].pc = "resume" /\ UNCHANGED <<table, active, focus, high, capped, finished, flag, raced>>
        /\ paused' = paused \ {t} /\ th' = [th EXCEPT ![x] = s]
    BY DEF Resume, Goto, Tor, fields, Threads
  <1>2. /\ th[x] \in Thread /\ Fits(x, th[x]) /\ (InFocus(x, th[x]) => focus[th[x].h] \in Files)
        /\ t \in InSession /\ t \in Torrents
    BY <1>1, Stepping
  <1>3. s \in Thread /\ s.pc = "unflag" /\ s.h = th[x].h /\ s.open = th[x].open /\ s.todo = th[x].todo
    BY <1>2 DEF Thread
  <1> HIDE DEF s
  <1>4. Moves(x, s)
    BY <1>1, <1>2, <1>3, StreamAssumption DEF Moves, Fits, InFocus
  <1>5. /\ \A u : ~WritesHigh(th[x], u) /\ ~WritesHigh(s, u)
        /\ ~WritesCaps(th[x]) /\ ~WritesCaps(s) /\ ~Pending(x, th[x])
        /\ \A u : ~Counts(th[x], u) /\ ~Counts(s, u)
        /\ WritesPaused(s, t) /\ WritesPaused(th[x], t)
    BY <1>1, <1>3 DEF WritesHigh, WritesPaused, WritesCaps, Pending, Counts
  <1>6. Active' = Active
    BY <1>1 DEF Active, Watched, InSession
  <1>7. Base'
    BY <1>1, <1>4, BaseKept DEF IInv, Base
  <1>8. Count' /\ HighInv' /\ CapsInv'
    BY <1>1, <1>4, <1>5, <1>6, CountSame, HighSame, CapsSame DEF IInv
  <1>9. PausedInv'
    BY <1>1, <1>2, <1>3, <1>4, <1>5, PausedSession DEF IInv
  <1> QED  BY <1>7, <1>8, <1>9 DEF IInv

\* Then the flag.
LEMMA UnflagKeeps ==
    ASSUME IInv, NEW x \in Streams \cup {Prefetcher}, Unflag(x)
    PROVE  IInv'
  <1> DEFINE h == th[x].h
             s == Opened(x)
  <1>1. /\ th[x].pc = "unflag" /\ UNCHANGED <<table, active, focus, high, capped, finished, paused, raced>>
        /\ flag' = flag \ {h} /\ th' = [th EXCEPT ![x] = s]
    BY DEF Unflag, session
  <1>2. /\ x \in Threads /\ th[x] \in Thread /\ h \in Handles /\ h[1] \in Torrents
        /\ s \in Thread /\ s.pc \in {"mark", "idle"} /\ Fits(x, s) /\ (InFocus(x, s) => focus[s.h] \in Files)
    BY <1>1, OpenedIsFine
  <1> HIDE DEF s
  <1>3. Moves(x, s)
    BY <1>1, <1>2 DEF Moves
  <1>4. /\ \A u : ~WritesHigh(th[x], u) /\ ~WritesHigh(s, u) /\ ~WritesPaused(s, u)
        /\ ~WritesCaps(th[x]) /\ ~WritesCaps(s) /\ ~Pending(x, th[x])
        /\ \A u : ~Counts(th[x], u) /\ ~Counts(s, u)
        /\ WritesPaused(th[x], h[1])
    BY <1>1, <1>2 DEF WritesHigh, WritesPaused, WritesCaps, Pending, Counts
  <1>5. Active' = Active
    BY <1>1 DEF Active, Watched, InSession
  <1>6. Base'
    BY <1>1, <1>2, <1>3, BaseKept DEF IInv, Base
  <1>7. Count' /\ HighInv' /\ CapsInv'
    BY <1>1, <1>2, <1>3, <1>4, <1>5, CountSame, HighSame, CapsSame DEF IInv
  <1>8. PausedInv'
    BY <1>1, <1>2, <1>3, <1>4, PausedFlagged DEF IInv
  <1> QED  BY <1>6, <1>7, <1>8 DEF IInv

\* The first stream promotes: it is counted, and decides what the priority will be.
LEMMA MarkKeeps ==
    ASSUME IInv, NEW x \in Streams, Mark(x)
    PROVE  IInv'
  <1> DEFINE h == th[x].h
             t == th[x].h[1]
  <1>1. /\ x \in Threads /\ th[x].pc = "mark"
        /\ UNCHANGED <<table, focus, high, capped, finished, paused, flag>>
        /\ active' = [active EXCEPT ![h] = @ + 1]
    BY DEF Mark, session, Threads
  <1>2. /\ th[x] \in Thread /\ Fits(x, th[x]) /\ th[x].open
        /\ h \in Handles /\ t \in InSession /\ t \in Torrents /\ focus[h] \in Files
    BY <1>1, Stepping DEF InFocus, Fits
  <1>3. active' \in [Handles -> Nat] /\ active'[h] = active[h] + 1 /\ \A k \in Handles \ {h} : active'[k] = active[k]
    BY <1>1, <1>2 DEF IInv, Base
  <1>4. /\ table[t] = h => t \in Active' /\ (t \in Active <=> active[h] # 0)
        /\ table[t] # h => (t \in Active' <=> t \in Active)
        /\ \A u \in Torrents \ {t} : u \in Active' <=> u \in Active
    BY <1>1, <1>2, <1>3 DEF Active, Watched, InSession, Tabled, IInv, Base
  <1>5. /\ \A u : ~WritesHigh(th[x], u) /\ ~WritesPaused(th[x], u) /\ ~Counts(th[x], u)
        /\ ~WritesCaps(th[x])
    BY <1>1 DEF WritesHigh, WritesPaused, WritesCaps, Counts
  <1>6. CASE active[h] = 0
    <2> DEFINE s == [th[x] EXCEPT !.pc = "promote"]
    <2>1. th' = [th EXCEPT ![x] = s] /\ Decides("high", h)
      BY <1>6 DEF Mark, Goto
    <2>2. s \in Thread /\ s.pc = "promote" /\ s.h = h /\ s.open /\ s.todo = th[x].todo
      BY <1>1, <1>2 DEF Thread
    <2> HIDE DEF s
    <2>3. Moves(x, s)
      BY <1>1, <1>2, <2>1, <2>2, StreamAssumption DEF Moves, Fits, InFocus
    <2>4. raced' \in SUBSET Settings /\ \A d : d # High(t) => (d \in raced' <=> d \in raced)
      BY <1>2, <2>1, SettingsDiffer, DecidesIs DEF IInv, High
    <2>5. /\ WritesHigh(s, t) /\ Raises(s) /\ Pending(x, s) /\ ~WritesCaps(s)
          /\ \A u : ~WritesPaused(s, u) /\ (Counts(s, u) <=> u = h)
      BY <2>2 DEF WritesHigh, Raises, Pending, WritesCaps, WritesPaused, Counts
    <2>6. Base'
      BY <1>1, <1>3, <2>3, <2>4, BaseKept DEF IInv, Base
    <2>7. Count'
      BY <1>1, <1>2, <1>5, <2>3, <2>5, CountMore DEF IInv
    <2>8. HighInv'
      BY <1>1, <1>2, <1>4, <1>5, <2>1, <2>2, <2>3, <2>5, HighDecided DEF IInv
    <2>9. PausedInv'
      BY <1>1, <1>5, <2>3, <2>4, <2>5, SettingsDiffer, PausedSame DEF IInv
    <2>10. CapsInv'
      BY <1>1, <1>5, <2>3, <2>4, <2>5, SettingsDiffer, CapsSame DEF IInv
    <2> QED  BY <2>6, <2>7, <2>8, <2>9, <2>10 DEF IInv
  <1>7. CASE active[h] # 0
    <2> DEFINE s == [th[x] EXCEPT !.pc = "policy"]
    <2>1. th' = [th EXCEPT ![x] = s] /\ raced' = raced
      BY <1>7 DEF Mark, Goto
    <2>2. s \in Thread /\ s.pc = "policy" /\ s.h = h /\ s.open /\ s.todo = th[x].todo
      BY <1>1, <1>2 DEF Thread
    <2> HIDE DEF s
    <2>3. Moves(x, s)
      BY <1>1, <1>2, <2>1, <2>2, StreamAssumption DEF Moves, Fits, InFocus
    <2>4. /\ \A u : ~WritesHigh(s, u) /\ ~WritesPaused(s, u) /\ (Counts(s, u) <=> u = h)
          /\ Pending(x, s) /\ ~WritesCaps(s)
      BY <2>2 DEF WritesHigh, Pending, WritesCaps, WritesPaused, Counts
    <2>5. \A u \in Torrents : u \in Active' <=> u \in Active
      BY <1>4, <1>7
    <2>6. Base'
      BY <1>1, <1>3, <2>1, <2>3, BaseKept DEF IInv, Base
    <2>7. Count'
      BY <1>1, <1>2, <1>5, <2>3, <2>4, CountMore DEF IInv
    <2>8. HighInv'
      BY <1>1, <1>5, <2>1, <2>3, <2>4, <2>5, HighSame DEF IInv
    <2>9. PausedInv' /\ CapsInv'
      BY <1>1, <1>5, <2>1, <2>3, <2>4, PausedSame, CapsSame DEF IInv
    <2> QED  BY <2>6, <2>7, <2>8, <2>9 DEF IInv
  <1> QED  BY <1>6, <1>7

\* The last stream demotes.
LEMMA CloseKeeps ==
    ASSUME IInv, NEW x \in Streams, Close(x)
    PROVE  IInv'
  <1> DEFINE h == th[x].h
             t == th[x].h[1]
  <1>1. /\ x \in Threads /\ th[x].pc = "stream"
        /\ UNCHANGED <<table, focus, high, capped, finished, paused, flag>>
        /\ active' = [active EXCEPT ![h] = @ - 1]
    BY DEF Close, Ends, session, Threads
  <1>2. /\ th[x] \in Thread /\ Fits(x, th[x]) /\ th[x].open
        /\ h \in Handles /\ t \in InSession /\ t \in Torrents /\ focus[h] \in Files
    BY <1>1, Stepping DEF InFocus, Fits
  <1>3. /\ \A u : ~WritesHigh(th[x], u) /\ ~WritesPaused(th[x], u) /\ (Counts(th[x], u) <=> u = h)
        /\ ~WritesCaps(th[x])
    BY <1>1, <1>2 DEF WritesHigh, WritesPaused, WritesCaps, Counts
  <1>4. CASE active[h] = 1
    <2> DEFINE s == [th[x] EXCEPT !.pc = "demote", !.open = FALSE]
    <2>1. th' = [th EXCEPT ![x] = s] /\ Decides("high", h)
      BY <1>1, <1>4 DEF Close, Ends, IInv, Base
    <2>2. s \in Thread /\ s.pc = "demote" /\ s.h = h /\ ~s.open /\ s.todo = th[x].todo
      BY <1>1, <1>2 DEF Thread
    <2> HIDE DEF s
    <2>3. Moves(x, s)
      BY <1>1, <1>2, <2>1, <2>2, StreamAssumption DEF Moves, Fits, InFocus
    <2>4. raced' \in SUBSET Settings /\ \A d : d # High(t) => (d \in raced' <=> d \in raced)
      BY <1>2, <2>1, SettingsDiffer, DecidesIs DEF IInv, High
    <2>5. /\ WritesHigh(s, t) /\ ~Raises(s) /\ Pending(x, s) /\ ~WritesCaps(s)
          /\ \A u : ~WritesPaused(s, u) /\ ~Counts(s, u)
      BY <2>2 DEF WritesHigh, Raises, Pending, WritesCaps, WritesPaused, Counts
    <2>6. Count'
      BY <1>1, <1>2, <1>3, <2>3, <2>5, CountLess DEF IInv
    <2>7. active' \in [Handles -> Nat] /\ active'[h] = 0 /\ \A u \in Handles \ {h} : active'[u] = active[u]
      BY <1>1, <1>2, <1>4 DEF IInv, Base
    <2>8. (table[t] = h => t \notin Active') /\ \A u \in Torrents \ {t} : u \in Active' <=> u \in Active
      BY <1>1, <1>2, <2>7 DEF Active, Watched, InSession, Tabled, IInv, Base
    <2>9. Base'
      BY <1>1, <2>3, <2>4, <2>7, BaseKept DEF IInv, Base
    <2>10. HighInv'
      BY <1>1, <1>2, <1>3, <2>1, <2>2, <2>3, <2>5, <2>8, HighDecided DEF IInv
    <2>11. PausedInv'
      BY <1>1, <1>3, <2>3, <2>4, <2>5, SettingsDiffer, PausedSame DEF IInv
    <2>12. CapsInv'
      BY <1>1, <1>3, <2>3, <2>4, <2>5, SettingsDiffer, CapsSame DEF IInv
    <2> QED  BY <2>6, <2>9, <2>10, <2>11, <2>12 DEF IInv
  <1>5. CASE active[h] # 1
    <2> DEFINE s == [th[x] EXCEPT !.pc = "policy", !.open = FALSE]
    <2>1. th' = [th EXCEPT ![x] = s] /\ raced' = raced
      BY <1>1, <1>5 DEF Close, Ends, IInv, Base
    <2>2. s \in Thread /\ s.pc = "policy" /\ s.h = h /\ ~s.open /\ s.todo = th[x].todo
      BY <1>1, <1>2 DEF Thread
    <2> HIDE DEF s
    <2>3. Moves(x, s)
      BY <1>1, <1>2, <2>1, <2>2, StreamAssumption DEF Moves, Fits, InFocus
    <2>4. /\ \A u : ~WritesHigh(s, u) /\ ~WritesPaused(s, u) /\ ~Counts(s, u)
          /\ Pending(x, s) /\ ~WritesCaps(s)
      BY <2>2 DEF WritesHigh, Pending, WritesCaps, WritesPaused, Counts
    <2>5. Count' /\ active[h] > 0
      BY <1>1, <1>2, <1>3, <2>3, <2>4, CountLess DEF IInv
    <2>6. /\ active' \in [Handles -> Nat] /\ active'[h] > 0
          /\ \A u \in Handles \ {h} : active'[u] = active[u]
      BY <1>1, <1>2, <1>5, <2>5 DEF IInv, Base
    <2>7. \A u \in Torrents : u \in Active' <=> u \in Active
      BY <1>1, <2>5, <2>6 DEF Active, Watched, InSession, Tabled, IInv, Base
    <2>8. Base'
      BY <1>1, <2>1, <2>3, <2>6, BaseKept DEF IInv, Base
    <2>9. HighInv'
      BY <1>1, <1>3, <2>1, <2>3, <2>4, <2>7, HighSame DEF IInv
    <2>10. PausedInv' /\ CapsInv'
      BY <1>1, <1>3, <2>1, <2>3, <2>4, PausedSame, CapsSame DEF IInv
    <2> QED  BY <2>5, <2>8, <2>9, <2>10 DEF IInv
  <1> QED  BY <1>4, <1>5

\* What was decided is written: Promote and Demote.
LEMMA PriorityKeeps ==
    ASSUME IInv, NEW x \in Streams, Promote(x) \/ Demote(x)
    PROVE  IInv'
  <1> DEFINE h == th[x].h
             t == th[x].h[1]
             s == [th[x] EXCEPT !.pc = "policy"]
  <1>1. /\ x \in Threads /\ th[x].pc \in {"promote", "demote"} /\ th' = [th EXCEPT ![x] = s]
        /\ UNCHANGED <<table, active, focus, capped, finished, paused, flag, raced>>
        /\ high' = [high EXCEPT ![t] = IF th[x].pc = "promote" THEN @ \cup Focused(x) ELSE @ \ Focused(x)]
    BY DEF Promote, Demote, Goto, Tor, fields, Threads
  <1>2. /\ th[x] \in Thread /\ Fits(x, th[x]) /\ (th[x].open <=> th[x].pc = "promote")
        /\ h \in Handles /\ t \in InSession /\ t \in Torrents /\ focus[h] \in Files
    BY <1>1, Stepping DEF InFocus, Fits
  <1>3. Focused(x) = {focus[h]}
    BY <1>2 DEF Focused
  <1>4. s \in Thread /\ s.pc = "policy" /\ s.h = h /\ s.open = th[x].open /\ s.todo = th[x].todo
    BY <1>2 DEF Thread
  <1> HIDE DEF s
  <1>5. Moves(x, s)
    BY <1>1, <1>2, <1>4, StreamAssumption DEF Moves, Fits, InFocus
  <1>6. /\ \A u : ~WritesHigh(s, u) /\ ~WritesPaused(th[x], u) /\ ~WritesPaused(s, u)
        /\ ~WritesCaps(th[x]) /\ ~WritesCaps(s) /\ Pending(x, s)
        /\ \A u : Counts(th[x], u) <=> Counts(s, u)
        /\ WritesHigh(th[x], t) /\ (Raises(th[x]) <=> th[x].pc = "promote")
    BY <1>1, <1>2, <1>4 DEF WritesHigh, WritesPaused, WritesCaps, Pending, Counts, Raises
  <1>7. /\ high' \in [Torrents -> SUBSET Files] /\ \A u \in Torrents \ {t} : high'[u] = high[u]
        /\ focus[h] \in high'[t] <=> Raises(th[x])
    BY <1>1, <1>2, <1>3, <1>6 DEF IInv, Base
  <1>8. Base'
    BY <1>1, <1>5, <1>7, BaseKept DEF IInv, Base
  <1>9. Count'
    BY <1>1, <1>5, <1>6, CountSame DEF IInv
  <1>10. HighInv'
    <2>1. ASSUME High(t) \notin raced
          PROVE  focus'[table[t]] \in high'[t] <=> Raises(th[x])
      <3>1. table[t] = h
        BY <1>1, <1>2, <1>6, <2>1 DEF IInv, HighInv
      <3> QED  BY <1>1, <1>7, <3>1
    <2> HIDE DEF t, h
    <2> QED  BY <1>1, <1>2, <1>5, <1>6, <1>7, <2>1, HighWritten DEF IInv
  <1>11. PausedInv' /\ CapsInv'
    BY <1>1, <1>5, <1>6, PausedSame, CapsSame DEF IInv
  <1> QED  BY <1>8, <1>9, <1>10, <1>11 DEF IInv

LEMMA PolicyKeeps ==
    ASSUME IInv, NEW x \in Streams, Policy(x)
    PROVE  IInv'
  <1> DEFINE any == Active # {}
             all == {table[t] : t \in InSession}
             s == [th[x] EXCEPT !.pc = "caps", !.act = any, !.todo = all]
  <1>1. /\ x \in Threads /\ th[x].pc = "policy"
        /\ UNCHANGED <<table, active, focus, high, capped, finished, paused, flag>>
        /\ raced' = With(raced, Caps, Writing(Caps) # {})
    BY DEF Policy, Caps, fields, session, Threads
  <1>2. th[x] \in Thread /\ Fits(x, th[x]) /\ (InFocus(x, th[x]) => focus[th[x].h] \in Files)
    BY <1>1, Stepping
  <1>3. th' = [th EXCEPT ![x] = s]
    BY <1>1 DEF Policy, IInv, Base
  <1>4. any \in BOOLEAN /\ all \in SUBSET Handles /\ \A h \in all : h[1] \in InSession
    BY DEF IInv, Base, Tabled
  <1> HIDE DEF any
  <1>5. /\ s \in Thread /\ s.pc = "caps" /\ s.h = th[x].h /\ s.open = th[x].open
        /\ s.act = any /\ s.todo = all
    BY <1>2, <1>4 DEF Thread
  <1> HIDE DEF s
  <1>6. Moves(x, s)
    BY <1>1, <1>2, <1>3, <1>4, <1>5, StreamAssumption DEF Moves, Fits, InFocus
  <1>7. raced' \in SUBSET Settings /\ \A d : d # Caps => (d \in raced' <=> d \in raced)
    BY <1>1, SettingsDiffer DEF IInv, Base, With
  <1>8. /\ \A u : /\ ~WritesHigh(th[x], u) /\ ~WritesHigh(s, u)
                  /\ ~WritesPaused(th[x], u) /\ ~WritesPaused(s, u)
                  /\ Counts(th[x], u) <=> Counts(s, u)
        /\ ~WritesCaps(th[x])
    BY <1>1, <1>5 DEF WritesHigh, WritesPaused, WritesCaps, Counts
  <1>9. Active' = Active
    BY <1>1 DEF Active, Watched, InSession
  <1>10. Base'
    BY <1>1, <1>6, <1>7, BaseKept DEF IInv, Base
  <1>11. Count'
    BY <1>1, <1>6, <1>8, CountSame DEF IInv
  <1>12. HighInv' /\ PausedInv'
    BY <1>1, <1>6, <1>7, <1>8, <1>9, SettingsDiffer, HighSame, PausedSame DEF IInv
  <1>13. CapsInv'
    BY <1>1, <1>5, <1>6, <1>8, CapsBegun DEF IInv, any
  <1> QED  BY <1>10, <1>11, <1>12, <1>13 DEF IInv

\* What the steps through the caps have in common.
LEMMA CapsStep ==
    ASSUME IInv, NEW x \in Streams, WritesCaps(th[x]), NEW s, s \in Thread,
           th' = [th EXCEPT ![x] = s], s.todo \subseteq th[x].todo,
           \/ s.pc \in {"caps", "limit"} /\ s.h = th[x].h /\ s.open = th[x].open
           \/ s.pc = "stream" /\ s.h = th[x].h /\ s.open /\ th[x].open
           \/ s = Idle /\ ~th[x].open,
           s.pc = "limit" => s.next \in Handles /\ s.next[1] \in InSession,
           capped' \in SUBSET InSession, UNCHANGED <<table, active, focus, high, finished, paused, flag, raced>>,
           CapsSoFar(th[x]) =>
              IF WritesCaps(s) THEN CapsGoneOn(s) ELSE \A t \in InSession : t \in capped' <=> ShouldCap(t)
    PROVE  IInv'
  <1>1. /\ x \in Threads /\ th[x] \in Thread /\ Fits(x, th[x]) /\ (InFocus(x, th[x]) => focus[th[x].h] \in Files)
        /\ th[x].h \in Handles /\ th[x].h[1] \in InSession
    BY Stepping DEF Threads, WritesCaps
  <1>2. s.pc # "idle" => focus[s.h] \in Files
    BY <1>1, IdleIsFine DEF InFocus, WritesCaps
  <1>3. Moves(x, s)
    BY <1>1, <1>2, IdleIsFine, StreamAssumption DEF Moves, Fits, InFocus
  <1>4. /\ \A u : /\ ~WritesHigh(th[x], u) /\ ~WritesHigh(s, u)
                  /\ ~WritesPaused(th[x], u) /\ ~WritesPaused(s, u)
                  /\ Counts(th[x], u) <=> Counts(s, u)
        /\ ~Pending(x, s)
    BY IdleIsFine DEF WritesHigh, WritesPaused, WritesCaps, Counts, Pending
  <1>5. Active' = Active
    BY DEF Active, Watched, InSession
  <1>6. Base'
    BY <1>1, <1>3, BaseKept DEF IInv, Base
  <1>7. Count' /\ HighInv' /\ PausedInv'
    BY <1>1, <1>3, <1>4, <1>5, CountSame, HighSame, PausedSame DEF IInv
  <1>8. CapsInv'
    <2>1. CASE \A y \in Threads : WritesCaps(th[y]) => y = x
      BY <1>1, <1>3, <1>4, <2>1, CapsGoOn DEF IInv
    <2>2. CASE \E y \in Threads : WritesCaps(th[y]) /\ y # x
      BY <1>1, <1>3, <2>2, CapsRaced DEF IInv
    <2> QED  BY <2>1, <2>2
  <1> QED  BY <1>6, <1>7, <1>8 DEF IInv

LEMMA CapKeeps ==
    ASSUME IInv, NEW x \in Streams, NEW h \in Handles, Cap(x, h)
    PROVE  IInv'
  <1> DEFINE cap == th[x].act /\ ~Watched(h)
             s == [th[x] EXCEPT !.pc = "limit", !.todo = @ \ {h}, !.next = h, !.cap = cap]
  <1>1. /\ x \in Threads /\ th[x].pc = "caps" /\ h \in th[x].todo
        /\ UNCHANGED <<table, active, focus, high, capped, finished, paused, flag, raced>>
    BY DEF Cap, fields, session, Threads
  <1>2. th[x] \in Thread /\ Fits(x, th[x])
    BY <1>1, Stepping
  <1>3. th' = [th EXCEPT ![x] = s]
    BY <1>1 DEF Cap, IInv, Base
  <1>4. h[1] \in InSession /\ cap \in BOOLEAN
    BY <1>1, <1>2 DEF Fits
  <1>5. h = table[h[1]] /\ (th[x].act <=> Active # {}) => (cap <=> ShouldCap(h[1]))
    BY <1>4 DEF ShouldCap, Active
  <1> HIDE DEF cap
  <1>6. /\ s \in Thread /\ s.pc = "limit" /\ s.h = th[x].h /\ s.open = th[x].open
        /\ s.act = th[x].act /\ s.todo = th[x].todo \ {h} /\ s.next = h /\ s.cap = cap
    BY <1>2, <1>4 DEF Thread
  <1> HIDE DEF s
  <1>7. CapsSoFar(th[x]) => CapsGoneOn(s)
    BY <1>1, <1>4, <1>5, <1>6 DEF CapsSoFar, CapsGoneOn
  <1> QED  BY <1>1, <1>3, <1>4, <1>6, <1>7, CapsStep DEF WritesCaps, IInv, Base

LEMMA LimitKeeps ==
    ASSUME IInv, NEW x \in Streams, Limit(x)
    PROVE  IInv'
  <1> DEFINE s == [th[x] EXCEPT !.pc = "caps", !.next = NoHandle, !.cap = FALSE]
             t == th[x].next[1]
  <1>1. /\ x \in Threads /\ th[x].pc = "limit" /\ th' = [th EXCEPT ![x] = s]
        /\ UNCHANGED <<table, active, focus, high, finished, paused, flag, raced>>
        /\ capped' = With(capped, t, th[x].cap)
    BY DEF Limit, fields, Threads
  <1>2. th[x] \in Thread /\ th[x].next \in Handles /\ t \in InSession
    BY <1>1, Stepping DEF Fits
  <1>3. /\ s \in Thread /\ s.pc = "caps" /\ s.h = th[x].h /\ s.open = th[x].open
        /\ s.act = th[x].act /\ s.todo = th[x].todo
    BY <1>2 DEF Thread
  <1> HIDE DEF s
  <1>4. capped' \in SUBSET InSession /\ \A u : u \in capped' <=> IF u = t THEN th[x].cap ELSE u \in capped
    BY <1>1, <1>2 DEF With, IInv, Base, Thread
  <1>5. CapsSoFar(th[x]) => CapsGoneOn(s)
    <2> SUFFICES ASSUME CapsSoFar(th[x])
                 PROVE  CapsGoneOn(s)
      OBVIOUS
    <2>1. th[x].next = table[t] /\ (th[x].cap <=> ShouldCap(t))
      BY <1>1 DEF CapsSoFar
    <2>2. \A u \in InSession : table[u] = table[t] => u = t
      BY <1>2 DEF IInv, Base, Tabled
    <2> QED  BY <1>1, <1>2, <1>3, <1>4, <2>1, <2>2 DEF CapsSoFar, CapsGoneOn
  <1> QED  BY <1>1, <1>3, <1>4, <1>5, CapsStep DEF WritesCaps

LEMMA CapsDoneKeeps ==
    ASSUME IInv, NEW x \in Streams, CapsDone(x)
    PROVE  IInv'
  <1> DEFINE on == [Idle EXCEPT !.pc = "stream", !.h = th[x].h, !.open = TRUE]
             s == IF th[x].open THEN on ELSE Idle
  <1>1. /\ x \in Threads /\ th[x].pc = "caps" /\ th[x].todo = {} /\ th' = [th EXCEPT ![x] = s]
        /\ UNCHANGED <<table, active, focus, high, capped, finished, paused, flag, raced>>
    BY DEF CapsDone, fields, session, Threads
  <1>2. th[x].h \in Handles
    BY <1>1, Stepping
  <1>3. on \in Thread /\ on.pc = "stream" /\ on.h = th[x].h /\ on.open /\ on.todo = {}
    BY <1>2, IdleIsFine DEF Thread
  <1> HIDE DEF on
  <1>4. s \in Thread /\ s.pc \in {"stream", "idle"} /\ s.todo = {}
    BY <1>3, IdleIsFine
  <1>5. CapsSoFar(th[x]) => \A t \in InSession : t \in capped' <=> ShouldCap(t)
    BY <1>1 DEF CapsSoFar
  <1>6. \/ s.pc = "stream" /\ s.h = th[x].h /\ s.open /\ th[x].open
        \/ s = Idle /\ ~th[x].open
    BY <1>3
  <1> HIDE DEF s
  <1> QED  BY <1>1, <1>4, <1>5, <1>6, CapsStep DEF WritesCaps, IInv, Base

----------------------------------------------------------------------------
\* The seed policy decides to pause.
LEMMA StopSeedingKeeps ==
    ASSUME IInv, NEW t \in Torrents, StopSeeding(t)
    PROVE  IInv'
  <1> DEFINE h == table[t]
             s == [Idle EXCEPT !.pc = "pause", !.h = h]
  <1>1. /\ Seeder \in Threads /\ th[Seeder].pc = "idle" /\ th' = [th EXCEPT ![Seeder] = s]
        /\ UNCHANGED <<table, active, focus, high, capped, finished, paused, flag>> /\ Decides("paused", h)
        /\ t \in InSession
    BY DEF StopSeeding, fields, session, Threads
  <1>2. h \in Handles /\ h[1] = t
    BY <1>1 DEF IInv, Base, Tabled
  <1>3. s \in Thread /\ s.pc = "pause" /\ s.h = h /\ s.todo = {}
    BY <1>2, IdleIsFine DEF Thread
  <1> HIDE DEF s, h
  <1>4. Moves(Seeder, s)
    BY <1>1, <1>2, <1>3, StreamAssumption DEF Moves, Fits, InFocus
  <1>5. raced' \in SUBSET Settings /\ \A d : d # Paused(t) => (d \in raced' <=> d \in raced)
    BY <1>1, <1>2, SettingsDiffer, DecidesIs DEF IInv, Paused
  <1>6. /\ \A u : /\ ~WritesHigh(th[Seeder], u) /\ ~WritesHigh(s, u)
                  /\ ~WritesPaused(th[Seeder], u)
        /\ ~WritesCaps(th[Seeder]) /\ ~WritesCaps(s) /\ ~Pending(Seeder, th[Seeder])
        /\ WritesPaused(s, h[1])
    BY <1>1, <1>2, <1>3 DEF WritesHigh, WritesPaused, WritesCaps, Pending
  <1>7. Active' = Active
    BY <1>1 DEF Active, Watched, InSession
  <1>8. Base'
    BY <1>1, <1>4, <1>5, BaseKept DEF IInv, Base
  <1>9. Count'
    BY <1>1, <1>4, StreamAssumption, CountSame DEF IInv
  <1>10. HighInv' /\ CapsInv'
    BY <1>1, <1>4, <1>5, <1>6, <1>7, SettingsDiffer, HighSame, CapsSame DEF IInv
  <1>11. PausedInv'
    BY <1>1, <1>2, <1>3, <1>4, <1>6, PausedDecided DEF IInv
  <1> QED  BY <1>8, <1>9, <1>10, <1>11 DEF IInv

\* The session first, ...
LEMMA PauseKeeps ==
    ASSUME IInv, Pause
    PROVE  IInv'
  <1> DEFINE t == th[Seeder].h[1]
             s == [th[Seeder] EXCEPT !.pc = "flag"]
  <1>1. /\ Seeder \in Threads /\ th[Seeder].pc = "pause"
        /\ th' = [th EXCEPT ![Seeder] = s] /\ paused' = paused \cup {t}
        /\ UNCHANGED <<table, active, focus, high, capped, finished, flag, raced>>
    BY DEF Pause, Goto, Tor, fields, Threads
  <1>2. /\ th[Seeder] \in Thread /\ Fits(Seeder, th[Seeder])
        /\ t \in InSession /\ t \in Torrents
    BY <1>1, Stepping
  <1>3. s \in Thread /\ s.pc = "flag" /\ s.h = th[Seeder].h /\ s.todo = th[Seeder].todo
    BY <1>2 DEF Thread
  <1> HIDE DEF s
  <1>4. Moves(Seeder, s)
    BY <1>1, <1>2, <1>3, StreamAssumption DEF Moves, Fits, InFocus
  <1>5. /\ \A u : ~WritesHigh(th[Seeder], u) /\ ~WritesHigh(s, u)
        /\ ~WritesCaps(th[Seeder]) /\ ~WritesCaps(s) /\ ~Pending(Seeder, th[Seeder])
        /\ WritesPaused(s, t) /\ WritesPaused(th[Seeder], t)
    BY <1>1, <1>3 DEF WritesHigh, WritesPaused, WritesCaps, Pending
  <1>6. Active' = Active
    BY <1>1 DEF Active, Watched, InSession
  <1>7. Base'
    BY <1>1, <1>2, <1>4, BaseKept DEF IInv, Base
  <1>8. Count'
    BY <1>1, <1>4, StreamAssumption, CountSame DEF IInv
  <1>9. HighInv' /\ CapsInv'
    BY <1>1, <1>4, <1>5, <1>6, HighSame, CapsSame DEF IInv
  <1>10. PausedInv'
    BY <1>1, <1>2, <1>3, <1>4, <1>5, PausedSession DEF IInv
  <1> QED  BY <1>7, <1>8, <1>9, <1>10 DEF IInv

\* ... then the flag.
LEMMA FlagKeeps ==
    ASSUME IInv, Flag
    PROVE  IInv'
  <1> DEFINE h == th[Seeder].h
  <1>1. /\ Seeder \in Threads /\ th[Seeder].pc = "flag"
        /\ th' = [th EXCEPT ![Seeder] = Idle] /\ flag' = flag \cup {h}
        /\ UNCHANGED <<table, active, focus, high, capped, finished, paused, raced>>
    BY DEF Flag, session, Threads
  <1>2. h \in Handles /\ h[1] \in Torrents
    BY <1>1, Stepping
  <1>3. Moves(Seeder, Idle)
    BY <1>1, IdleIsFine DEF Moves
  <1>4. /\ \A u : ~WritesHigh(th[Seeder], u) /\ ~WritesHigh(Idle, u) /\ ~WritesPaused(Idle, u)
        /\ ~WritesCaps(th[Seeder]) /\ ~WritesCaps(Idle) /\ ~Pending(Seeder, th[Seeder])
        /\ WritesPaused(th[Seeder], h[1])
    BY <1>1, IdleIsFine DEF WritesHigh, WritesPaused, WritesCaps, Pending
  <1>5. Active' = Active
    BY <1>1 DEF Active, Watched, InSession
  <1>6. Base'
    BY <1>1, <1>2, <1>3, BaseKept DEF IInv, Base
  <1>7. Count'
    BY <1>1, <1>3, StreamAssumption, CountSame DEF IInv
  <1>8. HighInv' /\ CapsInv'
    BY <1>1, <1>3, <1>4, <1>5, HighSame, CapsSame DEF IInv
  <1>9. PausedInv'
    BY <1>1, <1>2, <1>3, <1>4, PausedFlagged DEF IInv
  <1> QED  BY <1>6, <1>7, <1>8, <1>9 DEF IInv

LEMMA PrefetchKeeps ==
    ASSUME IInv, NEW t \in Torrents, Prefetch(t)
    PROVE  IInv'
  <1> DEFINE h == table[t]
             s == [Idle EXCEPT !.pc = "open", !.h = h]
  <1>1. /\ Prefetcher \in Threads /\ th[Prefetcher].pc = "idle" /\ th' = [th EXCEPT ![Prefetcher] = s]
        /\ UNCHANGED <<table, active, focus, high, capped, paused, flag, raced>>
        /\ finished' \in SUBSET Torrents /\ t \in InSession
    BY DEF Prefetch, Active, fields, Threads, IInv, Base
  <1>2. h \in Handles /\ h[1] = t
    BY <1>1 DEF IInv, Base, Tabled
  <1>3. s \in Thread /\ s.pc = "open" /\ s.h = h /\ s.todo = {}
    BY <1>2, IdleIsFine DEF Thread
  <1> HIDE DEF s, h
  <1>4. Moves(Prefetcher, s)
    BY <1>1, <1>2, <1>3, StreamAssumption DEF Moves, Fits, InFocus
  <1> QED  BY <1>1, <1>3, <1>4, QuietKeeps

\* Nothing but the data changes when the swarm delivers, and nothing at all when
\* nothing happens.
LEMMA CompleteKeeps ==
    ASSUME IInv, finished' \in SUBSET Torrents,
           UNCHANGED <<table, active, focus, high, capped, paused, flag, th, raced>>
    PROVE  IInv'
  <1>1. Active' = Active /\ InSession' = InSession
    BY DEF Active, Watched, InSession
  <1>2. Base' /\ Count'
    BY <1>1 DEF IInv, Base, Tabled, Fits, Count, Counted
  <1>3. HighInv' /\ PausedInv'
    BY <1>1 DEF IInv, HighInv, PausedInv
  <1>4. \A s : CapsSoFar(s)' <=> CapsSoFar(s)
    BY <1>1 DEF CapsSoFar, ShouldCap
  <1>5. CapsInv'
    BY <1>1, <1>4 DEF IInv, CapsInv, ShouldCap
  <1> QED  BY <1>2, <1>3, <1>5 DEF IInv

\* A Handle that nobody has takes its place in the table: what the others hold stays.
LEMMA AddKeeps ==
    ASSUME IInv, NEW t \in Torrents, Add(t)
    PROVE  IInv'
  <1> PICK h \in Handles : /\ h[1] = t /\ Unused(h)
                           /\ table' = [table EXCEPT ![t] = h]
                           /\ active' = [active EXCEPT ![h] = 0]
                           /\ focus' = [focus EXCEPT ![h] = NoFile]
                           /\ flag' = flag \ {h}
    BY DEF Add
  <1>1. /\ UNCHANGED <<high, capped, finished, paused, th>>
        /\ raced' = raced \cup {High(t), Caps} \cup IF t \in InSession THEN {Paused(t)} ELSE {}
    BY DEF Add, session, High, Paused, Caps
  <1>2. InSession' = InSession \cup {t} /\ table'[t] = h /\ \A u \in Torrents \ {t} : table'[u] = table[u]
    BY StreamAssumption DEF InSession, IInv, Base
  <1>3. \A u \in InSession \ {t} : table[u] # h
    BY HandlesAre DEF Unused
  <1>4. /\ Tabled' /\ table' \in [Torrents -> Handles \cup {NoHandle}]
        /\ active' \in [Handles -> Nat] /\ active'[h] = 0 /\ \A k \in Handles \ {h} : active'[k] = active[k]
        /\ focus' \in [Handles -> Files \cup {NoFile}] /\ \A k \in Handles \ {h} : focus'[k] = focus[k]
    BY <1>2, HandlesAre DEF Tabled, IInv, Base
  <1>5. \A x \in Threads : th[x].h # h
    BY DEF Unused
  <1>6. \A u \in Torrents \ {t} : u \in Active' <=> u \in Active
    BY <1>2, <1>3, <1>4 DEF Active, Watched, IInv, Base, Tabled
  <1>7. Base'
    <2>1. \A x \in Threads : Fits(x, th[x])' /\ (InFocus(x, th[x]) => focus'[th[x].h] \in Files)
      <3> SUFFICES ASSUME NEW x \in Threads
                   PROVE  Fits(x, th[x])' /\ (InFocus(x, th[x]) => focus'[th[x].h] \in Files)
        OBVIOUS
      <3>1. Fits(x, th[x])'
        BY <1>1, <1>2, Stepping DEF Fits
      <3>2. InFocus(x, th[x]) => focus'[th[x].h] \in Files
        BY <1>4, <1>5, Stepping DEF InFocus
      <3> QED  BY <3>1, <3>2
    <2>2. raced' \in SUBSET Settings
      BY <1>1, SettingsDiffer DEF IInv, Base
    <2>3. flag' \in SUBSET Handles /\ capped' \in SUBSET InSession' /\ paused' \in SUBSET InSession'
      BY <1>1, <1>2 DEF IInv, Base
    <2> QED  BY <1>1, <1>4, <2>1, <2>2, <2>3 DEF IInv, Base
  <1>8. Count'
    <2>1. \A k : Counted(k)' = Counted(k)
      BY <1>1 DEF Counted
    <2>2. Counted(h) = {}
      BY <1>5 DEF Counted, Counts, Threads
    <2>3. Cardinality(Counted(h)) = 0
      BY <2>2, FS_EmptySet
    <2> QED  BY <1>4, <2>1, <2>3 DEF Count, IInv
  <1>9. HighInv'
    <2> SUFFICES ASSUME NEW u \in InSession', High(u) \notin raced'
                 PROVE  /\ \A x \in Threads : WritesHigh(th[x], u) =>
                             /\ th[x].h = table'[u]
                             /\ Raises(th[x]) <=> u \in Active'
                             /\ th[x].pc = "set" => (th[x].file \in high[u] <=> Raises(th[x]))
                             /\ \A y \in Threads : WritesHigh(th[y], u) => y = x
                        /\ (\A x \in Threads : ~WritesHigh(th[x], u)) => (focus'[table'[u]] \in high[u] <=> u \in Active')
      BY <1>1 DEF HighInv
    <2>1. u # t /\ u \in InSession /\ u \in Torrents /\ High(u) \notin raced
      BY <1>1, <1>2, HandlesAre
    <2>2. table'[u] = table[u] /\ focus'[table[u]] = focus[table[u]] /\ (u \in Active' <=> u \in Active)
      BY <1>2, <1>3, <1>4, <1>6, <2>1 DEF IInv, Base, Tabled
    <2> QED  BY <2>1, <2>2 DEF IInv, HighInv
  <1>10. PausedInv'
    <2> SUFFICES ASSUME NEW u \in InSession', Paused(u) \notin raced'
                 PROVE  /\ \A x \in Threads : WritesPaused(th[x], u) =>
                             /\ th[x].h = table'[u]
                             /\ th[x].pc = "unflag" => u \notin paused
                             /\ th[x].pc = "flag" => u \in paused
                             /\ \A y \in Threads : WritesPaused(th[y], u) => y = x
                        /\ (\A x \in Threads : ~WritesPaused(th[x], u)) => (table'[u] \in flag' <=> u \in paused)
      BY <1>1 DEF PausedInv
    <2>1. CASE u \in InSession
      <3>1. u # t /\ Paused(u) \notin raced /\ u \in Torrents
        BY <1>1, <2>1, HandlesAre
      <3>2. table'[u] = table[u] /\ (table[u] \in flag' <=> table[u] \in flag)
        BY <1>2, <1>3, <2>1, <3>1
      <3> QED  BY <2>1, <3>1, <3>2 DEF IInv, PausedInv
    <2>2. CASE u \notin InSession
      <3>1. u = t /\ u \notin paused /\ table'[u] \notin flag'
        BY <1>2, <2>2 DEF IInv, Base
      <3>2. \A x \in Threads : ~WritesPaused(th[x], u)
        BY <2>2, Stepping DEF WritesPaused
      <3> QED  BY <3>1, <3>2
    <2> QED  BY <2>1, <2>2
  <1>11. CapsInv'
    BY <1>1 DEF CapsInv
  <1> QED  BY <1>7, <1>8, <1>9, <1>10, <1>11 DEF IInv

----------------------------------------------------------------------------
LEMMA InitHolds == Init => IInv
  <1> SUFFICES ASSUME Init
               PROVE  IInv
    OBVIOUS
  <1>1. \A x \in Threads : th[x] = Idle
    BY DEF Init
  <1>2. InSession = {}
    BY DEF Init, InSession
  <1>3. Active = {}
    BY <1>2 DEF Active
  <1>4. /\ \A u : ~WritesHigh(Idle, u) /\ ~WritesPaused(Idle, u) /\ ~Counts(Idle, u)
        /\ ~WritesCaps(Idle)
    BY IdleIsFine DEF WritesHigh, WritesPaused, WritesCaps, Counts
  <1>5. Base
    BY <1>1, <1>2, IdleIsFine DEF Init, Base, Tabled
  <1>6. Count
    <2>1. \A t : Counted(t) = {}
      BY <1>1, <1>4 DEF Counted, Threads
    <2> QED  BY <2>1, FS_EmptySet DEF Count, Init
  <1>7. HighInv /\ PausedInv
    BY <1>2 DEF HighInv, PausedInv
  <1>8. CapsInv
    BY <1>1, <1>2, <1>4 DEF CapsInv
  <1> QED  BY <1>5, <1>6, <1>7, <1>8 DEF IInv

LEMMA StepKeeps == IInv /\ [Next]_vars => IInv'
  <1> SUFFICES ASSUME IInv, [Next]_vars
               PROVE  IInv'
    OBVIOUS
  <1>1. CASE UNCHANGED vars
    BY <1>1, CompleteKeeps DEF vars, IInv, Base
  <1>2. ASSUME NEW x \in Streams, StreamStep(x)
        PROVE  IInv'
    <2>1. CASE Admit(x) \/ Focus(x) \/ FocusApply(x) \/ FocusSet(x) \/ ServeEnds(x)
      BY <2>1, AdmitKeeps, FocusKeeps, FocusApplyKeeps, FocusSetKeeps, ServeEndsKeeps
    <2>2. CASE Mark(x) \/ Promote(x) \/ Close(x) \/ Demote(x)
      BY <2>2, MarkKeeps, PriorityKeeps, CloseKeeps
    <2>3. CASE Policy(x) \/ Limit(x) \/ CapsDone(x)
      BY <2>3, PolicyKeeps, LimitKeeps, CapsDoneKeeps
    <2>4. ASSUME NEW t \in Torrents, NEW f \in Files, Serve(x, t, f)
          PROVE  IInv'
      BY <2>4, ServeKeeps
    <2>5. ASSUME NEW h \in Handles, Cap(x, h)
          PROVE  IInv'
      BY <2>5, CapKeeps
    <2> QED  BY <1>2, <2>1, <2>2, <2>3, <2>4, <2>5 DEF StreamStep
  <1>3. ASSUME NEW x \in Streams \cup {Prefetcher}, Open(x) \/ Resume(x) \/ Unflag(x)
        PROVE  IInv'
    BY <1>3, OpenKeeps, ResumeKeeps, UnflagKeeps
  <1>4. ASSUME NEW t \in Torrents, Add(t) \/ StopSeeding(t) \/ Prefetch(t) \/ Complete(t)
        PROVE  IInv'
    <2>1. CASE StopSeeding(t)
      BY <2>1, StopSeedingKeeps
    <2>2. CASE Prefetch(t)
      BY <2>2, PrefetchKeeps
    <2>3. CASE Complete(t)
      BY <2>3, CompleteKeeps DEF Complete, fields, IInv, Base
    <2>4. CASE Add(t)
      BY <2>4, AddKeeps
    <2> QED  BY <1>4, <2>1, <2>2, <2>3, <2>4
  <1>5. CASE Pause \/ Flag
    BY <1>5, PauseKeeps, FlagKeeps
  <1> QED  BY <1>1, <1>2, <1>3, <1>4, <1>5 DEF Next

\* The types of the torrents' settings and of the threads that change them.
THEOREM TypeCorrect == Spec => []TypeOK
  <1>1. IInv => TypeOK
    <2> SUFFICES ASSUME IInv
                 PROVE  TypeOK
      OBVIOUS
    <2>1. Cardinality(Streams) \in Nat
      BY StreamAssumption, FS_CardinalityType
    <2>2. \A h \in Handles : active[h] \in 0..Cardinality(Streams)
      BY <2>1, CountedFinite DEF IInv, Count
    <2>3. active \in [Handles -> 0..Cardinality(Streams)]
      BY <2>2 DEF IInv, Base
    <2>4. capped \in SUBSET Torrents /\ paused \in SUBSET Torrents
      BY HandlesAre DEF IInv, Base
    <2> QED  BY <2>3, <2>4 DEF IInv, Base, TypeOK, Fits
  <1> QED  BY <1>1, InitHolds, StepKeeps, PTL DEF Spec

\* Handle._active is the number of streams opened through the Handle and not closed
\* (mark_active, mark_idle), whatever the order they come and go in, also after
\* Engine.add has put another Handle in the table.
THEOREM CountIsRight == Spec => []ActiveCountsStreams
  <1>1. IInv => ActiveCountsStreams
    BY DEF IInv, Count, Counted, Counts, ActiveCountsStreams
  <1> QED  BY <1>1, InitHolds, StepKeeps, PTL DEF Spec

\* Whatever the threads and Engine.add did before, once a thread alone has decided on
\* a setting through the table's Handle and has written it, priority, caps and flag
\* agree with the streams and the session (focus_file, mark_active, mark_idle,
\* _apply_bandwidth_policy, pause, resume).
THEOREM SettingsAgree == Spec => []SettledAgrees
  <1>1. IInv => SettledAgrees
    <2> SUFFICES ASSUME IInv
                 PROVE  SettledAgrees
      OBVIOUS
    <2>1. ASSUME NEW t \in InSession, Settled(High(t))
          PROVE  focus[table[t]] \in high[t] <=> t \in Active
      <3>1. High(t) \notin raced /\ \A x \in Threads : ~WritesHigh(th[x], t)
        BY <2>1, WritingIs DEF Settled
      <3> QED  BY <3>1 DEF IInv, HighInv
    <2>2. ASSUME NEW t \in InSession, Settled(Paused(t))
          PROVE  table[t] \in flag <=> t \in paused
      BY <2>2, WritingIs DEF Settled, IInv, PausedInv
    <2>3. ASSUME Settled(Caps), \A x \in Streams : th[x].pc \notin {"promote", "demote", "policy"}
          PROVE  capped = IF Active = {} THEN {} ELSE InSession \ Active
      <3>1. \A t \in InSession : t \in capped <=> ShouldCap(t)
        BY <2>3, WritingIs DEF Settled, IInv, CapsInv, Pending
      <3> QED  BY <3>1 DEF ShouldCap, IInv, Base
    <2> QED  BY <2>1, <2>2, <2>3 DEF SettledAgrees, High, Paused, Caps
  <1> QED  BY <1>1, InitHolds, StepKeeps, PTL DEF Spec
=============================================================================
