--------------------------- MODULE FileSelectionProofs ---------------------------
(* Proofs about FileSelection, for any torrents, files, selectors and threads. *)
EXTENDS FileSelection, TLAPS

\* What a thread may be at: whoever has a handle of the table knows a torrent that is
\* there, and one that add() has replaced belongs to a torrent that was raced for.
Fit(r) ==
    /\ r.pc = "idle" => r = Idle
    /\ r.pc = "scan" => r.hd = NoHandle
    /\ r.hd # NoHandle => r.tor \in Torrents
    /\ r.hd = InTable => Open(r.tor)
    /\ r.hd \in Handle => r.tor \in raced
    /\ r.pc \in {"apply", "pin"} => r.hd # NoHandle
    /\ r.pc \in {"want", "append", "writeWant"} => r.spec \in Specs
    /\ r.then # "idle" => r.pc = "apply"
    /\ r.file \in Files => r.pc = "apply" /\ r.then = "idle"

\* The files somebody downloads or plays through the handle of the table.
Chosen(t) == handle[t].wanted \cup Focused(handle[t])

\* What applying the list of a thread will leave of them.
Listed(r, t) ==
    /\ handle[t].wanted \subseteq r.list
    /\ IF r.file \in Files THEN r.file \in r.list ELSE Focused(handle[t]) \subseteq r.list
    /\ r.then = "savePin" /\ handle[t].wanted # {} => r.list \subseteq prio[t]

\* One thread at a time changes the priorities of a torrent that was not raced for, and
\* what is chosen is fetched, or will be.
PriorityFits(t) ==
    t \notin raced =>
      /\ \A x, y \in Updating(t) : x = y
      /\ Open(t) /\ Updating(t) = {} => Chosen(t) \subseteq prio[t]
      /\ \A x \in Updating(t) : Open(t) =>
           IF th[x].hd = InTable THEN Listed(th[x], t) ELSE Chosen(t) \subseteq prio[t]

\* Who asks for a torrent, and how far the removal of one is.
Asking(r) ==
    \/ r.pc \in {"want", "append", "writeWant", "discard", "pin", "savePin", "writePin"}
    \/ r.then = "savePin"
Saving(r) == r.pc \in {"saveRemove", "writeRemove"} \/ r.then = "saveRemove"
Unwanting(x) ==
    \/ Saving(th[x]) \/ th[x].pc = "unwant"
    \/ th[x].pc = "writeUnwant" /\ wantedRead[x][th[x].tor] # {}
Leaving(r) == Saving(r) \/ r.pc \in {"unwant", "writeUnwant", "drop"}

GoneFits(t) ==
    /\ t \notin pinned \cup wkeys
    /\ \A x \in Clients : th[x].tor = t => ~Asking(th[x])
    /\ t \in pinsFile => \E x \in Clients : th[x].tor = t /\ Saving(th[x])
    /\ wantedFile[t] # {} => \E x \in Clients : th[x].tor = t /\ Unwanting(x)
    /\ Open(t) => \E x \in Clients : th[x].tor = t /\ Leaving(th[x])

IInv ==
    /\ TypeOK
    /\ \A x \in Threads : Fit(th[x])
    /\ \A t \in Torrents : PriorityFits(t)
    /\ \A t \in gone \ lost : GoneFits(t)

----------------------------------------------------------------------------
(* What the steps share.                                                    *)

LEMMA IdleFits ==
    /\ Idle \in Thread /\ Idle.pc = "idle" /\ Idle.tor = NoTorrent /\ Idle.hd = NoHandle
    /\ Idle.file = NoFile /\ Idle.list = {} /\ Idle.then = "idle" /\ Idle.todo = {}
  BY DEF Idle, Thread, Held

\* The values of the threads' parts.
LEMMA ThreadIs ==
    ASSUME TypeOK, NEW x \in Threads
    PROVE  /\ th[x] \in Thread
           /\ th[x].pc \notin {"idle", "scan"} => th[x].tor \in Torrents
  BY DEF TypeOK

LEMMA GoneKeeps ==
    ASSUME NEW t, GoneFits(t), NEW x \in Threads,
           \A y \in Clients \ {x} : /\ th'[y].pc = th[y].pc /\ th'[y].tor = th[y].tor
                                    /\ th'[y].then = th[y].then,
           \A y \in Clients \ {x} : wantedRead'[y] = wantedRead[y],
           t \notin pinned' \cup wkeys',
           x \in Clients /\ th'[x].tor = t => ~Asking(th'[x]),
           t \in pinsFile' => t \in pinsFile /\
              (th[x].tor = t /\ Saving(th[x]) => th'[x].tor = t /\ Saving(th'[x])),
           wantedFile'[t] # {} => wantedFile[t] # {} /\
              (th[x].tor = t /\ Unwanting(x) => th'[x].tor = t /\ Unwanting(x)'),
           Open(t)' => Open(t) /\
              (th[x].tor = t /\ Leaving(th[x]) => th'[x].tor = t /\ Leaving(th'[x]))
    PROVE  GoneFits(t)'
  <1>1. ASSUME NEW y \in Clients, y # x
        PROVE  /\ th'[y].tor = th[y].tor /\ wantedRead'[y] = wantedRead[y]
               /\ Asking(th'[y]) = Asking(th[y]) /\ Saving(th'[y]) = Saving(th[y])
               /\ Unwanting(y)' = Unwanting(y) /\ Leaving(th'[y]) = Leaving(th[y])
    <2>1. /\ th'[y].pc = th[y].pc /\ th'[y].tor = th[y].tor /\ th'[y].then = th[y].then
          /\ wantedRead'[y] = wantedRead[y]
      BY <1>1
    <2> QED  BY <2>1 DEF Asking, Saving, Unwanting, Leaving
  <1>2. \A y \in Clients : th'[y].tor = t => ~Asking(th'[y])
    BY <1>1 DEF GoneFits
  <1>3. t \in pinsFile' => \E y \in Clients : th'[y].tor = t /\ Saving(th'[y])
    BY <1>1 DEF GoneFits
  <1>4. wantedFile'[t] # {} => \E y \in Clients : th'[y].tor = t /\ Unwanting(y)'
    BY <1>1 DEF GoneFits
  <1>5. Open(t)' => \E y \in Clients : th'[y].tor = t /\ Leaving(th'[y])
    BY <1>1 DEF GoneFits
  <1> QED  BY <1>2, <1>3, <1>4, <1>5 DEF GoneFits

LEMMA GoneSame ==
    ASSUME NEW t, GoneFits(t), Open(t)' = Open(t),
           UNCHANGED <<pinned, wkeys, pinsFile, wantedFile, wantedRead, th>>
    PROVE  GoneFits(t)'
  BY DEF GoneFits, Asking, Saving, Unwanting, Leaving

\* The priorities of a torrent nobody touches.
LEMMA PrioritySame ==
    ASSUME NEW t, PriorityFits(t), t \in raced => t \in raced',
           handle'[t] = handle[t], prio'[t] = prio[t],
           Updating(t)' = Updating(t), \A y \in Updating(t) : th'[y] = th[y]
    PROVE  PriorityFits(t)'
  BY DEF PriorityFits, Chosen, Listed, Focused, Open

\* A step of one thread that neither computes nor applies priorities.
ReadsFit ==
    /\ pinsRead \in [Savers -> SUBSET Torrents]
    /\ wantedRead \in [Savers -> [Torrents -> SUBSET Specs]]
    /\ elsewhere \in {"idle", "pins", "wanted"}

LEMMA QuietStep ==
    ASSUME IInv, NEW x \in Threads, NEW r \in Thread, th' = [th EXCEPT ![x] = r],
           th[x].pc # "apply", r.pc # "apply", Fit(r), r.pc \notin {"idle", "scan"} => r.tor \in Torrents,
           UNCHANGED <<handle, meta, prio, raced>>,
           pinned' \in SUBSET Torrents, wkeys' \in SUBSET Torrents, applied' \in SUBSET Torrents,
           wanted' \in [Torrents -> SUBSET Specs], pinsFile' \in SUBSET Torrents,
           wantedFile' \in [Torrents -> SUBSET Specs], gone' \in SUBSET Torrents,
           ReadsFit', lost' \in SUBSET Torrents,
           \A t \in gone' \ lost' : GoneFits(t)'
    PROVE  IInv'
  <1>1. \A y \in Threads : th'[y] = IF y = x THEN r ELSE th[y]
    BY DEF IInv, TypeOK
  <1>2. TypeOK'
    BY <1>1 DEF IInv, TypeOK, ReadsFit
  <1>3. ASSUME NEW y \in Threads
        PROVE  Fit(th[y])'
    <2>1. Fit(th[y]) /\ Fit(r)
      BY DEF IInv
    <2> QED  BY <1>1, <2>1 DEF Fit, Open
  <1>4. ASSUME NEW t \in Torrents
        PROVE  PriorityFits(t)'
    <2>1. PriorityFits(t) /\ Updating(t)' = Updating(t) /\ \A y \in Updating(t) : th'[y] = th[y]
      BY <1>1 DEF IInv, Updating
    <2>2. handle'[t] = handle[t] /\ prio'[t] = prio[t] /\ (t \in raced => t \in raced')
      OBVIOUS
    <2> QED  BY <2>1, <2>2, PrioritySame
  <1> QED  BY <1>2, <1>3, <1>4 DEF IInv

\* What a thread is not, where it is not applying priorities.
LEMMA NotApplying ==
    ASSUME IInv, NEW x \in Threads, th[x].pc # "apply"
    PROVE  th[x].then = "idle" /\ th[x].file \notin Files /\ th[x] \in Thread /\ Fit(th[x])
  BY ThreadIs DEF IInv, Fit

\* Where it is asked for a torrent, the torrent is not one that is gone.
LEMMA AskingNotGone ==
    ASSUME IInv, NEW t \in gone \ lost, NEW x \in Clients, Asking(th[x])
    PROVE  th[x].tor # t
  BY DEF IInv, GoneFits

LEMMA TypesAre ==
    ASSUME IInv
    PROVE  /\ pinned \in SUBSET Torrents /\ wkeys \in SUBSET Torrents /\ applied \in SUBSET Torrents
           /\ wanted \in [Torrents -> SUBSET Specs] /\ pinsFile \in SUBSET Torrents
           /\ wantedFile \in [Torrents -> SUBSET Specs] /\ gone \in SUBSET Torrents
           /\ raced \in SUBSET Torrents /\ lost \in SUBSET Torrents /\ ReadsFit
           /\ NoneWanted \in [Torrents -> SUBSET Specs]
           /\ Clients \subseteq Savers /\ Elsewhere \in Savers /\ Elsewhere \notin Clients
           /\ Clients \subseteq Threads /\ Alerts \in Threads /\ Alerts \notin Clients
  BY SelectionAssumption DEF IInv, TypeOK, Threads, Savers, ReadsFit, NoneWanted

\* The parts of the registry files, in a step that leaves them alone.
LEMMA FilesSame ==
    ASSUME UNCHANGED files
    PROVE  UNCHANGED <<pinsFile, wantedFile, pinsRead, wantedRead, elsewhere, lost>>
  BY DEF files, reads

----------------------------------------------------------------------------
(* The steps that leave the priorities alone.                               *)

\* A quiet step that changes no registry: nobody starts to ask, no removal is dropped.
LEMMA QuietGoes ==
    ASSUME IInv, NEW x \in Threads, NEW r \in Thread, th' = [th EXCEPT ![x] = r],
           th[x].pc \notin {"apply", "saveRemove", "writeRemove", "unwant", "writeUnwant", "drop"},
           r.pc # "apply", Fit(r),
           r.pc \notin {"idle", "scan"} => r.tor \in Torrents,
           x \in Clients /\ Asking(r) => r.tor \notin gone',
           UNCHANGED <<handle, meta, prio, raced, pinned, wkeys, wanted, files>>,
           applied' \in SUBSET Torrents, gone' \subseteq gone
    PROVE  IInv'
  <1>1. th'[x] = r /\ \A y \in Threads \ {x} : th'[y] = th[y]
    BY DEF IInv, TypeOK
  <1>2. th[x].then = "idle"
    BY NotApplying
  <1>a. UNCHANGED <<pinsFile, wantedFile, pinsRead, wantedRead, elsewhere, lost>>
    BY DEF files, reads
  <1>b. ReadsFit'
    BY <1>a, TypesAre DEF ReadsFit
  <1>3. ASSUME NEW t \in gone' \ lost'
        PROVE  GoneFits(t)'
    <2>1. GoneFits(t) /\ t \notin pinned \cup wkeys
      BY <1>a DEF IInv, GoneFits
    <2>2. ~Saving(th[x]) /\ ~Unwanting(x) /\ ~Leaving(th[x])
      BY <1>2 DEF Saving, Unwanting, Leaving
    <2>3. \A y \in Clients \ {x} : th'[y] = th[y]
      BY <1>1, TypesAre
    <2>4. x \in Clients /\ th'[x].tor = t => ~Asking(th'[x])
      BY <1>1
    <2>5. Open(t)' = Open(t)
      BY DEF Open
    <2> QED  BY <1>a, <2>1, <2>2, <2>3, <2>4, <2>5, GoneKeeps
  <1> QED  BY <1>a, <1>b, <1>3, QuietStep, TypesAre

LEMMA ScanStarts ==
    ASSUME NEW S \in SUBSET Torrents
    PROVE  \E r \in Thread : /\ r = [Idle EXCEPT !.pc = "scan", !.todo = S]
                             /\ r.pc = "scan" /\ r.then = "idle" /\ Fit(r)
  <1> DEFINE r == [Idle EXCEPT !.pc = "scan", !.todo = S]
  <1>1. r \in Thread /\ r.pc = "scan" /\ r.then = "idle" /\ r.hd = NoHandle /\ r.file = NoFile
    BY DEF Idle, Thread, Held
  <1> HIDE DEF r
  <1>2. Fit(r)
    BY <1>1, SelectionAssumption, HandleAssumption DEF Fit
  <1> QED  BY <1>1, <1>2 DEF r

LEMMA IdleIsFit == Fit(Idle)
  BY IdleFits, SelectionAssumption, HandleAssumption DEF Fit

LEMMA WantDiscardStep ==
    ASSUME IInv, NEW x \in Clients, WantDiscard(x)
    PROVE  IInv'
  <1>1. PICK r \in Thread : /\ r = [Idle EXCEPT !.pc = "scan", !.todo = wkeys]
                            /\ r.pc = "scan" /\ r.then = "idle" /\ Fit(r)
    BY ScanStarts, TypesAre
  <1>2. th' = [th EXCEPT ![x] = r] /\ ~Asking(r)
    BY <1>1 DEF WantDiscard, Asking
  <1>3. applied' \in SUBSET Torrents
    BY TypesAre DEF WantDiscard
  <1> QED  BY <1>1, <1>2, <1>3, QuietGoes, TypesAre DEF WantDiscard, files

LEMMA AlertsScanStep ==
    ASSUME IInv, AlertsScan
    PROVE  IInv'
  <1>1. PICK r \in Thread : /\ r = [Idle EXCEPT !.pc = "scan", !.todo = wkeys]
                            /\ r.pc = "scan" /\ r.then = "idle" /\ Fit(r)
    BY ScanStarts, TypesAre
  <1>2. th' = [th EXCEPT ![Alerts] = r] /\ ~Asking(r)
    BY <1>1 DEF AlertsScan, Asking
  <1> QED  BY <1>1, <1>2, QuietGoes, TypesAre DEF AlertsScan, engine, files

LEMMA ScanSkipStep ==
    ASSUME IInv, NEW x \in Threads, NEW t \in Torrents, ScanSkip(x, t)
    PROVE  IInv'
  <1> DEFINE r == [th[x] EXCEPT !.todo = @ \ {t}]
  <1>1. th[x] \in Thread /\ th[x].then = "idle" /\ th[x].pc = "scan" /\ th[x].hd = NoHandle
        /\ th[x].file \notin Files
    BY NotApplying DEF ScanSkip, Fit
  <1>2. r \in Thread /\ r.pc = "scan" /\ r.then = "idle" /\ r.hd = NoHandle /\ r.file \notin Files
    BY <1>1 DEF Thread
  <1>3. th' = [th EXCEPT ![x] = r]
    BY DEF ScanSkip
  <1> HIDE DEF r
  <1>4. Fit(r) /\ ~Asking(r)
    BY <1>2, HandleAssumption DEF Fit, Asking
  <1> QED  BY <1>1, <1>2, <1>3, <1>4, QuietGoes, TypesAre DEF ScanSkip, engine, files

LEMMA ScanMarkStep ==
    ASSUME IInv, NEW x \in Threads, ScanMark(x)
    PROVE  IInv'
  <1>0. th[x] \in Thread /\ th[x].pc = "mark" /\ th[x].tor \in Torrents
    BY ThreadIs DEF IInv, ScanMark
  <1>1. th[x].todo \ {th[x].tor} \in SUBSET Torrents
    BY <1>0 DEF Thread
  <1>2. PICK r \in Thread : /\ r = [Idle EXCEPT !.pc = "scan", !.todo = th[x].todo \ {th[x].tor}]
                            /\ r.pc = "scan" /\ r.then = "idle" /\ Fit(r)
    BY <1>1, ScanStarts
  <1>3. th' = [th EXCEPT ![x] = r] /\ ~Asking(r)
    BY <1>2 DEF ScanMark, Asking
  <1>4. applied' \in SUBSET Torrents
    BY <1>0, TypesAre DEF ScanMark
  <1> QED  BY <1>0, <1>2, <1>3, <1>4, QuietGoes, TypesAre DEF ScanMark, files

LEMMA ScanDoneStep ==
    ASSUME IInv, NEW x \in Threads, ScanDone(x)
    PROVE  IInv'
  <1>1. ~Asking(Idle)
    BY IdleFits DEF Asking
  <1> QED  BY <1>1, IdleFits, IdleIsFit, QuietGoes, TypesAre DEF ScanDone, engine, files

LEMMA PinRefusedStep ==
    ASSUME IInv, NEW x \in Clients, PinRefused(x)
    PROVE  IInv'
  <1>1. ~Asking(Idle)
    BY IdleFits DEF Asking
  <1> QED  BY <1>1, IdleFits, IdleIsFit, QuietGoes, TypesAre DEF PinRefused, engine, files

LEMMA PinGetStep ==
    ASSUME IInv, NEW x \in Clients, NEW t \in Torrents, PinGet(x, t)
    PROVE  IInv'
  <1> DEFINE r == [Idle EXCEPT !.pc = "pin", !.tor = t, !.hd = InTable]
  <1>1. r \in Thread /\ r.pc = "pin" /\ r.tor = t /\ r.hd = InTable /\ r.then = "idle" /\ r.file = NoFile
    BY DEF Idle, Thread, Held
  <1>2. th' = [th EXCEPT ![x] = r] /\ Open(t)
    BY DEF PinGet
  <1> HIDE DEF r
  <1>3. Fit(r)
    BY <1>1, <1>2, SelectionAssumption, HandleAssumption DEF Fit
  <1>4. r.tor \notin gone' /\ gone' \subseteq gone
    BY <1>1 DEF PinGet
  <1>5. applied' \in SUBSET Torrents /\ x \in Threads
    BY TypesAre DEF PinGet, engine
  <1> QED  BY <1>1, <1>2, <1>3, <1>4, <1>5, QuietGoes DEF PinGet, engine, files

\* A thread that goes on with the same torrent.
LEMMA GoesOn ==
    ASSUME IInv, NEW x \in Threads, th[x].pc # "apply",
           NEW p \in {"append", "writeWant", "discard", "writePin", "writeUnpin", "writeRemove",
                      "writeUnwant", "drop"},
           Goto(x, p), th[x].tor \in Torrents,
           p \in {"append", "writeWant"} => th[x].pc \in {"want", "append"}
    PROVE  \E r \in Thread : /\ th' = [th EXCEPT ![x] = r] /\ r.pc = p /\ r.tor = th[x].tor
                             /\ r.then = "idle" /\ Fit(r)
  <1> DEFINE r == [th[x] EXCEPT !.pc = p]
  <1>1. th[x] \in Thread /\ th[x].then = "idle" /\ th[x].file \notin Files /\ Fit(th[x])
    BY NotApplying
  <1>2. /\ r \in Thread /\ r.pc = p /\ r.tor = th[x].tor /\ r.then = "idle" /\ r.hd = th[x].hd
        /\ r.file = th[x].file /\ r.spec = th[x].spec
    BY <1>1 DEF Thread
  <1>3. th' = [th EXCEPT ![x] = r]
    BY DEF Goto
  <1> HIDE DEF r
  <1>4. Fit(r)
    BY <1>1, <1>2 DEF Fit
  <1> QED  BY <1>2, <1>3, <1>4

LEMMA WantKeyStep ==
    ASSUME IInv, NEW x \in Clients, WantKey(x)
    PROVE  IInv'
  <1>0. x \in Threads /\ th[x].pc = "want" /\ th[x].tor \in Torrents /\ Asking(th[x])
    BY ThreadIs, TypesAre DEF IInv, WantKey, Asking
  <1>1. PICK r \in Thread : /\ th' = [th EXCEPT ![x] = r] /\ r.pc = "append" /\ r.tor = th[x].tor
                            /\ r.then = "idle" /\ Fit(r)
    BY <1>0, GoesOn DEF WantKey
  <1>2. th'[x] = r /\ \A y \in Threads \ {x} : th'[y] = th[y]
    BY <1>0, <1>1 DEF IInv, TypeOK
  <1>3. wkeys' = wkeys \cup {th[x].tor} /\ wkeys' \in SUBSET Torrents
        /\ wanted' \in [Torrents -> SUBSET Specs]
    BY <1>0, TypesAre DEF WantKey
  <1>4. UNCHANGED <<handle, meta, prio, pinned, applied, raced, gone,
                    pinsFile, wantedFile, pinsRead, wantedRead, elsewhere, lost>>
    BY FilesSame DEF WantKey
  <1>b. ReadsFit'
    BY <1>4, TypesAre DEF ReadsFit
  <1>5. ASSUME NEW t \in gone' \ lost'
        PROVE  GoneFits(t)'
    <2>1. t \in gone \ lost /\ th[x].tor # t
      BY <1>0, <1>4, <1>5, AskingNotGone
    <2>2. GoneFits(t) /\ t \notin pinned \cup wkeys
      BY <2>1 DEF IInv, GoneFits
    <2>3. t \notin pinned' \cup wkeys' /\ th'[x].tor # t /\ Open(t)' = Open(t)
      BY <1>1, <1>2, <1>3, <1>4, <2>1, <2>2 DEF Open
    <2>4. \A y \in Clients \ {x} : th'[y] = th[y]
      BY <1>2, TypesAre
    <2> QED  BY <1>0, <1>4, <2>1, <2>2, <2>3, <2>4, GoneKeeps
  <1> QED  BY <1>0, <1>1, <1>b, <1>3, <1>4, <1>5, QuietStep, TypesAre

\* A step of a client that loads or saves a registry.
LEMMA SaverStep ==
    ASSUME IInv, NEW x \in Clients, NEW r \in Thread, th' = [th EXCEPT ![x] = r],
           th[x].pc # "apply", r.pc # "apply", Fit(r), r.pc \notin {"idle", "scan"} => r.tor \in Torrents,
           UNCHANGED <<handle, meta, prio, raced, pinned, gone>>,
           wkeys' \in SUBSET wkeys, applied' \in SUBSET Torrents,
           wanted' \in [Torrents -> SUBSET Specs], pinsFile' \in SUBSET Torrents,
           wantedFile' \in [Torrents -> SUBSET Specs],
           ReadsFit', lost' \in SUBSET Torrents, lost \subseteq lost',
           \A y \in Clients \ {x} : wantedRead'[y] = wantedRead[y],
           Asking(r) => Asking(th[x]) /\ r.tor = th[x].tor,
           \A t \in gone \ lost' :
              /\ t \in pinsFile' => t \in pinsFile /\
                    (th[x].tor = t /\ Saving(th[x]) => r.tor = t /\ Saving(r))
              /\ wantedFile'[t] # {} => wantedFile[t] # {} /\
                    (th[x].tor = t /\ Unwanting(x) => r.tor = t /\ Unwanting(x)')
              /\ th[x].tor = t /\ Leaving(th[x]) => r.tor = t /\ Leaving(r)
    PROVE  IInv'
  <1>1. x \in Threads /\ th'[x] = r /\ \A y \in Clients \ {x} : th'[y] = th[y]
    BY TypesAre DEF IInv, TypeOK
  <1>2. ASSUME NEW t \in gone' \ lost'
        PROVE  GoneFits(t)'
    <2>1. t \in gone \ lost /\ GoneFits(t) /\ t \notin pinned \cup wkeys
      BY <1>2 DEF IInv, GoneFits
    <2>2. t \notin pinned' \cup wkeys' /\ Open(t)' = Open(t)
      BY <2>1 DEF Open
    <2>3. th'[x].tor = t => ~Asking(th'[x])
      BY <1>1, <2>1 DEF GoneFits
    <2> QED  BY <1>1, <1>2, <2>1, <2>2, <2>3, GoneKeeps
  <1> QED  BY <1>1, <1>2, QuietStep, TypesAre

\* Saving what was loaded: what is not lost is as it was.
LEMMA PinsWritten ==
    ASSUME IInv, NEW x \in Savers, NEW t, NEW q \in SUBSET Torrents, WritePins(x, t, q)
    PROVE  /\ pinsFile' = q /\ ReadsFit' <=> elsewhere' \in {"idle", "pins", "wanted"}
           /\ UNCHANGED <<wantedFile, wantedRead>> /\ lost \subseteq lost' /\ lost' \in SUBSET Torrents
           /\ \A u \in Torrents \ lost' : u # t => (u \in pinsFile' <=> u \in pinsFile)
  <1>1. pinsFile \in SUBSET Torrents /\ ReadsFit /\ lost \in SUBSET Torrents
    BY TypesAre
  <1>2. pinsRead' \in [Savers -> SUBSET Torrents]
    BY <1>1 DEF WritePins, ReadsFit
  <1> QED  BY <1>1, <1>2 DEF WritePins, ReadsFit

LEMMA WantedWritten ==
    ASSUME IInv, NEW x \in Savers, NEW t, NEW w \in [Torrents -> SUBSET Specs], WriteWanted(x, t, w)
    PROVE  /\ wantedFile' = w /\ ReadsFit' <=> elsewhere' \in {"idle", "pins", "wanted"}
           /\ UNCHANGED <<pinsFile, pinsRead>> /\ lost \subseteq lost' /\ lost' \in SUBSET Torrents
           /\ \A y \in Savers \ {x} : wantedRead'[y] = wantedRead[y]
           /\ \A u \in Torrents \ lost' : u # t => wantedFile'[u] = wantedFile[u]
  <1>1. ReadsFit /\ lost \in SUBSET Torrents /\ NoneWanted \in [Torrents -> SUBSET Specs]
    BY TypesAre
  <1>2. wantedRead' \in [Savers -> [Torrents -> SUBSET Specs]]
    BY <1>1 DEF WriteWanted, ReadsFit
  <1> QED  BY <1>1, <1>2 DEF WriteWanted, ReadsFit

LEMMA PinsLoaded ==
    ASSUME IInv, NEW x \in Savers, pinsRead' = [pinsRead EXCEPT ![x] = pinsFile],
           UNCHANGED wantedRead, elsewhere' \in {"idle", "pins", "wanted"}
    PROVE  ReadsFit'
  BY TypesAre DEF ReadsFit

LEMMA WantedLoaded ==
    ASSUME IInv, NEW x \in Savers, wantedRead' = [wantedRead EXCEPT ![x] = wantedFile],
           UNCHANGED pinsRead, elsewhere' \in {"idle", "pins", "wanted"}
    PROVE  /\ ReadsFit' /\ wantedRead'[x] = wantedFile
           /\ \A y \in Savers \ {x} : wantedRead'[y] = wantedRead[y]
  BY TypesAre DEF ReadsFit

LEMMA WantAppendStep ==
    ASSUME IInv, NEW x \in Clients, WantAppend(x)
    PROVE  IInv'
  <1>0. x \in Threads /\ x \in Savers /\ th[x].pc = "append" /\ th[x].tor \in Torrents
        /\ Asking(th[x]) /\ th[x].then = "idle"
        /\ UNCHANGED <<handle, meta, prio, raced, pinned, gone, wkeys, applied, pinsFile,
                       wantedFile, pinsRead, elsewhere, lost>>
    BY ThreadIs, NotApplying, TypesAre DEF IInv, WantAppend, Asking
  <1>1. CASE th[x].tor \in wkeys
    <2> DEFINE s == th[x].spec
    <2>0. s \in Specs
      BY <1>0 DEF IInv, Fit
    <2>1. PICK r \in Thread : /\ th' = [th EXCEPT ![x] = r] /\ r.pc = "writeWant" /\ r.tor = th[x].tor
                              /\ r.then = "idle" /\ Fit(r)
      BY <1>0, <1>1, GoesOn DEF WantAppend
    <2>2. /\ wanted' = [wanted EXCEPT ![th[x].tor] = @ \cup {s}]
          /\ wantedRead' = [wantedRead EXCEPT ![x] = wantedFile]
      BY <1>1 DEF WantAppend
    <2>3. wanted' \in [Torrents -> SUBSET Specs]
      BY <1>0, <2>0, <2>2, TypesAre
    <2>4. ReadsFit' /\ \A y \in Clients \ {x} : wantedRead'[y] = wantedRead[y]
      BY <1>0, <2>2, WantedLoaded, TypesAre DEF ReadsFit
    <2>5. ~Saving(th[x]) /\ ~Unwanting(x) /\ ~Leaving(th[x])
      BY <1>0 DEF Saving, Unwanting, Leaving
    <2> QED  BY <1>0, <2>1, <2>3, <2>4, <2>5, SaverStep, TypesAre
  <1>2. CASE th[x].tor \notin wkeys
    <2>1. ~Asking(Idle)
      BY IdleFits DEF Asking
    <2>2. UNCHANGED <<wanted, files>> /\ th' = [th EXCEPT ![x] = Idle]
      BY <1>0, <1>2 DEF WantAppend, files, reads
    <2> QED  BY <1>0, <2>1, <2>2, IdleFits, IdleIsFit, QuietGoes, TypesAre
  <1> QED  BY <1>1, <1>2

LEMMA WantSaveStep ==
    ASSUME IInv, NEW x \in Clients, WantSave(x)
    PROVE  IInv'
  <1> DEFINE w == [wantedRead[x] EXCEPT ![th[x].tor] = @ \cup {th[x].spec}]
  <1>0. /\ x \in Threads /\ x \in Savers /\ th[x].pc = "writeWant" /\ th[x].tor \in Torrents
        /\ Asking(th[x]) /\ th[x].then = "idle" /\ th[x].spec \in Specs
        /\ UNCHANGED <<handle, meta, prio, raced, pinned, gone, wkeys, wanted, applied, elsewhere>>
        /\ WriteWanted(x, th[x].tor, w) /\ Goto(x, "discard")
    BY ThreadIs, NotApplying, TypesAre DEF IInv, WantSave, Asking, Fit, engine
  <1>1. w \in [Torrents -> SUBSET Specs]
    BY <1>0, TypesAre DEF ReadsFit
  <1> HIDE DEF w
  <1>2. PICK r \in Thread : /\ th' = [th EXCEPT ![x] = r] /\ r.pc = "discard" /\ r.tor = th[x].tor
                            /\ r.then = "idle" /\ Fit(r)
    BY <1>0, GoesOn
  <1>3. /\ ReadsFit' /\ wantedFile' \in [Torrents -> SUBSET Specs] /\ UNCHANGED pinsFile
        /\ lost \subseteq lost' /\ lost' \in SUBSET Torrents
        /\ \A y \in Clients \ {x} : wantedRead'[y] = wantedRead[y]
        /\ \A u \in Torrents \ lost' : u # th[x].tor => wantedFile'[u] = wantedFile[u]
    BY <1>0, <1>1, WantedWritten, TypesAre DEF ReadsFit
  <1>4. \A t \in gone \ lost' : th[x].tor # t
    BY <1>0, <1>3, AskingNotGone
  <1> QED  BY <1>0, <1>2, <1>3, <1>4, SaverStep, TypesAre

LEMMA PinLoadStep ==
    ASSUME IInv, NEW x \in Clients, PinLoad(x)
    PROVE  IInv'
  <1>0. /\ x \in Threads /\ x \in Savers /\ th[x].pc = "savePin" /\ th[x].tor \in Torrents
        /\ Asking(th[x]) /\ th[x].then = "idle"
        /\ UNCHANGED <<handle, meta, prio, raced, pinned, gone, wkeys, wanted, applied, pinsFile,
                       wantedFile, wantedRead, elsewhere, lost>>
    BY ThreadIs, NotApplying, TypesAre DEF IInv, PinLoad, Asking, engine
  <1>1. CASE th[x].hd = Removed
    <2>1. ~Asking(Idle)
      BY IdleFits DEF Asking
    <2>2. UNCHANGED files /\ th' = [th EXCEPT ![x] = Idle]
      BY <1>0, <1>1 DEF PinLoad, files, reads
    <2> QED  BY <1>0, <2>1, <2>2, IdleFits, IdleIsFit, QuietGoes, TypesAre
  <1>2. CASE th[x].hd # Removed
    <2>1. PICK r \in Thread : /\ th' = [th EXCEPT ![x] = r] /\ r.pc = "writePin" /\ r.tor = th[x].tor
                              /\ r.then = "idle" /\ Fit(r)
      BY <1>0, <1>2, GoesOn DEF PinLoad
    <2>2. ReadsFit'
      BY <1>0, <1>2, PinsLoaded, TypesAre DEF PinLoad, ReadsFit
    <2>3. ~Saving(th[x]) /\ ~Unwanting(x) /\ ~Leaving(th[x])
      BY <1>0 DEF Saving, Unwanting, Leaving
    <2> QED  BY <1>0, <2>1, <2>2, <2>3, SaverStep, TypesAre
  <1> QED  BY <1>1, <1>2

LEMMA PinSaveStep ==
    ASSUME IInv, NEW x \in Clients, PinSave(x)
    PROVE  IInv'
  <1> DEFINE q == pinsRead[x] \cup {th[x].tor}
  <1>0. /\ x \in Threads /\ x \in Savers /\ th[x].pc = "writePin" /\ th[x].tor \in Torrents
        /\ Asking(th[x]) /\ th[x].then = "idle" /\ th' = [th EXCEPT ![x] = Idle]
        /\ UNCHANGED <<handle, meta, prio, raced, pinned, gone, wkeys, wanted, applied, elsewhere>>
        /\ WritePins(x, th[x].tor, q)
    BY ThreadIs, NotApplying, TypesAre DEF IInv, PinSave, Asking, engine
  <1>1. q \in SUBSET Torrents
    BY <1>0, TypesAre DEF ReadsFit
  <1> HIDE DEF q
  <1>2. /\ ReadsFit' /\ pinsFile' \in SUBSET Torrents /\ UNCHANGED <<wantedFile, wantedRead>>
        /\ lost \subseteq lost' /\ lost' \in SUBSET Torrents
        /\ \A u \in Torrents \ lost' : u # th[x].tor => (u \in pinsFile' <=> u \in pinsFile)
    BY <1>0, <1>1, PinsWritten, TypesAre DEF ReadsFit
  <1>3. \A t \in gone \ lost' : th[x].tor # t
    BY <1>0, <1>2, AskingNotGone
  <1>4. ~Asking(Idle)
    BY IdleFits DEF Asking
  <1> QED  BY <1>0, <1>2, <1>3, <1>4, IdleFits, IdleIsFit, SaverStep, TypesAre

LEMMA UnpinLoadStep ==
    ASSUME IInv, NEW x \in Clients, UnpinLoad(x)
    PROVE  IInv'
  <1> DEFINE p == IF th[x].pc = "saveUnpin" THEN "writeUnpin" ELSE "writeRemove"
  <1>0. /\ x \in Threads /\ x \in Savers /\ th[x].pc \in {"saveUnpin", "saveRemove"}
        /\ th[x].tor \in Torrents /\ th[x].then = "idle" /\ Goto(x, p)
        /\ p \in {"writeUnpin", "writeRemove"} /\ (th[x].pc = "saveRemove" => p = "writeRemove")
        /\ UNCHANGED <<handle, meta, prio, raced, pinned, gone, wkeys, wanted, applied, pinsFile,
                       wantedFile, wantedRead, elsewhere, lost>>
    BY ThreadIs, NotApplying, TypesAre DEF IInv, UnpinLoad, engine
  <1> HIDE DEF p
  <1>1. PICK r \in Thread : /\ th' = [th EXCEPT ![x] = r] /\ r.pc = p /\ r.tor = th[x].tor
                            /\ r.then = "idle" /\ Fit(r)
    BY <1>0, GoesOn
  <1>2. ReadsFit'
    BY <1>0, PinsLoaded, TypesAre DEF UnpinLoad, ReadsFit
  <1>3. th'[x] = r
    BY <1>0, <1>1 DEF IInv, TypeOK
  <1>4. /\ ~Asking(r) /\ (Saving(th[x]) => Saving(r)) /\ (Leaving(th[x]) => Leaving(r))
        /\ (Unwanting(x) => Unwanting(x)')
    BY <1>0, <1>1, <1>3 DEF Asking, Saving, Leaving, Unwanting
  <1> QED  BY <1>0, <1>1, <1>2, <1>4, SaverStep, TypesAre

LEMMA UnpinSaveStep ==
    ASSUME IInv, NEW x \in Clients, UnpinSave(x)
    PROVE  IInv'
  <1> DEFINE u == [Idle EXCEPT !.pc = "unwant", !.tor = th[x].tor]
             r == IF th[x].pc = "writeUnpin" THEN Idle ELSE u
             q == pinsRead[x] \ {th[x].tor}
  <1>0. /\ x \in Threads /\ x \in Savers /\ th[x].pc \in {"writeUnpin", "writeRemove"}
        /\ th[x].tor \in Torrents /\ th[x].then = "idle" /\ WritePins(x, th[x].tor, q)
        /\ UNCHANGED <<handle, meta, prio, raced, pinned, gone, wkeys, wanted, applied, elsewhere>>
    BY ThreadIs, TypesAre, NotApplying DEF IInv, UnpinSave, engine
  <1>1. /\ u \in Thread /\ u.pc = "unwant" /\ u.tor = th[x].tor /\ u.then = "idle" /\ u.hd = NoHandle
        /\ u.file = NoFile
    BY <1>0 DEF Idle, Thread, Held
  <1>2. th' = [th EXCEPT ![x] = r] /\ q \in SUBSET Torrents /\ th[x].tor \notin q
    BY <1>0, TypesAre DEF UnpinSave, ReadsFit
  <1> HIDE DEF u, q
  <1>3. Fit(u) /\ ~Asking(u) /\ ~Asking(Idle)
    BY <1>1, IdleFits, SelectionAssumption, HandleAssumption DEF Fit, Asking
  <1>4. /\ r \in Thread /\ r.pc # "apply" /\ Fit(r) /\ ~Asking(r)
        /\ r.pc \notin {"idle", "scan"} => r.tor \in Torrents
        /\ th[x].pc = "writeRemove" => r.pc = "unwant" /\ r.tor = th[x].tor
    BY <1>0, <1>1, <1>3, IdleFits, IdleIsFit
  <1> HIDE DEF r
  <1>5. /\ ReadsFit' /\ pinsFile' = q /\ UNCHANGED <<wantedFile, wantedRead>>
        /\ lost \subseteq lost' /\ lost' \in SUBSET Torrents
        /\ \A v \in Torrents \ lost' : v # th[x].tor => (v \in pinsFile' <=> v \in pinsFile)
    BY <1>0, <1>2, PinsWritten, TypesAre DEF ReadsFit
  <1>6. th'[x] = r
    BY <1>0, <1>2 DEF IInv, TypeOK
  <1>7. Leaving(th[x]) \/ Unwanting(x) => r.tor = th[x].tor /\ Leaving(r) /\ Unwanting(x)'
    BY <1>0, <1>4, <1>6 DEF Leaving, Saving, Unwanting
  <1>8. \A t \in gone \ lost' : t \in pinsFile' => t \in pinsFile /\ th[x].tor # t
    BY <1>2, <1>5, TypesAre
  <1> QED  BY <1>0, <1>2, <1>4, <1>5, <1>7, <1>8, SaverStep, TypesAre

LEMMA UnwantStep ==
    ASSUME IInv, NEW x \in Clients, Unwant(x)
    PROVE  IInv'
  <1>0. /\ x \in Threads /\ x \in Savers /\ th[x].pc = "unwant" /\ th[x].tor \in Torrents
        /\ th[x].then = "idle"
        /\ UNCHANGED <<handle, meta, prio, raced, pinned, gone, wanted, pinsFile, wantedFile,
                       pinsRead, elsewhere, lost>>
    BY ThreadIs, TypesAre, NotApplying DEF IInv, Unwant
  <1>1. PICK r \in Thread : /\ th' = [th EXCEPT ![x] = r] /\ r.pc = "writeUnwant" /\ r.tor = th[x].tor
                            /\ r.then = "idle" /\ Fit(r)
    BY <1>0, GoesOn DEF Unwant
  <1>2. wkeys' \in SUBSET wkeys /\ applied' \in SUBSET Torrents
    BY TypesAre DEF Unwant
  <1>3. /\ ReadsFit' /\ wantedRead'[x] = wantedFile
        /\ \A y \in Clients \ {x} : wantedRead'[y] = wantedRead[y]
    BY <1>0, WantedLoaded, TypesAre DEF Unwant, ReadsFit
  <1>4. th'[x] = r
    BY <1>0, <1>1 DEF IInv, TypeOK
  <1>5. ~Asking(r) /\ ~Saving(th[x]) /\ Leaving(r)
    BY <1>0, <1>1 DEF Asking, Saving, Leaving
  <1>6. wantedFile[th[x].tor] # {} => Unwanting(x)'
    BY <1>1, <1>3, <1>4 DEF Unwanting
  <1> QED  BY <1>0, <1>1, <1>2, <1>3, <1>5, <1>6, SaverStep, TypesAre

LEMMA UnwantSaveStep ==
    ASSUME IInv, NEW x \in Clients, UnwantSave(x)
    PROVE  IInv'
  <1> DEFINE w == [wantedRead[x] EXCEPT ![th[x].tor] = {}]
  <1>0. /\ x \in Threads /\ x \in Savers /\ th[x].pc = "writeUnwant" /\ th[x].tor \in Torrents
        /\ th[x].then = "idle" /\ Goto(x, "drop")
        /\ UNCHANGED <<handle, meta, prio, raced, pinned, gone, wkeys, wanted, applied, elsewhere>>
    BY ThreadIs, TypesAre, NotApplying DEF IInv, UnwantSave, engine
  <1>1. PICK r \in Thread : /\ th' = [th EXCEPT ![x] = r] /\ r.pc = "drop" /\ r.tor = th[x].tor
                            /\ r.then = "idle" /\ Fit(r)
    BY <1>0, GoesOn
  <1>2. ~Asking(r) /\ ~Saving(th[x]) /\ Leaving(r)
    BY <1>0, <1>1 DEF Asking, Saving, Leaving
  <1>3. w \in [Torrents -> SUBSET Specs] /\ w[th[x].tor] = {}
    BY <1>0, TypesAre DEF ReadsFit
  <1>4. CASE wantedRead[x][th[x].tor] # {}
    <2>1. WriteWanted(x, th[x].tor, w)
      BY <1>4 DEF UnwantSave
    <2> HIDE DEF w
    <2>2. /\ ReadsFit' /\ wantedFile' = w /\ UNCHANGED pinsFile
          /\ lost \subseteq lost' /\ lost' \in SUBSET Torrents
          /\ \A y \in Clients \ {x} : wantedRead'[y] = wantedRead[y]
          /\ \A u \in Torrents \ lost' : u # th[x].tor => wantedFile'[u] = wantedFile[u]
      BY <1>0, <1>3, <2>1, WantedWritten, TypesAre DEF ReadsFit
    <2>3. \A t \in gone \ lost' : wantedFile'[t] # {} => wantedFile[t] # {} /\ th[x].tor # t
      BY <1>3, <2>2, TypesAre
    <2> QED  BY <1>0, <1>1, <1>2, <1>3, <2>2, <2>3, SaverStep, TypesAre
  <1>5. CASE wantedRead[x][th[x].tor] = {}
    <2>1. wantedRead' = [wantedRead EXCEPT ![x] = NoneWanted] /\ UNCHANGED <<pinsFile, wantedFile, pinsRead, lost>>
      BY <1>5 DEF UnwantSave
    <2>2. ReadsFit' /\ \A y \in Clients \ {x} : wantedRead'[y] = wantedRead[y]
      BY <1>0, <2>1, TypesAre DEF ReadsFit
    <2>3. ~Unwanting(x)
      BY <1>0, <1>2, <1>5 DEF Unwanting
    <2> QED  BY <1>0, <1>1, <1>2, <2>1, <2>2, <2>3, SaverStep, TypesAre
  <1> QED  BY <1>4, <1>5

LEMMA SaveFailsStep ==
    ASSUME IInv, NEW x \in Clients, SaveFails(x)
    PROVE  IInv'
  <1>0. /\ x \in Threads /\ x \in Savers /\ th[x].tor \in Torrents /\ th[x].then = "idle"
        /\ th[x].pc \in {"writePin", "writeUnpin", "writeRemove", "writeWant", "writeUnwant"}
        /\ lost' = lost \cup {th[x].tor}
        /\ UNCHANGED <<handle, meta, prio, raced, pinned, gone, wkeys, wanted, applied, pinsFile,
                       wantedFile, elsewhere>>
    BY ThreadIs, TypesAre, NotApplying DEF IInv, SaveFails, engine
  <1>1. /\ ReadsFit' /\ lost' \in SUBSET Torrents /\ lost \subseteq lost'
        /\ \A y \in Clients \ {x} : wantedRead'[y] = wantedRead[y]
    BY <1>0, TypesAre DEF ReadsFit, SaveFails
  <1>2. PICK r \in Thread :
           /\ th' = [th EXCEPT ![x] = r] /\ r.pc # "apply" /\ Fit(r)
           /\ r.pc \notin {"idle", "scan"} => r.tor \in Torrents
           /\ Asking(r) => Asking(th[x]) /\ r.tor = th[x].tor
    <2>1. CASE th[x].pc \in {"writeWant", "writeUnwant"}
      <3>1. PICK p \in {"discard", "drop"} : Goto(x, p) /\ (p = "discard" => th[x].pc = "writeWant")
        BY <2>1 DEF SaveFails
      <3>2. PICK r \in Thread : /\ th' = [th EXCEPT ![x] = r] /\ r.pc = p /\ r.tor = th[x].tor
                                /\ r.then = "idle" /\ Fit(r)
        BY <1>0, <3>1, GoesOn
      <3> QED  BY <1>0, <3>1, <3>2 DEF Asking
    <2>2. CASE th[x].pc \in {"writePin", "writeUnpin", "writeRemove"}
      <3>1. th' = [th EXCEPT ![x] = Idle]
        BY <2>2 DEF SaveFails
      <3>2. ~Asking(Idle)
        BY IdleFits DEF Asking
      <3> QED  BY <3>1, <3>2, IdleFits, IdleIsFit
    <2> QED  BY <1>0, <2>1, <2>2
  <1>3. \A t \in gone \ lost' : th[x].tor # t
    BY <1>0
  <1> QED  BY <1>0, <1>1, <1>2, <1>3, SaverStep, TypesAre

\* A request about another torrent changes no thread; what its save changes is lost.
LEMMA ElsewhereStep ==
    ASSUME IInv, ElsewhereLoad \/ ElsewhereSave
    PROVE  IInv'
  <1>0. UNCHANGED <<handle, meta, prio, engine, th, raced, gone>>
    BY DEF ElsewhereLoad, ElsewhereSave
  <1>1. /\ ReadsFit' /\ pinsFile' \in SUBSET Torrents /\ wantedFile' \in [Torrents -> SUBSET Specs]
        /\ lost' \in SUBSET Torrents /\ lost \subseteq lost'
        /\ \A y \in Clients : wantedRead'[y] = wantedRead[y]
        /\ \A u \in Torrents \ lost' : (u \in pinsFile' <=> u \in pinsFile) /\ wantedFile'[u] = wantedFile[u]
    <2>1. CASE ElsewhereLoad
      <3>1. UNCHANGED <<pinsFile, wantedFile, lost>> /\ elsewhere' \in {"idle", "pins", "wanted"}
        BY <2>1 DEF ElsewhereLoad
      <3>2. \/ pinsRead' = [pinsRead EXCEPT ![Elsewhere] = pinsFile] /\ UNCHANGED wantedRead
            \/ wantedRead' = [wantedRead EXCEPT ![Elsewhere] = wantedFile] /\ UNCHANGED pinsRead
        BY <2>1 DEF ElsewhereLoad
      <3>3. ReadsFit' /\ \A y \in Clients : wantedRead'[y] = wantedRead[y]
        BY <3>1, <3>2, PinsLoaded, WantedLoaded, TypesAre
      <3> QED  BY <3>1, <3>3, TypesAre
    <2>2. CASE ElsewhereSave /\ WritePins(Elsewhere, NoTorrent, pinsRead[Elsewhere])
      <3>1. pinsRead[Elsewhere] \in SUBSET Torrents /\ elsewhere' = "idle"
        BY <2>2, TypesAre DEF ReadsFit, ElsewhereSave
      <3> QED  BY <2>2, <3>1, PinsWritten, TypesAre, SelectionAssumption
    <2>3. CASE ElsewhereSave /\ WriteWanted(Elsewhere, NoTorrent, wantedRead[Elsewhere])
      <3>1. wantedRead[Elsewhere] \in [Torrents -> SUBSET Specs] /\ elsewhere' = "idle"
        BY <2>3, TypesAre DEF ReadsFit, ElsewhereSave
      <3> QED  BY <2>3, <3>1, WantedWritten, TypesAre, SelectionAssumption
    <2> QED  BY <2>1, <2>2, <2>3 DEF ElsewhereSave
  <1>2. TypeOK'
    BY <1>0, <1>1 DEF IInv, TypeOK, ReadsFit, engine
  <1>3. \A x \in Threads : Fit(th[x])'
    BY <1>0 DEF IInv, Fit, Open
  <1>4. ASSUME NEW u \in Torrents
        PROVE  PriorityFits(u)'
    <2>1. PriorityFits(u) /\ Updating(u)' = Updating(u)
      BY <1>0 DEF IInv, Updating
    <2> QED  BY <1>0, <2>1, PrioritySame
  <1>5. ASSUME NEW u \in gone' \ lost'
        PROVE  GoneFits(u)'
    <2>1. u \in gone \ lost /\ u \in Torrents \ lost' /\ GoneFits(u)
      BY <1>0, <1>1, <1>5, TypesAre DEF IInv
    <2>2. \A x \in Clients : Unwanting(x) => Unwanting(x)'
      BY <1>0, <1>1 DEF Unwanting, Saving
    <2> QED  BY <1>0, <1>1, <2>1, <2>2 DEF GoneFits, Asking, Saving, Leaving, Open, engine
  <1> QED  BY <1>2, <1>3, <1>4, <1>5 DEF IInv

----------------------------------------------------------------------------
(* The steps that compute priorities, or fetch everything.                  *)

LEMMA HandleIs ==
    ASSUME IInv, NEW t \in Torrents
    PROVE  /\ Open(t) => handle[t] \in Handle
           /\ handle[t] \in Handle => Open(t)
           /\ meta[t] \in BOOLEAN /\ prio[t] \in SUBSET Files
  BY HandleAssumption DEF IInv, TypeOK, Open

\* What a step of one thread has to keep.
LEMMA OneSteps ==
    ASSUME IInv, NEW x \in Threads, NEW r \in Thread, th' = [th EXCEPT ![x] = r],
           Fit(r)', r.pc \notin {"idle", "scan"} => r.tor \in Torrents,
           UNCHANGED <<meta, wkeys, wanted, files>>,
           handle' \in [Torrents -> Handle \cup {NoHandle}], prio' \in [Torrents -> SUBSET Files],
           pinned' \in SUBSET Torrents, applied' \in SUBSET Torrents,
           \A t \in Torrents : Open(t) => Open(t)',
           raced' \in SUBSET Torrents, raced \subseteq raced', gone' \in SUBSET Torrents,
           \A t \in Torrents : PriorityFits(t)', \A t \in gone' \ lost' : GoneFits(t)'
    PROVE  IInv'
  <1>1. \A y \in Threads : th'[y] = IF y = x THEN r ELSE th[y]
    BY DEF IInv, TypeOK
  <1>2. TypeOK'
    BY <1>1 DEF IInv, TypeOK, files, reads
  <1>3. ASSUME NEW y \in Threads
        PROVE  Fit(th[y])'
    <2>1. CASE y = x
      BY <1>1, <2>1 DEF Fit
    <2>2. CASE y # x
      <3>1. Fit(th[y]) /\ th'[y] = th[y] /\ th[y] \in Thread
        BY <1>1, <2>2, ThreadIs DEF IInv
      <3>2. th[y].hd = InTable => th[y].tor \in Torrents /\ Open(th[y].tor)'
        BY <3>1, HandleAssumption DEF Fit
      <3> QED  BY <3>1, <3>2 DEF Fit, Open
    <2> QED  BY <2>1, <2>2
  <1> QED  BY <1>2, <1>3 DEF IInv

LEMMA Overlaps ==
    ASSUME IInv, NEW t \in Torrents, Overlap(t)
    PROVE  /\ raced \subseteq raced' /\ raced' \subseteq raced \cup {t} /\ raced' \in SUBSET Torrents
           /\ t \notin raced' => t \notin raced /\ Updating(t) = {}
  BY TypesAre DEF Overlap

\* Priorities of t are computed: if nobody else does so, what was listed is right.
LEMMA PriorityComputed ==
    ASSUME IInv, NEW x \in Threads, NEW t \in Torrents, NEW r \in Thread, th' = [th EXCEPT ![x] = r],
           th[x].pc # "apply", r.pc = "apply", r.tor = t, Overlap(t), UNCHANGED prio,
           \A u \in Torrents \ {t} : handle'[u] = handle[u],
           t \notin raced /\ Updating(t) = {} /\ Open(t)' =>
              IF r.hd = InTable THEN Listed(r, t)' ELSE Chosen(t)' \subseteq prio[t]
    PROVE  \A u \in Torrents : PriorityFits(u)'
  <1>1. \A y \in Threads : th'[y] = IF y = x THEN r ELSE th[y]
    BY DEF IInv, TypeOK
  <1>2. ASSUME NEW u \in Torrents \ {t}
        PROVE  PriorityFits(u)'
    <2>1. PriorityFits(u) /\ Updating(u)' = Updating(u) /\ \A y \in Updating(u) : th'[y] = th[y]
      BY <1>1 DEF IInv, Updating
    <2>2. handle'[u] = handle[u] /\ prio'[u] = prio[u] /\ (u \in raced => u \in raced')
      BY Overlaps
    <2> QED  BY <2>1, <2>2, PrioritySame
  <1>3. PriorityFits(t)'
    <2> SUFFICES ASSUME t \notin raced'
                 PROVE  PriorityFits(t)'
      BY DEF PriorityFits
    <2>1. t \notin raced /\ Updating(t) = {}
      BY Overlaps
    <2>2. Updating(t)' = {x}
      BY <1>1, <2>1 DEF Updating
    <2>3. th'[x] = r /\ prio' = prio
      BY <1>1
    <2>4. Open(t)' => IF r.hd = InTable THEN Listed(r, t)' ELSE Chosen(t)' \subseteq prio'[t]
      BY <2>1, <2>3
    <2>5. Open(t)' => IF th'[x].hd = InTable THEN Listed(th[x], t)' ELSE Chosen(t)' \subseteq prio'[t]
      BY <2>3, <2>4 DEF Listed
    <2> QED  BY <2>2, <2>5 DEF PriorityFits
  <1> QED  BY <1>2, <1>3

\* The priorities of a handle: what is chosen, and everything for a pin without a choice.
LEMMA PrioritiesAre ==
    ASSUME NEW h \in Handle
    PROVE  /\ Priorities(h) \subseteq Files
           /\ h.wanted \subseteq Priorities(h) /\ Focused(h) \subseteq Priorities(h)
           /\ h.wanted # {} => Priorities(h) = h.wanted \cup Focused(h)
  BY DEF Handle, Priorities, Focused

\* A thread has a list of priorities of t for a handle h, of the table or an older one.
LEMMA UpdateStep ==
    ASSUME IInv, NEW x \in Threads, NEW t \in Torrents, NEW h \in Handle,
           NEW l \in SUBSET Files, NEW f \in {NoFile, Unfocus},
           NEW p \in {"mark", "savePin", "saveUnpin", "saveRemove"}, Update(x, t, l, f, p),
           h.wanted \subseteq l, Focused(h) \subseteq l,
           p = "savePin" /\ h.wanted # {} => l = h.wanted \cup Focused(h),
           th[x].pc \in {"idle", "scan", "pin"}, th[x].pc = "pin" => th[x].tor = t,
           th[x].hd # Removed, UNCHANGED <<meta, prio>>, th[x].hd \notin Handle => Open(t),
           handle' = IF th[x].hd \in {NoHandle, InTable} THEN [handle EXCEPT ![t] = h] ELSE handle,
           th[x].hd \in {NoHandle, InTable} =>
              \/ h.wanted = handle[t].wanted /\ h.focus = handle[t].focus
              \/ meta[t] /\ p = "mark"
    PROVE  \E r \in Thread : /\ th' = [th EXCEPT ![x] = r] /\ r.tor = t
                             /\ r.pc = (IF meta[t] THEN "apply" ELSE p)
                             /\ r.then = (IF meta[t] THEN p ELSE "idle")
                             /\ Fit(r)' /\ \A u \in Torrents : PriorityFits(u)'
  <1> DEFINE held == IF th[x].hd = NoHandle THEN InTable ELSE th[x].hd
             a == [th[x] EXCEPT !.tor = t, !.hd = held, !.list = l, !.file = f, !.pc = "apply", !.then = p]
             b == [th[x] EXCEPT !.tor = t, !.pc = p]
  <1>1. th[x] \in Thread /\ th[x].then = "idle" /\ th[x].file \notin Files /\ Fit(th[x])
    BY NotApplying
  <1>2. held \in Held /\ held # NoHandle /\ (held = InTable => th[x].hd \in {NoHandle, InTable})
    BY <1>1, HandleAssumption DEF Thread, Held
  <1>3. th' = [th EXCEPT ![x] = IF meta[t] THEN a ELSE b] /\ Overlap(t)
    BY DEF Update
  <1> HIDE DEF held
  <1>4. /\ a \in Thread /\ a.pc = "apply" /\ a.tor = t /\ a.hd = held /\ a.list = l
        /\ a.then = p /\ a.file = f
    BY <1>1, <1>2 DEF Thread
  <1>5. b \in Thread /\ b.pc = p /\ b.tor = t /\ b.hd = th[x].hd /\ b.then = "idle" /\ b.file = th[x].file
    BY <1>1 DEF Thread
  <1> HIDE DEF a, b
  <1>6. PICK r \in Thread :
        /\ th' = [th EXCEPT ![x] = r] /\ r.tor = t /\ r.pc = (IF meta[t] THEN "apply" ELSE p)
        /\ r.then = (IF meta[t] THEN p ELSE "idle") /\ r.file \notin Files
        /\ meta[t] => r.list = l /\ r.hd = held
        /\ ~meta[t] => r.hd = th[x].hd
    BY <1>1, <1>3, <1>4, <1>5, SelectionAssumption
  <1>7. th[x].hd \in {NoHandle, InTable} => handle[t] \in Handle /\ Open(t) /\ Open(t)'
    BY HandleIs, HandleAssumption DEF Open, IInv, TypeOK
  <1>8. \A u \in Torrents : handle'[u] = IF u = t /\ th[x].hd \in {NoHandle, InTable} THEN h ELSE handle[u]
    BY DEF IInv, TypeOK
  <1>9. th[x].hd \in Handle => t \in raced /\ th[x].tor = t
    BY <1>1, HandleAssumption DEF Fit, Idle
  <1>10. th[x].hd \in {NoHandle, InTable} \cup Handle
    BY <1>1 DEF Thread, Held
  <1>11. raced \subseteq raced'
    BY <1>3, Overlaps
  <1>12. held \in Handle => th[x].hd \in Handle
    BY <1>2, HandleAssumption DEF held
  <1>13. Fit(r)'
    <2>1. r.hd \in Handle => r.tor \in raced'
      BY <1>6, <1>9, <1>11, <1>12
    <2>2. r.hd = InTable => Open(r.tor)'
      BY <1>2, <1>6, <1>7 DEF Open
    <2>3. r.hd # NoHandle => r.tor \in Torrents
      BY <1>6
    <2>4. /\ r.pc \notin {"idle", "scan", "want", "append"}
          /\ r.pc \in {"apply", "pin"} => r.hd # NoHandle
          /\ r.then # "idle" => r.pc = "apply"
      BY <1>2, <1>6
    <2> QED  BY <1>6, <2>1, <2>2, <2>3, <2>4 DEF Fit
  <1>14. CASE meta[t]
    <2>1. ASSUME t \notin raced, Updating(t) = {}
          PROVE  r.hd = InTable /\ Listed(r, t)'
      <3>1. th[x].hd \in {NoHandle, InTable} /\ r.hd = InTable
        BY <1>6, <1>9, <1>10, <1>14, <2>1 DEF held
      <3>2. handle'[t] = h
        BY <1>8, <3>1
      <3>3. Chosen(t) \subseteq prio[t]
        BY <1>7, <2>1, <3>1 DEF IInv, PriorityFits
      <3>4. p = "savePin" => h.wanted = handle[t].wanted /\ h.focus = handle[t].focus
        BY <3>1
      <3>5. r.then = "savePin" /\ h.wanted # {} => r.list \subseteq prio[t]
        BY <1>6, <1>14, <3>3, <3>4 DEF Chosen, Focused
      <3>6. h.wanted \subseteq r.list /\ Focused(h) \subseteq r.list /\ r.file \notin Files
        BY <1>6, <1>14
      <3>7. prio' = prio
        OBVIOUS
      <3> QED  BY <3>1, <3>2, <3>5, <3>6, <3>7 DEF Listed, Focused
    <2>2. \A u \in Torrents \ {t} : handle'[u] = handle[u]
      BY <1>8
    <2>3. \A u \in Torrents : PriorityFits(u)'
      <3>1. r.pc = "apply" /\ th[x].pc # "apply" /\ UNCHANGED prio
        BY <1>6, <1>14
      <3>2. t \notin raced /\ Updating(t) = {} /\ Open(t)' =>
              IF r.hd = InTable THEN Listed(r, t)' ELSE Chosen(t)' \subseteq prio[t]
        BY <2>1
      <3>3. r.tor = t /\ th' = [th EXCEPT ![x] = r] /\ Overlap(t)
        BY <1>3, <1>6
      <3> QED  BY <2>2, <3>1, <3>2, <3>3, PriorityComputed
    <2> QED  BY <1>3, <1>6, <1>13, <2>3
  <1>15. CASE ~meta[t]
    <2>1. \A y \in Threads : th'[y] = IF y = x THEN r ELSE th[y]
      BY <1>6 DEF IInv, TypeOK
    <2>2. ASSUME NEW u \in Torrents
          PROVE  PriorityFits(u)'
      <3>1. PriorityFits(u) /\ Updating(u)' = Updating(u) /\ \A y \in Updating(u) : th'[y] = th[y]
        BY <1>6, <1>15, <2>1 DEF IInv, Updating
      <3>2. prio'[u] = prio[u] /\ (u \in raced => u \in raced')
        BY <1>11
      <3>3. CASE handle'[u] = handle[u]
        BY <3>1, <3>2, <3>3, PrioritySame
      <3>4. CASE u = t /\ th[x].hd \in {NoHandle, InTable} /\ handle'[t] = h /\ h.wanted = handle[t].wanted /\ h.focus = handle[t].focus
        <4>1. Chosen(u)' = Chosen(u) /\ Open(u)' = Open(u)
          BY <1>7, <3>4 DEF Chosen, Focused
        <4>2. \A y \in Updating(u) : Listed(th[y], u)' = Listed(th[y], u)
          BY <3>1, <3>2, <3>4 DEF Listed, Focused
        <4> QED  BY <3>1, <3>2, <4>1, <4>2 DEF PriorityFits
      <3> QED  BY <1>8, <1>15, <3>3, <3>4
    <2> QED  BY <1>3, <1>6, <1>13, <1>15, <2>2
  <1> QED  BY <1>14, <1>15

\* The list is computed from the handle.
LEMMA ComputeStep ==
    ASSUME IInv, NEW x \in Threads, NEW t \in Torrents, NEW h \in Handle,
           NEW p \in {"mark", "savePin", "saveUnpin", "saveRemove"}, Compute(x, t, h, p),
           th[x].pc \in {"idle", "scan", "pin"}, th[x].pc = "pin" => th[x].tor = t,
           th[x].hd # Removed, UNCHANGED <<meta, prio>>, th[x].hd \notin Handle => Open(t),
           handle' = IF th[x].hd \in {NoHandle, InTable} THEN [handle EXCEPT ![t] = h] ELSE handle,
           th[x].hd \in {NoHandle, InTable} =>
              \/ h.wanted = handle[t].wanted /\ h.focus = handle[t].focus
              \/ meta[t] /\ p = "mark"
    PROVE  \E r \in Thread : /\ th' = [th EXCEPT ![x] = r] /\ r.tor = t
                             /\ r.pc = (IF meta[t] THEN "apply" ELSE p)
                             /\ r.then = (IF meta[t] THEN p ELSE "idle")
                             /\ Fit(r)' /\ \A u \in Torrents : PriorityFits(u)'
  <1> DEFINE l == Priorities(h)
  <1>1. Update(x, t, l, NoFile, p)
    BY DEF Compute
  <1>2. l \in SUBSET Files /\ h.wanted \subseteq l /\ Focused(h) \subseteq l
        /\ (h.wanted # {} => l = h.wanted \cup Focused(h))
    BY PrioritiesAre
  <1> HIDE DEF l
  <1> QED  BY <1>1, <1>2, UpdateStep

LEMMA OneThread ==
    ASSUME IInv, NEW x \in Threads, NEW r, th' = [th EXCEPT ![x] = r]
    PROVE  th'[x] = r /\ (\A y \in Threads \ {x} : th'[y] = th[y]) /\ \A y \in Clients \ {x} : th'[y] = th[y]
  BY TypesAre DEF IInv, TypeOK

\* A handle that is replaced by another leaves the table as it was.
LEMMA HandleSet ==
    ASSUME IInv, NEW t \in Torrents, NEW h \in Handle, handle' = [handle EXCEPT ![t] = h]
    PROVE  /\ handle' \in [Torrents -> Handle \cup {NoHandle}]
           /\ \A u \in Torrents : handle'[u] = IF u = t THEN h ELSE handle[u]
           /\ \A u \in Torrents : Open(u) => Open(u)'
           /\ Open(t) => \A u \in Torrents : Open(u)' = Open(u)
           /\ Open(t)'
  BY HandleAssumption DEF IInv, TypeOK, Open

LEMMA PlayStep ==
    ASSUME IInv, NEW x \in Clients, NEW t \in Torrents, NEW f \in Files, Play(x, t, f)
    PROVE  IInv'
  <1> DEFINE h0 == [handle[t] EXCEPT !.wanted = @ \cup {f}]
             l0 == Priorities([h0 EXCEPT !.focus = f])
             r0 == [Idle EXCEPT !.pc = "apply", !.tor = t, !.hd = InTable, !.file = f, !.list = l0]
  <1>1. x \in Threads /\ th[x] = Idle /\ handle[t] \in Handle /\ Open(t)
    BY TypesAre, HandleIs DEF Play, IInv, Fit
  <1>2. h0 \in Handle /\ h0.wanted = handle[t].wanted \cup {f} /\ [h0 EXCEPT !.focus = f] \in Handle
        /\ [h0 EXCEPT !.focus = f].wanted = h0.wanted
    BY <1>1 DEF Handle
  <1>3. handle' = [handle EXCEPT ![t] = h0] /\ th' = [th EXCEPT ![x] = r0] /\ Overlap(t)
        /\ gone' = gone \ {t} /\ UNCHANGED <<meta, prio, engine, files>>
    BY DEF Play
  <1>4. l0 \in SUBSET Files /\ h0.wanted \subseteq l0 /\ f \in l0
    BY <1>2, PrioritiesAre
  <1> HIDE DEF l0, h0
  <1>5. /\ r0 \in Thread /\ r0.pc = "apply" /\ r0.tor = t /\ r0.hd = InTable /\ r0.file = f
        /\ r0.list = l0 /\ r0.then = "idle"
    BY <1>4 DEF Idle, Thread, Held
  <1>6. PICK h \in Handle : h = h0
    BY <1>2
  <1>7. PICK r \in Thread : /\ th' = [th EXCEPT ![x] = r] /\ r.pc = "apply" /\ r.tor = t /\ r.hd = InTable
                            /\ r.file = f /\ h.wanted \subseteq r.list /\ f \in r.list /\ r.then = "idle"
    BY <1>3, <1>4, <1>5, <1>6
  <1>8. handle' = [handle EXCEPT ![t] = h]
    BY <1>3, <1>6
  <1>9. /\ handle' \in [Torrents -> Handle \cup {NoHandle}]
        /\ \A u \in Torrents : handle'[u] = IF u = t THEN h ELSE handle[u]
        /\ \A u \in Torrents : Open(u)' = Open(u)
    BY <1>1, <1>8, HandleSet
  <1>10. Fit(r)'
    BY <1>1, <1>7, <1>9, HandleAssumption DEF Fit, Open
  <1>11. \A u \in Torrents : PriorityFits(u)'
    <2>1. th[x].pc # "apply" /\ UNCHANGED prio /\ \A u \in Torrents \ {t} : handle'[u] = handle[u]
      BY <1>1, <1>3, <1>9, IdleFits
    <2>2. Listed(r, t)'
      BY <1>7, <1>9 DEF Listed
    <2> QED  BY <1>1, <1>3, <1>7, <2>1, <2>2, PriorityComputed
  <1>12. ASSUME NEW u \in gone' \ lost'
         PROVE  GoneFits(u)'
    <2>1. u \in gone \ lost /\ u # t /\ u \in Torrents
      BY <1>3, <1>12, FilesSame, TypesAre
    <2>2. GoneFits(u) /\ u \notin pinned \cup wkeys
      BY <2>1 DEF IInv, GoneFits
    <2>3. th'[x].tor # u /\ th[x].tor # u /\ \A y \in Clients \ {x} : th'[y] = th[y]
      BY <1>1, <1>7, <2>1, OneThread, IdleFits, SelectionAssumption
    <2> QED  BY <1>1, <1>3, <1>9, <2>1, <2>2, <2>3, GoneKeeps DEF engine, files, reads
  <1>13. /\ prio' \in [Torrents -> SUBSET Files] /\ raced' \in SUBSET Torrents /\ raced \subseteq raced'
         /\ pinned' \in SUBSET Torrents /\ applied' \in SUBSET Torrents /\ gone' \in SUBSET Torrents
         /\ UNCHANGED <<meta, wkeys, wanted, files>>
    BY <1>3, Overlaps, TypesAre DEF engine, IInv, TypeOK
  <1>14. r.pc \notin {"idle", "scan"} => r.tor \in Torrents
    BY <1>7
  <1> QED  BY <1>1, <1>7, <1>9, <1>10, <1>11, <1>12, <1>13, <1>14, OneSteps

LEMMA ScanApplyStep ==
    ASSUME IInv, NEW x \in Threads, NEW t \in Torrents, ScanApply(x, t)
    PROVE  IInv'
  <1>0. /\ th[x].pc = "scan" /\ Open(t) /\ meta[t] /\ UNCHANGED <<meta, engine, files, gone>>
        /\ th[x] \in Thread /\ th[x].then = "idle" /\ th[x].file \notin Files /\ th[x].hd = NoHandle
        /\ handle[t] \in Handle
    BY NotApplying, HandleIs DEF ScanApply, Fit
  <1>1. /\ pinned' \in SUBSET Torrents /\ applied' \in SUBSET Torrents /\ gone' \in SUBSET Torrents
        /\ UNCHANGED <<meta, wkeys, wanted, files>>
    BY <1>0, TypesAre DEF engine
  \* what is left to show of a thread that goes on to apply, or to mark
  <1>2. ASSUME NEW r \in Thread, th' = [th EXCEPT ![x] = r], r.pc \in {"apply", "mark"}, r.tor = t,
               r.then \in {"idle", "mark"}, Fit(r)', Overlap(t),
               NEW h \in Handle, handle' = [handle EXCEPT ![t] = h],
               prio' \in [Torrents -> SUBSET Files], \A u \in Torrents : PriorityFits(u)'
        PROVE  IInv'
    <2>1. \A u \in gone' \ lost' : GoneFits(u)'
      <3> SUFFICES ASSUME NEW u \in gone \ lost
                   PROVE  GoneFits(u)'
        BY <1>0, FilesSame
      <3>1. GoneFits(u) /\ u \notin pinned \cup wkeys /\ u \in Torrents
        BY TypesAre DEF IInv, GoneFits
      <3>2. ~Saving(th[x]) /\ ~Unwanting(x) /\ ~Leaving(th[x]) /\ ~Asking(th'[x])
            /\ \A y \in Clients \ {x} : th'[y] = th[y]
        BY <1>0, <1>2, OneThread DEF Saving, Unwanting, Leaving, Asking
      <3>3. Open(u)' = Open(u)
        BY <1>0, <1>2, <3>1, HandleSet
      <3> QED  BY <1>0, <3>1, <3>2, <3>3, GoneKeeps DEF engine, files, reads
    <2>2. /\ handle' \in [Torrents -> Handle \cup {NoHandle}]
          /\ \A u \in Torrents : Open(u) => Open(u)'
          /\ raced' \in SUBSET Torrents /\ raced \subseteq raced'
      BY <1>2, HandleSet, Overlaps
    <2>3. r.pc \notin {"idle", "scan"} => r.tor \in Torrents
      BY <1>2
    <2> QED  BY <1>1, <1>2, <2>1, <2>2, <2>3, OneSteps
  <1>3. CASE Everything(x, t, "mark") /\ UNCHANGED <<handle, prio>>
    <2>1. PICK h \in Handle : h = handle[t]
      BY <1>0
    <2>2. handle' = [handle EXCEPT ![t] = h] /\ Update(x, t, Files, Unfocus, "mark")
      BY <1>3, <2>1 DEF Everything, IInv, TypeOK
    <2>3. h.wanted \subseteq Files /\ Focused(h) \subseteq Files
      BY DEF Handle, Focused
    <2>4. /\ th[x].hd # Removed /\ UNCHANGED <<meta, prio>>
          /\ handle' = IF th[x].hd \in {NoHandle, InTable} THEN [handle EXCEPT ![t] = h] ELSE handle
      BY <1>0, <1>3, <2>2, HandleAssumption
    <2>5. PICK r \in Thread : /\ th' = [th EXCEPT ![x] = r] /\ r.tor = t
                              /\ r.pc = (IF meta[t] THEN "apply" ELSE "mark")
                              /\ r.then = (IF meta[t] THEN "mark" ELSE "idle")
                              /\ Fit(r)' /\ \A u \in Torrents : PriorityFits(u)'
      <3>1. Files \in SUBSET Files /\ Unfocus \in {NoFile, Unfocus}
        OBVIOUS
      <3> QED  BY <1>0, <2>2, <2>3, <2>4, <3>1, UpdateStep
    <2>6. r.pc = "apply" /\ r.then = "mark" /\ Overlap(t) /\ prio' \in [Torrents -> SUBSET Files]
      BY <1>0, <1>3, <2>2, <2>5 DEF Update, IInv, TypeOK
    <2> QED  BY <1>2, <2>2, <2>5, <2>6
  <1>4. CASE NoFile \notin Resolved(t) /\ Narrow(x, t, handle[t].wanted \cup Resolved(t))
    <2> DEFINE w == handle[t].wanted \cup Resolved(t)
               h0 == [handle[t] EXCEPT !.wanted = w]
    <2>1. Resolved(t) \subseteq Files
      BY <1>4, SelectionAssumption, TypesAre DEF Resolved
    <2>2. h0 \in Handle
      BY <1>0, <2>1 DEF Handle
    <2>3. handle' = [handle EXCEPT ![t] = h0] /\ Compute(x, t, h0, "mark") /\ UNCHANGED prio
      BY <1>4 DEF Narrow
    <2>4. PICK h \in Handle : handle' = [handle EXCEPT ![t] = h] /\ Compute(x, t, h, "mark")
      BY <2>2, <2>3
    <2>5. /\ th[x].hd # Removed /\ UNCHANGED <<meta, prio>>
          /\ handle' = IF th[x].hd \in {NoHandle, InTable} THEN [handle EXCEPT ![t] = h] ELSE handle
      BY <1>0, <2>3, <2>4, HandleAssumption
    <2>6. PICK r \in Thread : /\ th' = [th EXCEPT ![x] = r] /\ r.tor = t
                              /\ r.pc = (IF meta[t] THEN "apply" ELSE "mark")
                              /\ r.then = (IF meta[t] THEN "mark" ELSE "idle")
                              /\ Fit(r)' /\ \A u \in Torrents : PriorityFits(u)'
      BY <1>0, <2>4, <2>5, ComputeStep
    <2>7. r.pc = "apply" /\ r.then = "mark" /\ Overlap(t) /\ prio' \in [Torrents -> SUBSET Files]
      BY <1>0, <2>3, <2>4, <2>6 DEF Compute, Update, IInv, TypeOK
    <2> QED  BY <1>2, <2>4, <2>6, <2>7
  <1> QED  BY <1>3, <1>4 DEF ScanApply, ApplyWanted

\* The list of thread x is applied: what is chosen through the table's handle is fetched.
LEMMA ApplyStep ==
    ASSUME IInv, NEW x \in Threads, Apply(x)
    PROVE  IInv'
  <1>a. PICK t \in Torrents : t = th[x].tor
    BY ThreadIs DEF Apply, IInv
  <1> DEFINE f == th[x].file
             r0 == IF th[x].then = "idle" THEN Idle
                   ELSE [th[x] EXCEPT !.pc = th[x].then, !.list = {}, !.file = NoFile, !.then = "idle"]
  <1>0. /\ th[x] \in Thread /\ th[x].pc = "apply" /\ t = th[x].tor /\ Fit(th[x])
        /\ UNCHANGED <<meta, engine, files, raced, gone>>
    BY <1>a, ThreadIs DEF Apply, IInv
  <1>1. th' = [th EXCEPT ![x] = r0]
    <2>1. CASE th[x].then = "idle"
      <3>1. th' = [th EXCEPT ![x] = Idle]
        BY <2>1 DEF Apply
      <3> QED  BY <2>1, <3>1
    <2>2. CASE th[x].then # "idle"
      <3>1. th' = [th EXCEPT ![x] = [th[x] EXCEPT !.pc = th[x].then, !.list = {}, !.file = NoFile,
                                                   !.then = "idle"]]
        BY <2>2 DEF Apply
      <3> QED  BY <2>2, <3>1
    <2> QED  BY <2>1, <2>2
  <1>2. /\ r0 \in Thread /\ r0.pc = th[x].then /\ r0.then = "idle" /\ r0.file \notin Files
        /\ th[x].then = "idle" => r0 = Idle
        /\ th[x].then # "idle" => r0.tor = t /\ r0.hd = th[x].hd
    <2>1. CASE th[x].then = "idle"
      BY <2>1, IdleFits, SelectionAssumption
    <2>2. CASE th[x].then # "idle"
      <3> DEFINE r1 == [th[x] EXCEPT !.pc = th[x].then, !.list = {}, !.file = NoFile, !.then = "idle"]
      <3>1. /\ r1 \in Thread /\ r1.pc = th[x].then /\ r1.then = "idle" /\ r1.file = NoFile
            /\ r1.tor = th[x].tor /\ r1.hd = th[x].hd
        BY <1>0 DEF Thread
      <3>2. r0 = r1
        BY <2>2
      <3> HIDE DEF r0, r1
      <3> QED  BY <1>0, <2>2, <3>1, <3>2, SelectionAssumption
    <2> QED  BY <2>1, <2>2
  <1> HIDE DEF r0
  <1>3. PICK r \in Thread : /\ th' = [th EXCEPT ![x] = r] /\ r.pc = th[x].then /\ r.then = "idle"
                            /\ r.file \notin Files /\ (th[x].then = "idle" => r = Idle)
                            /\ (th[x].then # "idle" => r.tor = t /\ r.hd = th[x].hd)
    BY <1>1, <1>2
  <1>4. r.pc \in {"idle", "mark", "savePin", "saveUnpin", "saveRemove"}
    BY <1>0, <1>3 DEF Thread
  <1>5. /\ th'[x] = r /\ \A y \in Threads \ {x} : th'[y] = th[y]
        /\ \A y \in Clients \ {x} : th'[y] = th[y]
    BY <1>3, OneThread
  \* the tables: the file being played becomes the focus
  <1>6. PICK h : /\ handle' = [handle EXCEPT ![t] = h]
                 /\ h = IF f # NoFile /\ th[x].hd = InTable
                        THEN [handle[t] EXCEPT !.focus = IF f = Unfocus THEN NoFile ELSE f] ELSE handle[t]
    BY <1>0 DEF Apply, IInv, TypeOK
  <1>7. th[x].hd = InTable => Open(t) /\ handle[t] \in Handle
    BY <1>0, HandleIs, HandleAssumption DEF Fit
  <1>8. /\ Open(t) => h \in Handle /\ h.wanted = handle[t].wanted
                    /\ h.focus = (IF f # NoFile /\ th[x].hd = InTable
                                 THEN IF f = Unfocus THEN NoFile ELSE f ELSE handle[t].focus)
        /\ ~Open(t) => h = NoHandle
        /\ f \in Files \cup {NoFile, Unfocus}
    <2>1. f \in Files \cup {NoFile, Unfocus}
      BY <1>0 DEF Thread
    <2> QED  BY <1>0, <1>6, <1>7, <2>1, HandleIs DEF Handle, Open
  <1>9. /\ handle' \in [Torrents -> Handle \cup {NoHandle}]
        /\ \A u \in Torrents : handle'[u] = IF u = t THEN h ELSE handle[u]
        /\ \A u \in Torrents : Open(u)' = Open(u)
    BY <1>0, <1>6, <1>8, HandleAssumption DEF IInv, TypeOK, Open
  <1>10. /\ prio' \in [Torrents -> SUBSET Files]
         /\ \A u \in Torrents : prio'[u] = IF u = t /\ th[x].hd # Removed THEN th[x].list ELSE prio[u]
    BY <1>0 DEF Apply, IInv, TypeOK, Thread
  <1>11. Fit(r)'
    <2>1. CASE th[x].then = "idle"
      BY <1>3, <2>1, IdleFits, SelectionAssumption, HandleAssumption DEF Fit
    <2>2. CASE th[x].then # "idle"
      <3>1. /\ r.tor \in Torrents /\ (r.hd = InTable => Open(r.tor)')
            /\ (r.hd \in Handle => r.tor \in raced')
        BY <1>0, <1>3, <1>7, <1>9, <2>2 DEF Fit
      <3> QED  BY <1>3, <1>4, <2>2, <3>1 DEF Fit
    <2> QED  BY <2>1, <2>2
  <1>12. ASSUME NEW u \in Torrents
         PROVE  PriorityFits(u)'
    <2>1. CASE u # t
      <3>1. PriorityFits(u) /\ Updating(u)' = Updating(u) /\ \A y \in Updating(u) : th'[y] = th[y]
        BY <1>0, <1>3, <1>4, <1>5, <2>1 DEF IInv, Updating
      <3>2. handle'[u] = handle[u] /\ prio'[u] = prio[u] /\ (u \in raced => u \in raced')
        BY <1>0, <1>9, <1>10, <2>1
      <3> QED  BY <3>1, <3>2, PrioritySame
    <2>2. CASE u = t
      <3> SUFFICES ASSUME t \notin raced'
                   PROVE  PriorityFits(t)'
        BY <2>2 DEF PriorityFits
      <3>1. PriorityFits(t) /\ x \in Updating(t)
        BY <1>0 DEF IInv, Updating
      <3>2. \A y \in Updating(t) : y = x
        BY <1>0, <3>1 DEF PriorityFits
      <3>3. Updating(t)' = {}
        BY <1>3, <1>4, <1>5, <3>2 DEF Updating
      <3>4. Open(t) => IF th[x].hd = InTable THEN Listed(th[x], t) ELSE Chosen(t) \subseteq prio[t]
        BY <1>0, <3>1 DEF PriorityFits
      <3>5. ASSUME Open(t)
            PROVE  Chosen(t)' \subseteq prio'[t]
        <4>1. handle'[t] = h /\ h.wanted = handle[t].wanted
          BY <1>8, <1>9, <3>5, <1>0
        <4>2. CASE th[x].hd = InTable
          BY <1>0, <1>8, <1>10, <3>4, <3>5, <4>1, <4>2, HandleAssumption, SelectionAssumption
             DEF Chosen, Listed, Focused
        <4>3. CASE th[x].hd # InTable
          <5>1. th[x].hd = Removed
            BY <1>0, <4>3 DEF Fit, Thread, Held
          <5> QED  BY <1>0, <1>8, <1>10, <3>4, <3>5, <4>1, <4>3, <5>1 DEF Chosen, Focused
        <4> QED  BY <4>2, <4>3
      <3> QED  BY <1>0, <1>9, <3>3, <3>5 DEF PriorityFits
    <2> QED  BY <2>1, <2>2
  <1>13. ASSUME NEW u \in gone' \ lost'
         PROVE  GoneFits(u)'
    <2>1. u \in gone \ lost /\ u \in Torrents /\ GoneFits(u) /\ u \notin pinned \cup wkeys
      BY <1>0, <1>13, FilesSame, TypesAre DEF IInv, GoneFits
    <2>2. th[x].then # "idle" => th'[x].tor = th[x].tor /\ (Asking(th'[x]) => Asking(th[x]))
      BY <1>0, <1>3, <1>4, <1>5 DEF Asking
    <2>3. th[x].then # "idle" => /\ Saving(th[x]) => Saving(th'[x])
                                 /\ Unwanting(x) => Unwanting(x)'
                                 /\ Leaving(th[x]) => Leaving(th'[x])
      BY <1>0, <1>3, <1>5 DEF Saving, Unwanting, Leaving
    <2>4. th[x].then = "idle" => ~Saving(th[x]) /\ ~Unwanting(x) /\ ~Leaving(th[x]) /\ ~Asking(th'[x])
      BY <1>0, <1>3, <1>5, IdleFits DEF Saving, Unwanting, Leaving, Asking
    <2>5. x \in Clients /\ th[x].tor = u => ~Asking(th[x])
      BY <2>1 DEF GoneFits
    <2>6. Open(u)' = Open(u)
      BY <1>9, <2>1
    <2> QED  BY <1>0, <1>5, <2>1, <2>2, <2>3, <2>4, <2>5, <2>6, GoneKeeps DEF engine, files, reads
  <1>14. /\ raced' \in SUBSET Torrents /\ raced \subseteq raced'
         /\ pinned' \in SUBSET Torrents /\ applied' \in SUBSET Torrents /\ gone' \in SUBSET Torrents
         /\ UNCHANGED <<meta, wkeys, wanted, files>>
         /\ r.pc \notin {"idle", "scan"} => r.tor \in Torrents
    BY <1>0, <1>3, TypesAre DEF engine
  <1> QED  BY <1>3, <1>9, <1>10, <1>11, <1>12, <1>13, <1>14, OneSteps

\* A pin is given up, or its torrent removed: the priorities follow from the handle.
LEMMA UnpinnedStep ==
    ASSUME IInv, NEW x \in Clients, NEW t \in Torrents, NEW p \in {"saveUnpin", "saveRemove"},
           Unpinned(x, t, p), gone' \in SUBSET (gone \cup {t}),
           t \in gone' => t \in gone \/ (p = "saveRemove" /\ \A y \in Clients \ {x} : th[y].tor # t)
    PROVE  IInv'
  <1>0. /\ x \in Threads /\ th[x] = Idle
        /\ pinned' = pinned \ {t} /\ wkeys' = wkeys \ {t} /\ applied' = applied \ {t}
        /\ UNCHANGED <<meta, prio, wanted, files>>
    BY TypesAre DEF Unpinned, IInv, Fit
  <1>1. \E r \in Thread : /\ th' = [th EXCEPT ![x] = r] /\ r.tor = t
                          /\ (r.pc = "apply" /\ r.then = p) \/ (r.pc = p /\ r.then = "idle")
                          /\ Fit(r)' /\ \A u \in Torrents : PriorityFits(u)'
    <2>1. CASE Open(t)
      <3> DEFINE h0 == [handle[t] EXCEPT !.pinned = FALSE]
      <3>1. handle[t] \in Handle
        BY <2>1, HandleIs
      <3>2. h0 \in Handle /\ h0.wanted = handle[t].wanted /\ h0.focus = handle[t].focus
        BY <3>1 DEF Handle
      <3>3. handle' = [handle EXCEPT ![t] = h0] /\ Compute(x, t, h0, p)
        BY <2>1 DEF Unpinned
      <3>4. PICK h \in Handle : /\ h.wanted = handle[t].wanted /\ h.focus = handle[t].focus
                                /\ handle' = [handle EXCEPT ![t] = h] /\ Compute(x, t, h, p)
        BY <3>2, <3>3
      <3>5. /\ th[x].pc = "idle" /\ th[x].hd = NoHandle /\ th[x].hd # Removed
            /\ handle' = IF th[x].hd \in {NoHandle, InTable} THEN [handle EXCEPT ![t] = h] ELSE handle
        BY <1>0, <3>4, IdleFits, HandleAssumption
      <3>6. PICK r \in Thread : /\ th' = [th EXCEPT ![x] = r] /\ r.tor = t
                                /\ r.pc = (IF meta[t] THEN "apply" ELSE p)
                                /\ r.then = (IF meta[t] THEN p ELSE "idle")
                                /\ Fit(r)' /\ \A u \in Torrents : PriorityFits(u)'
        <4>1. p \in {"mark", "savePin", "saveUnpin", "saveRemove"} /\ UNCHANGED <<meta, prio>>
              /\ x \in Threads
          BY <1>0
        <4>2. /\ th[x].pc \in {"idle", "scan", "pin"} /\ (th[x].pc = "pin" => th[x].tor = t)
              /\ th[x].hd \notin Handle => Open(t)
              /\ th[x].hd \in {NoHandle, InTable} =>
                    \/ h.wanted = handle[t].wanted /\ h.focus = handle[t].focus
                    \/ meta[t] /\ p = "mark"
          BY <2>1, <3>4, <3>5
        <4>3. Compute(x, t, h, p) /\ th[x].hd # Removed
          BY <3>4, <3>5
        <4>4. handle' = IF th[x].hd \in {NoHandle, InTable} THEN [handle EXCEPT ![t] = h] ELSE handle
          BY <3>5
        <4> QED  BY <4>1, <4>2, <4>3, <4>4, ComputeStep
      <3>7. (r.pc = "apply" /\ r.then = p) \/ (r.pc = p /\ r.then = "idle")
        BY <3>6
      <3> QED  BY <3>6, <3>7
    <2>2. CASE ~Open(t)
      <3> DEFINE r0 == [Idle EXCEPT !.tor = t, !.pc = p]
      <3>1. /\ r0 \in Thread /\ r0.pc = p /\ r0.tor = t /\ r0.then = "idle" /\ r0.hd = NoHandle
            /\ r0.file = NoFile
        BY DEF Idle, Thread, Held
      <3>2. th' = [th EXCEPT ![x] = r0] /\ UNCHANGED <<handle, raced, prio>>
        BY <1>0, <2>2 DEF Unpinned
      <3>3. PICK r \in Thread : /\ th' = [th EXCEPT ![x] = r] /\ r.pc = p /\ r.tor = t /\ r.then = "idle"
                                /\ r.hd = NoHandle /\ r.file = NoFile
        BY <3>1, <3>2
      <3>4. Fit(r)'
        BY <3>3, HandleAssumption, SelectionAssumption DEF Fit
      <3>5. ASSUME NEW u \in Torrents
            PROVE  PriorityFits(u)'
        <4>1. PriorityFits(u) /\ Updating(u)' = Updating(u) /\ \A y \in Updating(u) : th'[y] = th[y]
          BY <1>0, <3>3, OneThread, IdleFits DEF IInv, Updating
        <4>2. handle'[u] = handle[u] /\ prio'[u] = prio[u] /\ (u \in raced => u \in raced')
          BY <3>2
        <4> QED  BY <4>1, <4>2, PrioritySame
      <3> QED  BY <3>3, <3>4, <3>5
    <2> QED  BY <2>1, <2>2
  <1>2. PICK r \in Thread : /\ th' = [th EXCEPT ![x] = r] /\ r.tor = t
                            /\ (r.pc = "apply" /\ r.then = p) \/ (r.pc = p /\ r.then = "idle")
                            /\ Fit(r)' /\ \A u \in Torrents : PriorityFits(u)'
    BY <1>1
  <1>3. /\ handle' \in [Torrents -> Handle \cup {NoHandle}]
        /\ \A u \in Torrents : Open(u)' = Open(u)
        /\ raced' \in SUBSET Torrents /\ raced \subseteq raced'
    <2>1. CASE Open(t)
      <3>1. handle[t] \in Handle
        BY <2>1, HandleIs
      <3>2. [handle[t] EXCEPT !.pinned = FALSE] \in Handle
        BY <3>1 DEF Handle
      <3>3. PICK h \in Handle : handle' = [handle EXCEPT ![t] = h]
        BY <2>1, <3>2 DEF Unpinned
      <3>4. Overlap(t)
        BY <2>1 DEF Unpinned, Compute, Update
      <3> QED  BY <2>1, <3>3, <3>4, HandleSet, Overlaps
    <2>2. CASE ~Open(t)
      BY <2>2, TypesAre DEF Unpinned, IInv, TypeOK, Open
    <2> QED  BY <2>1, <2>2
  <1>4. ASSUME NEW u \in gone' \ lost'
        PROVE  GoneFits(u)'
    <2>1. u \in Torrents /\ u \notin pinned' \cup wkeys'
      <3>1. u \in Torrents /\ (u = t \/ u \in gone \ lost)
        BY <1>0, FilesSame, TypesAre
      <3>2. CASE u = t
        BY <1>0, <3>1, <3>2
      <3>3. CASE u # t
        BY <1>0, <3>1, <3>3 DEF IInv, GoneFits
      <3> QED  BY <3>2, <3>3
    <2>2. th'[x] = r /\ \A y \in Clients \ {x} : th'[y] = th[y]
      BY <1>0, <1>2, OneThread
    <2>3. th[x].tor # u /\ ~Asking(r)
      BY <1>0, <1>2, <2>1, IdleFits, SelectionAssumption DEF Asking
    <2>4. Open(u)' = Open(u)
      BY <1>3, <2>1
    <2>5. CASE u \in gone
      <3>1. GoneFits(u)
        BY <1>0, <2>5, FilesSame DEF IInv
      <3> QED  BY <1>0, <2>1, <2>2, <2>3, <2>4, <3>1, GoneKeeps DEF files, reads
    <2>6. CASE u \notin gone
      <3>1. u = t /\ p = "saveRemove" /\ \A y \in Clients \ {x} : th[y].tor # t
        BY <2>6
      <3>2. r.tor = u /\ Saving(r)
        BY <1>2, <3>1 DEF Saving
      <3>3. \E y \in Clients : th'[y].tor = u /\ Saving(th'[y])
        BY <2>2, <3>2
      <3>4. \A y \in Clients : th'[y].tor = u => ~Asking(th'[y])
        BY <2>2, <2>3, <3>1
      <3> QED  BY <2>1, <3>3, <3>4 DEF GoneFits, Asking, Saving, Unwanting, Leaving
    <2> QED  BY <2>5, <2>6
  <1>5. TypeOK' /\ \A y \in Threads : Fit(th[y])'
    <2>1. \A y \in Threads : th'[y] = IF y = x THEN r ELSE th[y]
      BY <1>0, <1>2 DEF IInv, TypeOK
    <2>2. TypeOK'
      BY <1>0, <1>2, <1>3, <2>1, TypesAre DEF IInv, TypeOK, files, reads
    <2>3. ASSUME NEW y \in Threads
          PROVE  Fit(th[y])'
      <3>1. CASE y = x
        BY <1>2, <2>1, <3>1 DEF Fit
      <3>2. CASE y # x
        <4>1. Fit(th[y]) /\ th'[y] = th[y] /\ th[y] \in Thread
          BY <2>1, <3>2, ThreadIs DEF IInv
        <4>2. th[y].hd = InTable => th[y].tor \in Torrents /\ Open(th[y].tor)'
          BY <1>3, <4>1, HandleAssumption DEF Fit
        <4> QED  BY <1>3, <4>1, <4>2 DEF Fit, Open
      <3> QED  BY <3>1, <3>2
    <2> QED  BY <2>2, <2>3
  <1> QED  BY <1>2, <1>4, <1>5 DEF IInv

LEMMA PinApplyStep ==
    ASSUME IInv, NEW x \in Clients, PinApply(x)
    PROVE  IInv'
  <1>a. PICK t \in Torrents : t = th[x].tor
    BY ThreadIs, TypesAre DEF PinApply, IInv
  <1>0. /\ x \in Threads /\ th[x].pc = "pin" /\ th[x].hd # Removed /\ th[x].tor = t /\ Asking(th[x])
        /\ th[x] \in Thread /\ Fit(th[x]) /\ th[x].then = "idle" /\ th[x].file \notin Files
        /\ pinned' = pinned \cup {t} /\ UNCHANGED <<meta, wkeys, wanted, applied, files, gone>>
        /\ meta[t] \in BOOLEAN
    BY <1>a, NotApplying, HandleIs, TypesAre DEF PinApply, Asking
  <1>1. HandleOf(x) \in Handle /\ th[x].hd \in {InTable} \cup Handle
    <2>1. th[x].hd \in {InTable} \cup Handle
      BY <1>0 DEF Fit, Thread, Held
    <2>2. th[x].hd = InTable => handle[t] \in Handle
      BY <1>0, HandleIs DEF Fit
    <2> QED  BY <1>0, <2>1, <2>2 DEF HandleOf
  <1>2. [HandleOf(x) EXCEPT !.pinned = TRUE] \in Handle
    BY <1>1 DEF Handle
  <1>3. PICK k \in Handle : /\ k = [HandleOf(x) EXCEPT !.pinned = TRUE]
                            /\ k.wanted = HandleOf(x).wanted /\ k.focus = HandleOf(x).focus
    BY <1>1, <1>2 DEF Handle
  \* what is left to show of the thread, which goes on to save the pin
  <1>4. ASSUME NEW r \in Thread, th' = [th EXCEPT ![x] = r], r.pc \notin {"idle", "scan"}, r.tor = t, Fit(r)',
               Overlap(t), NEW h \in Handle,
               handle' = IF th[x].hd = InTable THEN [handle EXCEPT ![t] = h] ELSE handle,
               prio' \in [Torrents -> SUBSET Files], \A u \in Torrents : PriorityFits(u)'
        PROVE  IInv'
    <2>1. /\ handle' \in [Torrents -> Handle \cup {NoHandle}]
          /\ \A u \in Torrents : Open(u)' = Open(u)
      <3>1. CASE th[x].hd = InTable
        BY <1>0, <1>4, <3>1, HandleSet DEF Fit
      <3>2. CASE th[x].hd # InTable
        BY <1>4, <3>2 DEF IInv, TypeOK, Open
      <3> QED  BY <3>1, <3>2
    <2>2. ASSUME NEW u \in gone' \ lost'
          PROVE  GoneFits(u)'
      <3>1. u \in gone \ lost /\ u # t /\ u \in Torrents
        BY <1>0, <2>2, FilesSame, AskingNotGone, TypesAre
      <3>2. GoneFits(u) /\ u \notin pinned \cup wkeys
        BY <3>1 DEF IInv, GoneFits
      <3>3. th'[x].tor # u /\ \A y \in Clients \ {x} : th'[y] = th[y]
        BY <1>0, <1>4, <3>1, OneThread
      <3>4. Open(u)' = Open(u)
        BY <2>1, <3>1
      <3> QED  BY <1>0, <3>1, <3>2, <3>3, <3>4, GoneKeeps DEF files, reads
    <2>3. /\ raced' \in SUBSET Torrents /\ raced \subseteq raced'
          /\ pinned' \in SUBSET Torrents /\ applied' \in SUBSET Torrents /\ gone' \in SUBSET Torrents
      BY <1>0, <1>4, Overlaps, TypesAre
    <2>4. r.pc \notin {"idle", "scan"} => r.tor \in Torrents
      BY <1>4
    <2> QED  BY <1>0, <1>4, <2>1, <2>2, <2>3, <2>4, OneSteps
  <1>b. Hold(x, k) /\ UNCHANGED prio /\ handle' = IF th[x].hd = InTable THEN [handle EXCEPT ![t] = k] ELSE handle
    BY <1>a, <1>3 DEF PinApply, Hold
  <1>c. handle' = IF th[x].hd \in {NoHandle, InTable} THEN [handle EXCEPT ![t] = k] ELSE handle
    BY <1>1, <1>b, HandleAssumption
  <1>d. th[x].hd \in {NoHandle, InTable} => k.wanted = handle[t].wanted /\ k.focus = handle[t].focus
    BY <1>0, <1>1, <1>3, HandleAssumption DEF HandleOf
  <1>e. th[x].hd \notin Handle => Open(t)
    BY <1>0, <1>1 DEF Fit
  <1>5. \E r \in Thread : /\ th' = [th EXCEPT ![x] = r] /\ r.tor = t
                         /\ r.pc = (IF meta[t] THEN "apply" ELSE "savePin")
                         /\ r.then = (IF meta[t] THEN "savePin" ELSE "idle")
                         /\ Fit(r)' /\ \A u \in Torrents : PriorityFits(u)'
    <2>1. CASE k.wanted = {}
      <3>1. Update(x, t, Files, Unfocus, "savePin")
        BY <1>a, <1>3, <2>1 DEF PinApply, Everything
      <3>2. /\ Files \in SUBSET Files /\ Unfocus \in {NoFile, Unfocus}
            /\ k.wanted \subseteq Files /\ Focused(k) \subseteq Files
        BY <2>1 DEF Focused
      <3>3. th[x].pc \in {"idle", "scan", "pin"} /\ UNCHANGED <<meta, prio>>
        BY <1>0, <1>b
      <3>4. /\ "savePin" \in {"mark", "savePin", "saveUnpin", "saveRemove"}
            /\ k.wanted # {} => Files = k.wanted \cup Focused(k)
        BY <2>1
      <3> HIDE DEF Update
      <3> QED  BY <1>0, <1>c, <1>d, <1>e, <3>1, <3>2, <3>3, <3>4, UpdateStep
    <2>2. CASE k.wanted # {}
      <3>1. Compute(x, t, k, "savePin")
        BY <1>a, <1>3, <2>2 DEF PinApply
      <3> QED  BY <1>0, <1>b, <1>c, <1>d, <1>e, <3>1, ComputeStep
    <2> QED  BY <2>1, <2>2
  <1>6. PICK r \in Thread : /\ th' = [th EXCEPT ![x] = r] /\ r.tor = t
                            /\ r.pc = (IF meta[t] THEN "apply" ELSE "savePin")
                            /\ r.then = (IF meta[t] THEN "savePin" ELSE "idle")
                            /\ Fit(r)' /\ \A u \in Torrents : PriorityFits(u)'
    BY <1>5
  <1>7. r.pc \notin {"idle", "scan"} /\ Overlap(t) /\ prio' \in [Torrents -> SUBSET Files]
    BY <1>a, <1>b, <1>6 DEF PinApply, Everything, Compute, Update, IInv, TypeOK
  <1> QED  BY <1>4, <1>b, <1>6, <1>7

----------------------------------------------------------------------------
(* The steps that add a torrent, remove it, or find its metadata.           *)

\* What add() puts into the table.
LEMMA FreshFits ==
    ASSUME NEW t \in Torrents, NEW h, h.wanted = {}, h.focus = NoFile, handle'[t] = h
    PROVE  Chosen(t)' = {}
  BY SelectionAssumption DEF Chosen, Focused

LEMMA AddFits ==
    ASSUME IInv, NEW t \in Torrents, Add(t)
    PROVE  /\ handle' \in [Torrents -> Handle \cup {NoHandle}]
           /\ \A u \in Torrents \ {t} : handle'[u] = handle[u] /\ prio'[u] = prio[u]
           /\ \A u \in Torrents \ {t} : Open(u)' = Open(u)
           /\ Open(t)' /\ Chosen(t)' = {}
           /\ meta' \in [Torrents -> BOOLEAN] /\ prio' \in [Torrents -> SUBSET Files]
  <1> DEFINE h0 == FreshHandle(t)
  <1>1. h0 \in Handle /\ h0.wanted = {} /\ h0.focus = NoFile
    BY DEF FreshHandle, Handle
  <1>2. handle' = [handle EXCEPT ![t] = h0]
    BY DEF Add
  <1> HIDE DEF h0
  <1>3. PICK h \in Handle : handle' = [handle EXCEPT ![t] = h] /\ h.wanted = {} /\ h.focus = NoFile
    BY <1>1, <1>2
  <1>4. /\ handle' \in [Torrents -> Handle \cup {NoHandle}] /\ handle'[t] = h /\ Open(t)'
        /\ \A u \in Torrents \ {t} : handle'[u] = handle[u]
    BY <1>3, HandleSet
  <1>5. meta' \in [Torrents -> BOOLEAN] /\ prio' \in [Torrents -> SUBSET Files]
        /\ \A u \in Torrents \ {t} : prio'[u] = prio[u]
    BY DEF Add, IInv, TypeOK
  <1> QED  BY <1>3, <1>4, <1>5, FreshFits DEF Open

LEMMA LazyAddStep ==
    ASSUME IInv, NEW t \in Torrents, LazyAdd(t)
    PROVE  IInv'
  <1>0. ~Open(t) /\ Add(t) /\ gone' = gone \ {t} /\ UNCHANGED <<engine, files, th, raced>>
    BY DEF LazyAdd
  <1>1. TypeOK'
    BY <1>0, AddFits DEF IInv, TypeOK, engine, files, reads
  <1>2. ASSUME NEW x \in Threads
        PROVE  Fit(th[x])'
    <2>1. Fit(th[x]) /\ (th[x].hd = InTable => th[x].tor \in Torrents /\ th[x].tor # t)
      BY <1>0, HandleAssumption DEF IInv, Fit
    <2>2. th[x].hd = InTable => Open(th[x].tor)'
      BY <2>1, AddFits, <1>0 DEF Fit
    <2> QED  BY <1>0, <2>1, <2>2 DEF Fit, Open
  <1>3. \A u \in Torrents : Updating(u)' = Updating(u)
    BY <1>0 DEF Updating
  <1>4. ASSUME NEW u \in Torrents \ {t}
        PROVE  PriorityFits(u)'
    <2>1. PriorityFits(u) /\ handle'[u] = handle[u] /\ prio'[u] = prio[u] /\ (u \in raced => u \in raced')
      BY <1>0, AddFits DEF IInv
    <2> QED  BY <1>0, <1>3, <2>1, PrioritySame
  <1>5. PriorityFits(t)'
    <2>1. \A x \in Updating(t) : th[x].hd # InTable
      BY <1>0 DEF IInv, Fit, Updating
    <2>2. PriorityFits(t) /\ Chosen(t)' = {}
      BY <1>0, AddFits DEF IInv
    <2> QED  BY <1>0, <1>3, <2>1, <2>2 DEF PriorityFits
  <1>6. ASSUME NEW u \in gone' \ lost'
        PROVE  GoneFits(u)'
    <2>1. u \in gone \ lost /\ u # t /\ u \in Torrents
      BY <1>0, <1>6, FilesSame, TypesAre
    <2>2. GoneFits(u) /\ Open(u)' = Open(u)
      BY <1>0, <2>1, AddFits DEF IInv
    <2>3. UNCHANGED <<pinned, wkeys, pinsFile, wantedFile, wantedRead, th>>
      BY <1>0, FilesSame DEF engine
    <2> QED  BY <2>2, <2>3, GoneSame
  <1> QED  BY <1>1, <1>2, <1>4, <1>5, <1>6 DEF IInv

LEMMA MetadataArrivesStep ==
    ASSUME IInv, NEW t \in Torrents, MetadataArrives(t)
    PROVE  IInv'
  <1>0. UNCHANGED <<handle, prio, engine, files, th, raced, gone>>
    BY DEF MetadataArrives
  <1>1. TypeOK'
    BY DEF MetadataArrives, IInv, TypeOK, engine, files, reads
  <1>2. \A x \in Threads : Fit(th[x])'
    BY <1>0 DEF IInv, Fit, Open
  <1>3. ASSUME NEW u \in Torrents
        PROVE  PriorityFits(u)'
    <2>1. PriorityFits(u) /\ Updating(u)' = Updating(u)
      BY <1>0 DEF IInv, Updating
    <2> QED  BY <1>0, <2>1, PrioritySame
  <1>4. ASSUME NEW u \in gone' \ lost'
        PROVE  GoneFits(u)'
    <2>1. UNCHANGED <<pinned, wkeys, pinsFile, wantedFile, wantedRead, lost, th, gone>>
      BY <1>0, FilesSame DEF engine
    <2>2. GoneFits(u) /\ Open(u)' = Open(u)
      BY <1>0, <2>1 DEF IInv, Open
    <2> QED  BY <2>1, <2>2, GoneSame
  <1> QED  BY <1>1, <1>2, <1>3, <1>4 DEF IInv

\* Only the handles the threads hold change.
Rehanded(r, s) ==
    /\ s \in Thread /\ s.pc = r.pc /\ s.tor = r.tor /\ s.then = r.then /\ s.file = r.file /\ s.spec = r.spec

LEMMA RehandIs ==
    ASSUME IInv, NEW x \in Threads, NEW k \in Held
    PROVE  Rehanded(th[x], [th[x] EXCEPT !.hd = k]) /\ [th[x] EXCEPT !.hd = k].hd = k
           /\ Rehanded(th[x], th[x])
  BY ThreadIs DEF Rehanded, IInv, Thread

LEMMA ExpelIs ==
    ASSUME IInv, NEW t \in Torrents
    PROVE  \A y \in Threads :
             /\ Rehanded(th[y], Expel(t)[y])
             /\ Expel(t)[y].hd = IF th[y].hd # NoHandle /\ th[y].tor = t THEN Removed ELSE th[y].hd
             /\ th[y].tor # t => Expel(t)[y] = th[y]
  <1> SUFFICES ASSUME NEW y \in Threads
               PROVE  /\ Rehanded(th[y], Expel(t)[y])
                      /\ Expel(t)[y].hd = IF th[y].hd # NoHandle /\ th[y].tor = t THEN Removed ELSE th[y].hd
                      /\ th[y].tor # t => Expel(t)[y] = th[y]
    OBVIOUS
  <1>1. Expel(t)[y] = IF th[y].hd # NoHandle /\ th[y].tor = t THEN [th[y] EXCEPT !.hd = Removed] ELSE th[y]
    BY DEF Expel
  <1>2. Removed \in Held
    BY DEF Held
  <1> QED  BY <1>1, <1>2, RehandIs

\* The torrent leaves the table: nothing is asked of its priorities, nobody fits worse.
LEMMA Leaves ==
    ASSUME IInv, NEW t \in Torrents, handle' = [handle EXCEPT ![t] = NoHandle],
           meta' \in [Torrents -> BOOLEAN], prio' \in [Torrents -> SUBSET Files],
           \A u \in Torrents \ {t} : prio'[u] = prio[u],
           th' \in [Threads -> Thread],
           \A y \in Threads : \/ th'[y] = Idle /\ th[y].pc # "apply"
                              \/ th'[y] = Expel(t)[y],
           UNCHANGED <<engine, files, raced, gone>>, \A u \in gone' \ lost' : GoneFits(u)'
    PROVE  IInv'
  <1>1. /\ handle' \in [Torrents -> Handle \cup {NoHandle}] /\ ~Open(t)'
        /\ \A u \in Torrents \ {t} : handle'[u] = handle[u] /\ Open(u)' = Open(u)
    BY DEF IInv, TypeOK, Open
  <1>2. ASSUME NEW y \in Threads
        PROVE  Fit(th[y])' /\ (th'[y].pc \notin {"idle", "scan"} => th'[y].tor \in Torrents)
    <2>1. CASE th'[y] = Idle
      <3>1. Fit(Idle)'
        BY IdleFits, SelectionAssumption, HandleAssumption DEF Fit
      <3> QED  BY <2>1, <3>1, IdleFits DEF Fit, Open
    <2>2. CASE th'[y] = Expel(t)[y]
      <3>1. /\ Fit(th[y]) /\ Rehanded(th[y], th'[y]) /\ th[y] \in Thread
            /\ th[y].pc \notin {"idle", "scan"} => th[y].tor \in Torrents
            /\ th'[y].hd = IF th[y].hd # NoHandle /\ th[y].tor = t THEN Removed ELSE th[y].hd
            /\ th[y].tor # t => th'[y] = th[y]
        BY <2>2, ExpelIs, ThreadIs DEF IInv
      <3>2. th'[y].pc = "idle" => th'[y] = Idle
        <4>1. th[y].pc = "idle" => th[y].tor = NoTorrent /\ th[y] = Idle
          BY <3>1, IdleFits DEF Fit
        <4> QED  BY <3>1, <4>1, SelectionAssumption DEF Rehanded
      <3>3. th'[y].hd # NoHandle => th'[y].tor \in Torrents /\ th[y].hd # NoHandle
        BY <3>1, HandleAssumption DEF Rehanded, Fit
      <3>4. th'[y].hd = InTable => Open(th[y].tor)'
        <4>1. th'[y].hd = InTable => th[y].hd = InTable /\ th[y].tor \in Torrents \ {t}
          BY <3>1, <3>3, HandleAssumption DEF Rehanded
        <4> QED  BY <1>1, <3>1, <4>1 DEF Fit
      <3>5. th'[y].hd \in Handle => th'[y].tor \in raced'
        BY <3>1, HandleAssumption DEF Rehanded, Fit
      <3>6. /\ th'[y].pc = "scan" => th'[y].hd = NoHandle
            /\ th'[y].pc \in {"apply", "pin"} => th'[y].hd # NoHandle
        BY <3>1, HandleAssumption DEF Rehanded, Fit
      <3>7. /\ th'[y].pc \in {"want", "append", "writeWant"} => th'[y].spec \in Specs
            /\ th'[y].then # "idle" => th'[y].pc = "apply"
            /\ th'[y].file \in Files => th'[y].pc = "apply" /\ th'[y].then = "idle"
            /\ th'[y].pc \notin {"idle", "scan"} => th'[y].tor \in Torrents
            /\ th'[y].tor = th[y].tor
        BY <3>1 DEF Rehanded, Fit
      <3> QED  BY <3>2, <3>3, <3>4, <3>5, <3>6, <3>7 DEF Fit, Open
    <2> QED  BY <2>1, <2>2
  <1>3. TypeOK'
    BY <1>1, <1>2 DEF IInv, TypeOK, engine, files, reads
  <1>4. \A u \in Torrents : Updating(u)' = Updating(u)
    <2>1. ASSUME NEW y \in Threads
          PROVE  /\ th'[y].pc = "apply" <=> th[y].pc = "apply"
                 /\ th[y].pc = "apply" => th'[y].tor = th[y].tor
      BY ExpelIs, IdleFits DEF Rehanded
    <2> QED  BY <2>1 DEF Updating
  <1>5. ASSUME NEW u \in Torrents \ {t}
        PROVE  PriorityFits(u)'
    <2>1. PriorityFits(u) /\ Updating(u)' = Updating(u)
      BY <1>4 DEF IInv
    <2>2. \A y \in Updating(u) : th'[y] = th[y]
      BY ExpelIs DEF Updating
    <2>3. handle'[u] = handle[u] /\ prio'[u] = prio[u] /\ (u \in raced => u \in raced')
      BY <1>1
    <2> QED  BY <2>1, <2>2, <2>3, PrioritySame
  <1>6. PriorityFits(t)'
    <2>1. PriorityFits(t) /\ raced' = raced
      BY DEF IInv
    <2> QED  BY <1>1, <1>4, <2>1 DEF PriorityFits
  <1> QED  BY <1>2, <1>3, <1>5, <1>6 DEF IInv

LEMMA EngineRemoveStep ==
    ASSUME IInv, NEW t \in Torrents, EngineRemove(t)
    PROVE  IInv'
  <1>0. handle' = [handle EXCEPT ![t] = NoHandle] /\ th' = Expel(t) /\ UNCHANGED <<engine, files, raced, gone>>
    BY DEF EngineRemove
  <1>1. /\ meta' \in [Torrents -> BOOLEAN] /\ prio' \in [Torrents -> SUBSET Files]
        /\ \A u \in Torrents \ {t} : prio'[u] = prio[u]
    BY DEF EngineRemove, IInv, TypeOK
  <1>2. \A y \in Threads : Rehanded(th[y], th'[y])
    BY <1>0, ExpelIs
  <1>3. th' \in [Threads -> Thread]
    BY <1>0, <1>2 DEF Rehanded, Expel
  <1>4. ASSUME NEW u \in gone' \ lost'
        PROVE  GoneFits(u)'
    <2>1. u \in Torrents /\ GoneFits(u)
      BY <1>0, <1>4, FilesSame, TypesAre DEF IInv
    <2>2. Open(u)' => Open(u)
      BY <1>0, <2>1 DEF Open, IInv, TypeOK
    <2>3. \A y \in Clients : th'[y].pc = th[y].pc /\ th'[y].tor = th[y].tor /\ th'[y].then = th[y].then
      BY <1>2, TypesAre DEF Rehanded
    <2> QED  BY <1>0, <2>1, <2>2, <2>3 DEF GoneFits, Asking, Saving, Unwanting, Leaving, engine, files, reads
  <1> QED  BY <1>0, <1>1, <1>3, <1>4, Leaves

LEMMA RemoveDropStep ==
    ASSUME IInv, NEW x \in Clients, RemoveDrop(x)
    PROVE  IInv'
  <1>a. PICK t \in Torrents : t = th[x].tor
    BY ThreadIs, TypesAre DEF RemoveDrop, IInv
  <1>0. /\ handle' = [handle EXCEPT ![t] = NoHandle] /\ th' = [Expel(t) EXCEPT ![x] = Idle]
        /\ UNCHANGED <<engine, files, raced, gone>> /\ x \in Threads /\ th[x].pc = "drop"
    BY <1>a, TypesAre DEF RemoveDrop
  <1>1. /\ meta' \in [Torrents -> BOOLEAN] /\ prio' \in [Torrents -> SUBSET Files]
        /\ \A u \in Torrents \ {t} : prio'[u] = prio[u]
    BY <1>a DEF RemoveDrop, IInv, TypeOK
  <1>2. \A y \in Threads : th'[y] = IF y = x THEN Idle ELSE Expel(t)[y]
    BY <1>0 DEF Expel
  <1>3. \A y \in Threads \ {x} : Rehanded(th[y], th'[y])
    BY <1>2, ExpelIs
  <1>4. th' \in [Threads -> Thread]
    BY <1>0, <1>2, <1>3, IdleFits DEF Rehanded, Expel
  <1>5. ASSUME NEW u \in gone' \ lost'
        PROVE  GoneFits(u)'
    <2>1. u \in Torrents /\ GoneFits(u) /\ u \notin pinned \cup wkeys /\ u \in gone
      BY <1>0, <1>5, FilesSame, TypesAre DEF IInv, GoneFits
    <2>2. Open(u)' => Open(u) /\ u # t
      BY <1>0, <2>1 DEF Open, IInv, TypeOK
    <2>3. \A y \in Clients \ {x} : th'[y].pc = th[y].pc /\ th'[y].tor = th[y].tor /\ th'[y].then = th[y].then
      BY <1>3, TypesAre DEF Rehanded
    <2>4. th[x].then = "idle" /\ ~Saving(th[x]) /\ ~Unwanting(x)
      BY <1>0, NotApplying DEF Saving, Unwanting
    <2>5. th'[x] = Idle /\ th'[x].tor # u
      BY <1>0, <1>2, <2>1, IdleFits, SelectionAssumption
    <2> QED  BY <1>a, <1>0, <2>1, <2>2, <2>3, <2>4, <2>5, GoneKeeps DEF engine, files, reads
  <1>6. \A y \in Threads : \/ th'[y] = Idle /\ th[y].pc # "apply"
                           \/ th'[y] = Expel(t)[y]
    BY <1>0, <1>2
  <1> QED  BY <1>0, <1>1, <1>4, <1>5, <1>6, Leaves

\* A download gives the torrent a new handle: whoever holds the old one is raced with.
LEMMA RehandFits ==
    ASSUME IInv, NEW t \in Torrents, NEW y \in Threads
    PROVE  /\ Rehanded(th[y], Rehold(t, handle[t])[y])
           /\ Rehold(t, handle[t])[y].hd = IF Holding(y, t) THEN handle[t] ELSE th[y].hd
           /\ ~Holding(y, t) => Rehold(t, handle[t])[y] = th[y]
           /\ Holding(y, t) => handle[t] \in Handle
  <1>1. Rehold(t, handle[t])[y] = IF Holding(y, t) THEN [th[y] EXCEPT !.hd = handle[t]] ELSE th[y]
    BY DEF Rehold
  <1>2. Holding(y, t) => handle[t] \in Handle
    BY HandleIs, HandleAssumption DEF Holding, IInv, Fit
  <1>3. CASE Holding(y, t)
    <2>1. PICK k \in Held : k = handle[t]
      BY <1>2, <1>3 DEF Held
    <2> QED  BY <1>1, <1>2, <1>3, <2>1, RehandIs
  <1>4. CASE ~Holding(y, t)
    BY <1>1, <1>4, ThreadIs DEF Rehanded, IInv
  <1> QED  BY <1>3, <1>4

LEMMA DownloadStep ==
    ASSUME IInv, NEW x \in Clients, NEW t \in Torrents, NEW s \in Specs, Download(x, t, s)
    PROVE  IInv'
  <1> DEFINE r0 == [Idle EXCEPT !.pc = "want", !.tor = t, !.spec = s]
  <1>0. /\ x \in Threads /\ th[x] = Idle /\ Add(t) /\ gone' = gone \ {t} /\ UNCHANGED <<engine, files>>
        /\ raced' = IF \E y \in Threads : Holding(y, t) THEN raced \cup {t} ELSE raced
        /\ th' = [Rehold(t, handle[t]) EXCEPT ![x] = r0]
    BY TypesAre DEF Download, IInv, Fit
  <1>1. /\ r0 \in Thread /\ r0.pc = "want" /\ r0.tor = t /\ r0.spec = s /\ r0.hd = NoHandle
        /\ r0.file = NoFile /\ r0.then = "idle"
    BY DEF Idle, Thread, Held
  <1>2. \A y \in Threads : th'[y] = IF y = x THEN r0 ELSE Rehold(t, handle[t])[y]
    BY <1>0 DEF Rehold
  <1>3. th' = [y \in Threads |-> th'[y]]
    BY <1>0 DEF Rehold
  <1> HIDE DEF r0
  <1>4. \A y \in Threads \ {x} : /\ Rehanded(th[y], th'[y])
                                 /\ th'[y].hd = IF Holding(y, t) THEN handle[t] ELSE th[y].hd
                                 /\ ~Holding(y, t) => th'[y] = th[y]
                                 /\ Holding(y, t) => handle[t] \in Handle
    BY <1>2, RehandFits
  <1>5. th'[x] = r0
    BY <1>0, <1>2
  <1>6. raced \subseteq raced' /\ raced' \in SUBSET Torrents
        /\ \A y \in Threads : Holding(y, t) => t \in raced'
    BY <1>0, TypesAre
  <1>7. /\ handle' \in [Torrents -> Handle \cup {NoHandle}]
        /\ \A u \in Torrents \ {t} : handle'[u] = handle[u] /\ prio'[u] = prio[u] /\ Open(u)' = Open(u)
        /\ Open(t)' /\ Chosen(t)' = {}
        /\ meta' \in [Torrents -> BOOLEAN] /\ prio' \in [Torrents -> SUBSET Files]
    BY <1>0, AddFits
  <1>8. th' \in [Threads -> Thread]
    <2>1. \A y \in Threads : th'[y] \in Thread
      BY <1>1, <1>4, <1>5 DEF Rehanded
    <2> QED  BY <1>3, <2>1
  <1>9. \A y \in Threads : th'[y].pc \notin {"idle", "scan"} => th'[y].tor \in Torrents
    BY <1>1, <1>4, <1>5, ThreadIs DEF Rehanded, IInv
  <1>10. TypeOK'
    BY <1>0, <1>6, <1>7, <1>8, <1>9, TypesAre DEF IInv, TypeOK, engine, files, reads
  <1>11. ASSUME NEW y \in Threads
         PROVE  Fit(th[y])'
    <2>1. CASE y = x
      BY <1>1, <1>5, <2>1, SelectionAssumption, HandleAssumption DEF Fit
    <2>2. CASE y # x /\ Holding(y, t)
      <3>1. /\ Fit(th[y]) /\ Rehanded(th[y], th'[y]) /\ th'[y].hd \in Handle /\ th[y].tor = t /\ t \in raced'
            /\ th[y].hd = InTable
        BY <1>4, <1>6, <2>2 DEF IInv, Holding
      <3>2. th'[y].hd # InTable /\ th'[y].hd # NoHandle /\ th[y].pc # "idle" /\ th[y].pc # "scan"
        BY <3>1, IdleFits, HandleAssumption DEF Fit
      <3> QED  BY <3>1, <3>2 DEF Fit, Rehanded
    <2>3. CASE y # x /\ ~Holding(y, t)
      <3>1. Fit(th[y]) /\ th'[y] = th[y]
        BY <1>4, <2>3 DEF IInv
      <3>2. th[y].hd = InTable => th[y].tor \in Torrents \ {t} /\ Open(th[y].tor)
        BY <2>3, <3>1, HandleAssumption DEF Fit, Holding
      <3>3. th[y].hd = InTable => Open(th[y].tor)'
        BY <1>7, <3>1, <3>2 DEF Open
      <3> QED  BY <1>6, <3>1, <3>3 DEF Fit, Open
    <2> QED  BY <2>1, <2>2, <2>3
  <1>12. \A u \in Torrents : Updating(u)' = Updating(u)
    <2>1. \A y \in Threads : /\ th'[y].pc = "apply" <=> th[y].pc = "apply"
                             /\ th[y].pc = "apply" => th'[y].tor = th[y].tor
      BY <1>0, <1>1, <1>4, <1>5, IdleFits DEF Rehanded
    <2> QED  BY <2>1 DEF Updating
  <1>13. ASSUME NEW u \in Torrents \ {t}
         PROVE  PriorityFits(u)'
    <2>1. PriorityFits(u) /\ Updating(u)' = Updating(u) /\ (u \in raced => u \in raced')
          /\ handle'[u] = handle[u] /\ prio'[u] = prio[u]
      BY <1>6, <1>7, <1>12 DEF IInv
    <2>2. \A y \in Updating(u) : th'[y] = th[y]
      BY <1>0, <1>4, IdleFits DEF Updating, Holding
    <2> QED  BY <2>1, <2>2, PrioritySame
  <1>14. PriorityFits(t)'
    <2> SUFFICES ASSUME t \notin raced'
                 PROVE  PriorityFits(t)'
      BY DEF PriorityFits
    <2>1. t \notin raced /\ \A y \in Threads : ~Holding(y, t)
      BY <1>6
    <2>2. \A y \in Updating(t) : th'[y].hd # InTable
      BY <1>0, <1>4, <2>1, IdleFits DEF Updating, Holding
    <2>3. PriorityFits(t)
      BY DEF IInv
    <2> QED  BY <1>7, <1>12, <2>1, <2>2, <2>3 DEF PriorityFits
  <1>15. ASSUME NEW u \in gone' \ lost'
         PROVE  GoneFits(u)'
    <2>1. u \in gone \ lost /\ u # t /\ u \in Torrents
      BY <1>0, <1>15, FilesSame, TypesAre
    <2>2. GoneFits(u) /\ u \notin pinned \cup wkeys /\ Open(u)' = Open(u)
      BY <1>7, <2>1 DEF IInv, GoneFits
    <2>3. th'[x].tor # u /\ th[x].tor # u
      BY <1>0, <1>1, <1>5, <2>1, IdleFits, SelectionAssumption
    <2>4. \A y \in Clients \ {x} : th'[y].pc = th[y].pc /\ th'[y].tor = th[y].tor /\ th'[y].then = th[y].then
      BY <1>4, TypesAre DEF Rehanded
    <2> QED  BY <1>0, <2>1, <2>2, <2>3, <2>4, GoneKeeps DEF engine, files, reads
  <1> QED  BY <1>10, <1>11, <1>13, <1>14, <1>15 DEF IInv

LEMMA UnpinStep ==
    ASSUME IInv, NEW x \in Clients, NEW t \in Torrents, Unpin(x, t)
    PROVE  IInv'
  <1>1. Unpinned(x, t, "saveUnpin") /\ gone' = gone
    BY DEF Unpin
  <1> QED  BY <1>1, UnpinnedStep

LEMMA RemoveStep ==
    ASSUME IInv, NEW x \in Clients, NEW t \in Torrents, Remove(x, t)
    PROVE  IInv'
  <1>1. Unpinned(x, t, "saveRemove")
    BY DEF Remove
  <1>2. gone' \in SUBSET (gone \cup {t})
    BY DEF Remove
  <1>3. t \in gone' => t \in gone \/ \A y \in Clients \ {x} : th[y].tor # t
    BY DEF Remove
  <1> QED  BY <1>1, <1>2, <1>3, UnpinnedStep

\* Nothing is left of what the process did; the files bring back what they name.
LEMMA RestartStep ==
    ASSUME IInv, NEW x \in Clients, Restart(x)
    PROVE  IInv'
  <1> DEFINE wk == {t \in Torrents : wantedFile[t] # {}}
             r0 == [Idle EXCEPT !.pc = "scan", !.todo = wk]
             h0(t) == [pinned |-> t \in pinsFile, wanted |-> {}, focus |-> NoFile]
  <1>0. /\ pinned' = pinsFile /\ wkeys' = wk /\ wanted' = wantedFile /\ applied' = {} /\ raced' = {}
        /\ th' = [y \in Threads |-> IF y = x THEN r0 ELSE Idle]
        /\ handle' = [t \in Torrents |-> IF t \in pinsFile \cup wk THEN h0(t) ELSE NoHandle]
        /\ gone' = {t \in gone : \A y \in Clients : th[y].tor # t}
        /\ UNCHANGED <<meta, prio, pinsFile, wantedFile, lost>> /\ x \in Threads
        /\ ReadsFit'
    BY TypesAre DEF Restart, ReadsFit
  <1>1. PICK r \in Thread : r = r0 /\ r.pc = "scan" /\ r.then = "idle" /\ Fit(r)
    BY ScanStarts
  <1>2. r.hd = NoHandle /\ r.tor = NoTorrent /\ r.file = NoFile
    <2>1. r0.hd = NoHandle /\ r0.tor = NoTorrent /\ r0.file = NoFile
      BY DEF Idle
    <2> QED  BY <1>1, <2>1
  <1>3. th' \in [Threads -> Thread] /\ \A y \in Threads : th'[y] = r \/ th'[y] = Idle
    BY <1>0, <1>1, IdleFits
  <1>4. handle' \in [Torrents -> Handle \cup {NoHandle}]
    <2>1. \A t \in Torrents : h0(t) \in Handle
      BY DEF Handle
    <2> QED  BY <1>0, <2>1
  <1>5. TypeOK'
    <2>1. \A y \in Threads : th'[y].pc \in {"idle", "scan"}
      BY <1>1, <1>3, IdleFits
    <2> QED  BY <1>0, <1>3, <1>4, <2>1, TypesAre DEF IInv, TypeOK, ReadsFit
  <1>6. ASSUME NEW y \in Threads
        PROVE  Fit(th[y])'
    <2>1. CASE th'[y] = r
      BY <1>1, <1>2, <2>1, SelectionAssumption, HandleAssumption DEF Fit
    <2>2. CASE th'[y] = Idle
      BY <2>2, IdleFits, SelectionAssumption, HandleAssumption DEF Fit
    <2> QED  BY <1>3, <2>1, <2>2
  <1>7. ASSUME NEW t \in Torrents
        PROVE  PriorityFits(t)'
    <2>1. Updating(t)' = {}
      BY <1>1, <1>3, IdleFits DEF Updating
    <2>2. Open(t)' => Chosen(t)' = {}
      <3>1. CASE t \in pinsFile \cup wk
        <4>1. PICK h : h = h0(t) /\ handle'[t] = h
          BY <1>0, <3>1
        <4> QED  BY <4>1, FreshFits
      <3>2. CASE t \notin pinsFile \cup wk
        BY <1>0, <3>2 DEF Open
      <3> QED  BY <3>1, <3>2
    <2> QED  BY <2>1, <2>2 DEF PriorityFits
  <1>8. ASSUME NEW t \in gone' \ lost'
        PROVE  GoneFits(t)'
    <2>1. t \in gone \ lost /\ t \in Torrents /\ \A y \in Clients : th[y].tor # t
      BY <1>0, <1>8, TypesAre
    <2>2. t \notin pinsFile /\ wantedFile[t] = {}
      BY <2>1 DEF IInv, GoneFits
    <2>3. ~Open(t)'
      BY <1>0, <2>1, <2>2 DEF Open
    <2>4. \A y \in Clients : th'[y].tor # t
      BY <1>2, <1>3, <2>1, TypesAre, IdleFits, SelectionAssumption
    <2> QED  BY <1>0, <2>2, <2>3, <2>4 DEF GoneFits, files, reads
  <1> QED  BY <1>5, <1>6, <1>7, <1>8 DEF IInv

----------------------------------------------------------------------------
(* The invariant, and what it says.                                         *)

LEMMA InitHolds ==
    ASSUME Init
    PROVE  IInv
  <1>1. \A x \in Threads : th[x] = Idle
    BY DEF Init
  <1>2. TypeOK
    <2>1. th \in [Threads -> Thread]
      BY IdleFits DEF Init
    <2>2. \A x \in Threads : th[x].pc \in {"idle", "scan"}
      BY <1>1, IdleFits
    <2> QED  BY <2>1, <2>2 DEF Init, TypeOK, NoneWanted
  <1>3. \A x \in Threads : Fit(th[x])
    BY <1>1, IdleIsFit
  <1>4. \A t \in Torrents : PriorityFits(t)
    BY <1>1, IdleFits DEF Init, PriorityFits, Updating, Open
  <1>5. gone = {}
    BY DEF Init
  <1> QED  BY <1>2, <1>3, <1>4, <1>5 DEF IInv

LEMMA Stutters ==
    ASSUME IInv, UNCHANGED vars
    PROVE  IInv'
  <1>0. UNCHANGED <<handle, meta, prio, engine, files, th, raced, gone>>
    BY DEF vars
  <1>1. TypeOK'
    BY <1>0 DEF IInv, TypeOK, engine, files, reads
  <1>2. \A x \in Threads : Fit(th[x])'
    BY <1>0 DEF IInv, Fit, Open
  <1>3. ASSUME NEW u \in Torrents
        PROVE  PriorityFits(u)'
    <2>1. PriorityFits(u) /\ Updating(u)' = Updating(u)
      BY <1>0 DEF IInv, Updating
    <2> QED  BY <1>0, <2>1, PrioritySame
  <1>4. ASSUME NEW u \in gone' \ lost'
        PROVE  GoneFits(u)'
    <2>1. UNCHANGED <<pinned, wkeys, pinsFile, wantedFile, wantedRead, lost, th, gone>>
      BY <1>0, FilesSame DEF engine
    <2>2. GoneFits(u) /\ Open(u)' = Open(u)
      BY <1>0, <2>1 DEF IInv, Open
    <2> QED  BY <2>1, <2>2, GoneSame
  <1> QED  BY <1>1, <1>2, <1>3, <1>4 DEF IInv

LEMMA StepKeeps ==
    ASSUME IInv, [Next]_vars
    PROVE  IInv'
  <1>1. CASE UNCHANGED vars
    BY <1>1, Stutters
  <1>2. ASSUME NEW x \in Clients, Request(x)
        PROVE  IInv'
    BY <1>2, DownloadStep, PlayStep, PinGetStep, UnpinStep, RemoveStep DEF Request
  <1>3. ASSUME NEW x \in Clients, RequestStep(x)
        PROVE  IInv'
    <2>1. CASE WantKey(x) \/ WantAppend(x) \/ WantSave(x) \/ WantDiscard(x)
      BY <2>1, WantKeyStep, WantAppendStep, WantSaveStep, WantDiscardStep
    <2>2. CASE PinRefused(x) \/ PinApply(x) \/ PinLoad(x) \/ PinSave(x)
      BY <2>2, PinRefusedStep, PinApplyStep, PinLoadStep, PinSaveStep
    <2>3. CASE UnpinLoad(x) \/ UnpinSave(x) \/ Unwant(x) \/ UnwantSave(x) \/ RemoveDrop(x)
      BY <2>3, UnpinLoadStep, UnpinSaveStep, UnwantStep, UnwantSaveStep, RemoveDropStep
    <2> QED  BY <1>3, <2>1, <2>2, <2>3, SaveFailsStep DEF RequestStep
  <1>4. ASSUME NEW x \in Threads, ScanStep(x)
        PROVE  IInv'
    BY <1>4, ScanApplyStep, ScanSkipStep, ApplyStep, ScanMarkStep, ScanDoneStep DEF ScanStep
  <1>5. ASSUME NEW t \in Torrents, LazyAdd(t) \/ MetadataArrives(t) \/ EngineRemove(t)
        PROVE  IInv'
    BY <1>5, LazyAddStep, MetadataArrivesStep, EngineRemoveStep
  <1>6. CASE Next
    BY <1>2, <1>3, <1>4, <1>5, <1>6, AlertsScanStep, ElsewhereStep, RestartStep DEF Next
  <1> QED  BY <1>1, <1>6

\* The invariant holds in every state the engine reaches.
THEOREM Inductive == Spec => []IInv
  <1>1. Init => IInv
    BY InitHolds
  <1>2. IInv /\ [Next]_vars => IInv'
    BY StepKeeps
  <1> QED  BY <1>1, <1>2, PTL DEF Spec

\* The handles, registries, files and threads of the engine keep their types.
THEOREM TypeCorrect == Spec => []TypeOK
  <1>1. IInv => TypeOK
    BY DEF IInv
  <1> QED  BY <1>1, Inductive, PTL

\* Engine.want and focus_file: what was chosen of a torrent is fetched, however requests,
\* the alerts thread, removals and restarts follow each other, unless two threads changed
\* the priorities of the torrent at once.
THEOREM ChosenIsFetched == Spec => []WantedIsFetched
  <1>1. IInv => WantedIsFetched
    <2> SUFFICES ASSUME IInv, NEW t \in Torrents \ raced, Open(t), Updating(t) = {}
                 PROVE  handle[t].wanted \subseteq prio[t]
      BY DEF WantedIsFetched
    <2>1. PriorityFits(t)
      BY DEF IInv
    <2> QED  BY <2>1 DEF PriorityFits, Chosen
  <1> QED  BY <1>1, Inductive, PTL

\* POST /api/remove: what a completed removal took out of the session, the registries and
\* their files comes back only when somebody asks for it, whatever other requests load and
\* save of the files, except where a save of its own record failed or a later one undid it.
THEOREM RemovedStays == Spec => []RemovedStaysGone
  <1>1. IInv => RemovedStaysGone
    <2> SUFFICES ASSUME IInv, NEW t \in gone \ lost, \A x \in Clients : th[x].tor # t
                 PROVE  ~Open(t) /\ t \notin wkeys \cup pinned \cup pinsFile /\ wantedFile[t] = {}
      BY DEF RemovedStaysGone, StaysGone
    <2>1. GoneFits(t)
      BY DEF IInv
    <2> QED  BY <2>1 DEF GoneFits
  <1> QED  BY <1>1, Inductive, PTL

----------------------------------------------------------------------------
(* Pinning adds no file to what is fetched.                                 *)

Narrowly(x) == PinWidens(x) => th[x].tor \in raced

\* A thread that has not moved, or that now is elsewhere, widens nothing.
LEMMA NotNarrowing ==
    ASSUME IInv, NEW x \in Clients,
           \/ th'[x].pc = th[x].pc
           \/ th'[x].pc # "savePin"
           \/ th[x].pc # "apply"
    PROVE  Narrowly(x)
  <1>1. th[x].then = "savePin" => th[x].pc = "apply"
    BY TypesAre DEF IInv, Fit
  <1> QED  BY <1>1 DEF Narrowly, PinWidens

LEMMA ApplyNarrows ==
    ASSUME IInv, NEW x \in Clients, Apply(x)
    PROVE  Narrowly(x)
  <1>a. PICK t \in Torrents : t = th[x].tor
    BY ThreadIs, TypesAre DEF Apply, IInv
  <1> SUFFICES ASSUME th[x].then = "savePin", t \notin raced, th[x].hd = InTable, handle[t].wanted # {}
               PROVE  prio'[t] \subseteq prio[t]
    BY <1>a DEF Narrowly, PinWidens
  <1>1. x \in Updating(t) /\ t \notin raced /\ Open(t) /\ PriorityFits(t)
    BY <1>a, TypesAre DEF Apply, IInv, Updating, Fit
  <1>2. Listed(th[x], t)
    BY <1>1 DEF PriorityFits
  <1>3. prio'[t] = th[x].list
    BY <1>a, HandleAssumption DEF Apply, IInv, TypeOK
  <1> QED  BY <1>2, <1>3 DEF Listed

\* The steps of one thread leave the others where they are.
LEMMA OthersStay ==
    ASSUME IInv, NEW x \in Clients, NEW y \in Threads,
           \/ Request(y) \/ RequestStep(y) \/ ScanStep(y), y # x
    PROVE  th'[x].pc = th[x].pc
  <1>0. x \in Threads
    BY TypesAre
  <1>1. CASE Request(y)
    <2>1. ASSUME NEW t \in Torrents, NEW s \in Specs, Download(y, t, s)
          PROVE  th'[x].pc = th[x].pc
      <3>1. th'[x] = Rehold(t, handle[t])[x]
        BY <1>0, <2>1 DEF Download, Rehold
      <3> QED  BY <1>0, <3>1, RehandFits DEF Rehanded
    <2>2. ASSUME NEW t \in Torrents, NEW f \in Files, Play(y, t, f)
          PROVE  th'[x].pc = th[x].pc
      BY <1>0, <2>2 DEF Play, IInv, TypeOK
    <2>3. ASSUME NEW t \in Torrents, PinGet(y, t)
          PROVE  th'[x].pc = th[x].pc
      BY <1>0, <2>3 DEF PinGet, IInv, TypeOK
    <2>4. ASSUME NEW t \in Torrents, NEW p, Unpinned(y, t, p)
          PROVE  th'[x].pc = th[x].pc
      BY <1>0, <2>4 DEF Unpinned, Compute, Update, IInv, TypeOK
    <2> QED  BY <1>1, <2>1, <2>2, <2>3, <2>4 DEF Request, Unpin, Remove
  <1>2. CASE RequestStep(y)
    <2>1. CASE WantKey(y) \/ WantAppend(y) \/ WantSave(y) \/ WantDiscard(y)
      BY <1>0, <2>1 DEF WantKey, WantAppend, WantSave, WantDiscard, Goto, IInv, TypeOK
    <2>2. CASE PinRefused(y) \/ PinApply(y) \/ PinLoad(y) \/ PinSave(y)
      BY <1>0, <2>2 DEF PinRefused, PinApply, PinLoad, PinSave, Compute, Everything, Update, Goto, IInv, TypeOK
    <2>3. CASE UnpinLoad(y) \/ UnpinSave(y) \/ Unwant(y) \/ UnwantSave(y) \/ SaveFails(y)
      BY <1>0, <2>3 DEF UnpinLoad, UnpinSave, Unwant, UnwantSave, SaveFails, Goto, IInv, TypeOK
    <2>4. CASE RemoveDrop(y)
      <3>1. PICK t \in Torrents : t = th[y].tor
        BY <2>4, ThreadIs DEF RemoveDrop, IInv
      <3>2. th'[x] = Expel(t)[x]
        BY <1>0, <2>4, <3>1 DEF RemoveDrop, Expel
      <3> QED  BY <1>0, <3>2, ExpelIs DEF Rehanded
    <2> QED  BY <1>2, <2>1, <2>2, <2>3, <2>4 DEF RequestStep
  <1>3. CASE ScanStep(y)
    <2>1. ASSUME NEW t \in Torrents, ScanApply(y, t) \/ ScanSkip(y, t)
          PROVE  th'[x].pc = th[x].pc
      BY <1>0, <2>1 DEF ScanApply, ScanSkip, ApplyWanted, Everything, Narrow, Compute, Update, IInv, TypeOK
    <2>2. CASE Apply(y) \/ ScanMark(y) \/ ScanDone(y)
      BY <1>0, <2>2 DEF Apply, ScanMark, ScanDone, IInv, TypeOK
    <2> QED  BY <1>3, <2>1, <2>2 DEF ScanStep
  <1> QED  BY <1>1, <1>2, <1>3

\* The steps of a thread that has its own to do, other than these two.
LEMMA OwnSteps ==
    ASSUME IInv, NEW x \in Clients, Request(x) \/ RequestStep(x) \/ ScanStep(x)
    PROVE  Narrowly(x)
  <1>1. CASE Request(x)
    BY <1>1, NotNarrowing DEF Request, Download, Play, PinGet, Unpin, Remove, Unpinned
  <1>2. CASE RequestStep(x)
    BY <1>2, NotNarrowing
       DEF RequestStep, WantKey, WantAppend, WantSave, WantDiscard, PinRefused, PinApply, PinLoad, PinSave,
           UnpinLoad, UnpinSave, Unwant, UnwantSave, RemoveDrop, SaveFails
  <1>3. CASE ScanStep(x)
    BY <1>3, ApplyNarrows, NotNarrowing DEF ScanStep, ScanApply, ScanSkip, ScanMark, ScanDone
  <1> QED  BY <1>1, <1>2, <1>3

LEMMA EachNarrows ==
    ASSUME IInv, [Next]_vars, NEW x \in Clients
    PROVE  Narrowly(x)
  <1>0. x \in Threads
    BY TypesAre
  <1>1. CASE UNCHANGED vars
    <2>1. th' = th
      BY <1>1 DEF vars
    <2> QED  BY <2>1, NotNarrowing
  <1>2. ASSUME NEW y \in Threads, Request(y) \/ RequestStep(y) \/ ScanStep(y)
        PROVE  Narrowly(x)
    BY <1>2, OwnSteps, OthersStay, NotNarrowing
  <1>3. ASSUME NEW y \in Clients, Restart(y)
        PROVE  Narrowly(x)
    <2>1. th'[x].pc \in {"idle", "scan"}
      BY <1>0, <1>3 DEF Restart, Idle
    <2> QED  BY <2>1, NotNarrowing
  <1>4. CASE AlertsScan \/ ElsewhereLoad \/ ElsewhereSave
    <2>1. th'[x] = th[x]
      BY <1>0, <1>4, TypesAre DEF AlertsScan, ElsewhereLoad, ElsewhereSave, IInv, TypeOK
    <2> QED  BY <2>1, NotNarrowing
  <1>5. ASSUME NEW t \in Torrents, LazyAdd(t) \/ MetadataArrives(t) \/ EngineRemove(t)
        PROVE  Narrowly(x)
    <2>1. CASE LazyAdd(t) \/ MetadataArrives(t)
      BY <2>1, NotNarrowing DEF LazyAdd, MetadataArrives
    <2>2. CASE EngineRemove(t)
      <3>1. th'[x].pc = th[x].pc
        BY <1>0, <2>2, ExpelIs DEF EngineRemove, Rehanded
      <3> QED  BY <3>1, NotNarrowing
    <2> QED  BY <1>5, <2>1, <2>2
  <1>6. CASE Next
    BY <1>2, <1>3, <1>4, <1>5, <1>6, TypesAre DEF Next
  <1> QED  BY <1>1, <1>6

\* Engine.pin: keeping a torrent adds no file to what is fetched of it when something was
\* chosen before its priorities are applied, unless two threads were changing them at once.
THEOREM PinWidensNothing == Spec => PinNeverWidens
  <1>1. IInv /\ [Next]_vars => [ \A x \in Clients : PinWidens(x) => th[x].tor \in raced ]_vars
    BY EachNarrows DEF Narrowly
  <1> QED  BY <1>1, Inductive, PTL DEF Spec, PinNeverWidens
=============================================================================
