--------------------------- MODULE ServerUpdateProofs ---------------------------
(* Proofs about ServerUpdate, for any workers, containers and bounds.        *)
EXTENDS ServerUpdate, TLAPS

\* what the parameters are: there is a container, a mark that is no worker, bounds
Parameters ==
    /\ Ids # {} /\ Nobody \notin Workers
    /\ MaxVersion \in Nat \ {0} /\ MaxCfg \in Nat /\ MaxEvents \in Nat

Containers == [name : Names, up : BOOLEAN, nets : BOOLEAN, ver : 0..MaxVersion, env : 0..MaxCfg]
Threads ==
    [pc : {"idle", "check", "acquire", "unlock", "write"} \cup Unguarded \cup Guarded \cup Restoring,
     old : Ids \cup {NoId}, new : Ids \cup {NoId}, ver : 0..MaxVersion, nets : BOOLEAN, out : Outcomes]

\* the steps between taking UPDATE_LOCK and releasing it
Held == Unguarded \cup Guarded \cup Restoring \cup {"unlock"}
\* the steps after the release was pulled, and those with a recorded server
Pulled == {"prepare", "stop", "rename", "disconnect"} \cup Guarded
Recorded == {"stop", "rename", "disconnect"} \cup Guarded \cup Restoring
Created == {"start", "validate", "remove", "commit"}

\* Whoever is between taking and releasing the lock has it: one worker at a time.
LockHeld == \A w \in Workers : wk[w].pc \in Held => lock = w

\* One container has the server's name.
OneMain == \A i, j \in Named("main") : i = j

\* As long as the branch went forward nothing is newer than what is published, ...
Released == doubt \/ (tag.main <= remote /\ \A i \in Ids : cont[i].ver <= remote)

\* ... nor than what the holder of the lock installs.
Ahead(w) ==
    wk[w].pc \in Held =>
      /\ wk[w].ver # 0
      /\ doubt \/ (/\ wk[w].ver <= remote /\ tag.main <= wk[w].ver
                   /\ \A i \in Ids : cont[i].ver <= wk[w].ver)

\* Where the old container is, which one has the server's name, and what is tagged.
Swapping(w) ==
    /\ wk[w].pc \in Recorded => wk[w].old \in Ids
    /\ wk[w].pc \in {"stop", "rename"} => wk[w].old \in Named("main")
    /\ wk[w].pc \in {"disconnect", "create", "start", "validate", "remove"} => wk[w].old \in Named("rollback")
    /\ wk[w].pc \in {"disconnect", "create"} => Named("main") = {}
    /\ wk[w].pc = "restoreOld" => Named("main") \subseteq {wk[w].old}
    /\ wk[w].pc \in Pulled => tag.main = wk[w].ver
    /\ wk[w].pc \in Created => /\ wk[w].new \in Named("main") /\ cont[wk[w].new].ver = wk[w].ver
                               /\ wk[w].pc # "start" => cont[wk[w].new].up

\* What is reported as committed was installed.
Committed(w) ==
    wk[w].out = "committed" =>
      /\ wk[w].pc \in {"unlock", "write"}
      /\ wk[w].pc = "unlock" => /\ \E i \in Named("main") : cont[i].up /\ cont[i].ver = wk[w].ver
                                /\ tag.main = wk[w].ver

\* As long as no failure hit where nothing rolls back: the networks of the old server
\* are recorded and given to the new one, and, as long as the branch went forward and
\* the server told its version, what is replaced, and kept, is older.
Intact(w) ==
    /\ wk[w].pc \in Recorded => wk[w].nets
    /\ wk[w].pc \in Created => cont[wk[w].new].nets
    /\ wk[w].pc \in {"pull", "prepare"} => doubt \/ \A i \in Named("main") : cont[i].ver < wk[w].ver
    /\ wk[w].pc \in Pulled \cup {"pull"} \/ (wk[w].pc = "unlock" /\ wk[w].out = "committed")
          => doubt \/ tag.rollback < wk[w].ver

\* A restart is of a container.
Restarting == rs.pc # "idle" => rs.c \in Ids

WorkerFits(w) == Ahead(w) /\ Swapping(w) /\ Committed(w) /\ (~hurt => Intact(w))

IInv ==
    /\ TypeOK /\ LockHeld /\ OneMain /\ Released
    /\ \A w \in Workers : WorkerFits(w)
    /\ ServesUnlessHurt /\ Restarting

----------------------------------------------------------------------------
(* What the steps share.                                                    *)

\* the sets of steps, element by element
LEMMA Steps ==
    /\ Held = {"begin", "pull", "prepare", "stop", "rename", "disconnect", "create", "start", "validate",
               "remove", "commit", "restoreRemove", "restoreOld", "restoreWait", "unlock"}
    /\ Pulled = {"prepare", "stop", "rename", "disconnect", "create", "start", "validate", "remove", "commit"}
    /\ Recorded = {"stop", "rename", "disconnect", "create", "start", "validate", "remove", "commit",
                   "restoreRemove", "restoreOld", "restoreWait"}
    /\ Window \subseteq Held /\ Created \subseteq Held
  BY DEF Held, Pulled, Recorded, Created, Window, Unguarded, Guarded, Restoring

LEMMA ThreadsAre ==
    TypeOK => wk \in [Workers -> Threads] /\ cont \in [Ids -> Containers]
  BY DEF TypeOK, Threads, Containers

\* Who does not hold the lock asks nothing of the containers.
LEMMA OutsiderFits ==
    ASSUME NEW w \in Workers, wk[w].pc \notin Held, wk[w].out = "committed" => wk[w].pc = "write"
    PROVE  WorkerFits(w)
  BY Steps DEF WorkerFits, Ahead, Swapping, Committed, Intact, Created

\* A server answers while nobody is in the window.
LEMMA Serving ==
    ASSUME IInv, ~hurt, \A w \in Workers : wk[w].pc \notin Window
    PROVE  \E c \in Named("main") : cont[c].up /\ cont[c].nets
  BY DEF IInv, ServesUnlessHurt

\* The others, while one holds the lock.
LEMMA Others ==
    ASSUME IInv, NEW w \in Workers, wk[w].pc \in Held
    PROVE  \A u \in Workers \ {w} : wk[u].pc \notin Held /\ (wk[u].out = "committed" => wk[u].pc = "write")
  BY Steps DEF IInv, LockHeld, WorkerFits, Committed

\* A step of the holder of the lock: what the others need is never disturbed.
LEMMA HolderSteps ==
    ASSUME IInv, NEW w \in Workers, wk[w].pc \in Held, NEW r \in Threads, wk' = [wk EXCEPT ![w] = r],
           UNCHANGED <<remote, cfg, lock>>,
           TypeOK', OneMain', Released', WorkerFits(w)', ServesUnlessHurt', UNCHANGED rs
    PROVE  IInv'
  <1>1. \A u \in Workers : wk'[u] = IF u = w THEN r ELSE wk[u]
    BY DEF IInv, TypeOK
  <1>2. LockHeld'
    BY <1>1 DEF IInv, LockHeld
  <1>3. ASSUME NEW u \in Workers \ {w}
        PROVE  WorkerFits(u)'
    <2>1. wk[u].pc \notin Held /\ (wk[u].out = "committed" => wk[u].pc = "write") /\ wk'[u] = wk[u]
      BY <1>1, Others
    <2> QED  BY <2>1, Steps DEF WorkerFits, Ahead, Swapping, Committed, Intact, Created
  <1> QED  BY <1>2, <1>3 DEF IInv, Restarting

\* One that leaves the containers alone.
LEMMA HolderGoes ==
    ASSUME IInv, NEW w \in Workers, wk[w].pc \in Held, NEW r \in Threads, wk' = [wk EXCEPT ![w] = r],
           UNCHANGED <<cont, remote, cfg, lock, rs>>,
           tag' \in [main : 1..MaxVersion, rollback : 0..MaxVersion], result' \in Outcomes,
           events' \in 0..MaxEvents, doubt' \in BOOLEAN, doubt => doubt', doubt' \/ tag'.main <= remote,
           hurt' \in BOOLEAN, hurt => hurt', wk[w].pc \in Window => hurt' \/ r.pc \in Window,
           WorkerFits(w)'
    PROVE  IInv'
  <1>1. \A u \in Workers : wk'[u] = IF u = w THEN r ELSE wk[u]
    BY DEF IInv, TypeOK
  <1>2. TypeOK'
    BY DEF IInv, TypeOK, Threads
  <1>3. OneMain' /\ Released'
    BY DEF IInv, OneMain, Released, Named
  <1>4. ServesUnlessHurt'
    BY <1>1, Serving DEF ServesUnlessHurt, Named
  <1> QED  BY <1>2, <1>3, <1>4, HolderSteps

\* One that changes containers.
LEMMA HolderSwaps ==
    ASSUME IInv, NEW w \in Workers, wk[w].pc \in Held, NEW r \in Threads, wk' = [wk EXCEPT ![w] = r],
           UNCHANGED <<tag, remote, cfg, result, lock, rs, hurt, doubt>>, UNCHANGED events \/ events' \in 0..MaxEvents,
           cont' \in [Ids -> Containers], doubt \/ \A i \in Ids : cont'[i].ver <= remote,
           OneMain', WorkerFits(w)', ServesUnlessHurt'
    PROVE  IInv'
  <1>1. TypeOK'
    BY DEF IInv, TypeOK, Threads, Containers
  <1>2. Released'
    BY DEF IInv, Released
  <1> QED  BY <1>1, <1>2, HolderSteps

\* A step of a worker without the lock.
LEMMA OutsiderGoes ==
    ASSUME IInv, NEW w \in Workers, wk[w].pc \notin Held, NEW r \in Threads, wk' = [wk EXCEPT ![w] = r],
           r.pc \notin Held, r.out # "committed", result' \in Outcomes,
           UNCHANGED <<cont, tag, remote, cfg, lock, rs, hurt, doubt>>, events' \in 0..MaxEvents
    PROVE  IInv'
  <1>1. \A u \in Workers : wk'[u] = IF u = w THEN r ELSE wk[u]
    BY DEF IInv, TypeOK
  <1>2. TypeOK'
    BY DEF IInv, TypeOK, Threads
  <1>3. LockHeld' /\ OneMain' /\ Released' /\ Restarting'
    BY <1>1 DEF IInv, LockHeld, OneMain, Released, Restarting, Named
  <1>4. \A u \in Workers : WorkerFits(u)'
    <2> SUFFICES ASSUME NEW u \in Workers
                 PROVE  WorkerFits(u)'
      OBVIOUS
    <2>1. CASE u = w
      BY <1>1, <2>1, Steps DEF WorkerFits, Ahead, Swapping, Committed, Intact, Created
    <2>2. CASE u # w
      <3>1. WorkerFits(u) /\ wk'[u] = wk[u]
        BY <1>1, <2>2 DEF IInv
      <3> QED  BY <3>1 DEF WorkerFits, Ahead, Swapping, Committed, Intact, Named
    <2> QED  BY <2>1, <2>2
  <1>5. ServesUnlessHurt'
    BY <1>1, Steps DEF IInv, ServesUnlessHurt, Named
  <1> QED  BY <1>2, <1>3, <1>4, <1>5 DEF IInv

Pcs == {"idle", "check", "acquire", "unlock", "write"} \cup Unguarded \cup Guarded \cup Restoring

\* What a step does to its thread: where it goes, with which outcome.
Moves(w, r, p, o) ==
    /\ wk' = [wk EXCEPT ![w] = r]
    /\ r.pc = p /\ r.out = o
    /\ r.old = wk[w].old /\ r.new = wk[w].new /\ r.ver = wk[w].ver /\ r.nets = wk[w].nets

LEMMA Going ==
    ASSUME TypeOK, NEW w \in Workers, NEW p \in Pcs, Goto(w, p)
    PROVE  \E r \in Threads : Moves(w, r, p, wk[w].out)
  <1> DEFINE r == [wk[w] EXCEPT !.pc = p]
  <1>1. wk[w] \in Threads
    BY ThreadsAre
  <1>2. r \in Threads /\ r.pc = p /\ r.out = wk[w].out /\ r.old = wk[w].old /\ r.new = wk[w].new
        /\ r.ver = wk[w].ver /\ r.nets = wk[w].nets
    BY <1>1 DEF Threads, Pcs
  <1>3. wk' = [wk EXCEPT ![w] = r]
    BY DEF Goto
  <1> QED  BY <1>2, <1>3 DEF Moves

LEMMA Ending ==
    ASSUME TypeOK, NEW w \in Workers, NEW p \in Pcs, NEW o \in Outcomes,
           wk' = [wk EXCEPT ![w].pc = p, ![w].out = o]
    PROVE  \E r \in Threads : Moves(w, r, p, o)
  <1> DEFINE r == [wk[w] EXCEPT !.pc = p, !.out = o]
  <1>1. wk[w] \in Threads
    BY ThreadsAre
  <1>2. r \in Threads /\ r.pc = p /\ r.out = o /\ r.old = wk[w].old /\ r.new = wk[w].new
        /\ r.ver = wk[w].ver /\ r.nets = wk[w].nets
    BY <1>1 DEF Threads, Pcs
  <1>3. wk' = [wk EXCEPT ![w] = r]
    OBVIOUS
  <1> QED  BY <1>2, <1>3 DEF Moves

LEMMA PcsAre ==
    Pcs = {"idle", "check", "acquire", "unlock", "write", "begin", "pull", "prepare", "stop", "rename",
           "disconnect", "create", "start", "validate", "remove", "commit", "restoreRemove", "restoreOld",
           "restoreWait"}
  BY DEF Pcs, Unguarded, Guarded, Restoring

----------------------------------------------------------------------------
(* The steps without the lock.                                              *)

LEMMA GuardedUpdateStep ==
    ASSUME IInv, Parameters, NEW w \in Workers, GuardedUpdate(w)
    PROVE  IInv'
  <1>0. TypeOK /\ wk[w].pc = "idle" /\ wk[w].pc \notin Held /\ wk[w].out # "committed"
    BY Steps DEF IInv, GuardedUpdate, WorkerFits, Committed
  <1>. events' \in 0..MaxEvents
    BY <1>0 DEF GuardedUpdate, Event, TypeOK, Parameters
  <1>1. CASE Goto(w, "check") /\ UNCHANGED result
    <2>1. PICK r \in Threads : Moves(w, r, "check", wk[w].out)
      BY <1>0, <1>1, Going, PcsAre
    <2> QED  BY <1>0, <1>1, <2>1, Steps, OutsiderGoes DEF GuardedUpdate, Moves, TypeOK
  <1>2. CASE result' = "noop" /\ UNCHANGED wk
    <2>1. wk' = [wk EXCEPT ![w] = wk[w]] /\ wk[w] \in Threads
      BY <1>0, <1>2, ThreadsAre DEF TypeOK
    <2> QED  BY <1>0, <1>2, <2>1, OutsiderGoes DEF GuardedUpdate, Outcomes
  <1> QED  BY <1>1, <1>2 DEF GuardedUpdate

LEMMA GuardedServerUpdateWorkerStep ==
    ASSUME IInv, Parameters, NEW w \in Workers, GuardedServerUpdateWorker(w)
    PROVE  IInv'
  <1>0. TypeOK /\ wk[w].pc = "check" /\ wk[w].pc \notin Held /\ wk[w].out # "committed"
    BY Steps DEF IInv, GuardedServerUpdateWorker, WorkerFits, Committed
  <1>. events' \in 0..MaxEvents
    BY <1>0 DEF GuardedServerUpdateWorker, Event, TypeOK, Parameters
  <1>1. CASE Goto(w, "acquire") /\ UNCHANGED result
    <2>1. PICK r \in Threads : Moves(w, r, "acquire", wk[w].out)
      BY <1>0, <1>1, Going, PcsAre
    <2> QED  BY <1>0, <1>1, <2>1, Steps, OutsiderGoes DEF GuardedServerUpdateWorker, Moves, TypeOK
  <1>2. CASE Goto(w, "idle") /\ result' = "noop"
    <2>1. PICK r \in Threads : Moves(w, r, "idle", wk[w].out)
      BY <1>0, <1>2, Going, PcsAre
    <2> QED  BY <1>0, <1>2, <2>1, Steps, OutsiderGoes DEF GuardedServerUpdateWorker, Moves, Outcomes
  <1> QED  BY <1>1, <1>2 DEF GuardedServerUpdateWorker

LEMMA WriteResultStep ==
    ASSUME IInv, Parameters, NEW w \in Workers, WriteResult(w)
    PROVE  IInv'
  <1>1. wk[w].pc \notin Held /\ wk[w].out \in Outcomes
    BY Steps, ThreadsAre DEF IInv, WriteResult, Threads
  <1>2. IdleWorker \in Threads /\ IdleWorker.pc = "idle" /\ IdleWorker.out = "none"
    BY DEF IdleWorker, Threads, Outcomes, Parameters
  <1> QED  BY <1>1, <1>2, Steps, OutsiderGoes DEF WriteResult, IInv, TypeOK

\* The one that takes the lock: nobody else is where it matters.
LEMMA AcquireStep ==
    ASSUME IInv, Parameters, NEW w \in Workers, Acquire(w)
    PROVE  IInv'
  <1> DEFINE r == [wk[w] EXCEPT !.pc = "begin", !.ver = remote]
  <1>1. wk[w] \in Threads /\ remote \in 0..MaxVersion
    BY ThreadsAre DEF IInv, TypeOK, Parameters
  <1>2. r \in Threads /\ r.pc = "begin" /\ r.ver = remote /\ r.out = wk[w].out
    BY <1>1, PcsAre DEF Threads, Pcs
  <1>3. wk' = [wk EXCEPT ![w] = r]
    BY DEF Acquire
  <1> HIDE DEF r
  <1>4. \A u \in Workers : wk'[u] = IF u = w THEN r ELSE wk[u]
    BY <1>3 DEF IInv, TypeOK
  <1>5. \A u \in Workers : wk[u].pc \notin Held
    BY DEF IInv, LockHeld, Acquire, Parameters
  <1>6. TypeOK'
    BY <1>2, <1>3 DEF IInv, TypeOK, Threads, Acquire
  <1>7. LockHeld' /\ OneMain' /\ Released' /\ Restarting'
    <2>1. lock' = w /\ UNCHANGED <<cont, tag, remote, rs, doubt>>
      BY DEF Acquire
    <2>2. LockHeld'
      BY <1>4, <1>5, <2>1 DEF LockHeld
    <2>3. OneMain' /\ Released' /\ Restarting'
      BY <2>1 DEF IInv, OneMain, Released, Restarting, Named
    <2> QED  BY <2>2, <2>3
  <1>8. ASSUME NEW u \in Workers
        PROVE  WorkerFits(u)'
    <2>1. CASE u = w
      <3>1. /\ wk'[w].pc = "begin" /\ wk'[w].ver = remote /\ wk'[w].out # "committed"
            /\ UNCHANGED <<cont, tag, remote>>
        <4>1. wk'[w] = r /\ wk[w].pc \notin Held
          BY <1>4, <1>5
        <4>2. WorkerFits(w) /\ UNCHANGED <<cont, tag, remote>>
          BY DEF IInv, Acquire
        <4>3. wk[w].out # "committed"
          BY <4>1, <4>2, Steps DEF Acquire, WorkerFits, Committed
        <4> QED  BY <1>2, <4>1, <4>2, <4>3
      <3>2. /\ doubt \/ (tag.main <= remote /\ \A i \in Ids : cont[i].ver <= remote)
            /\ remote <= remote /\ remote # 0 /\ UNCHANGED doubt
        BY DEF IInv, Released, TypeOK, Acquire
      <3> QED  BY <2>1, <3>1, <3>2, Steps DEF WorkerFits, Ahead, Swapping, Committed, Intact, Created
    <2>2. CASE u # w
      <3>1. WorkerFits(u) /\ wk'[u] = wk[u]
        BY <1>4, <2>2 DEF IInv
      <3> QED  BY <3>1 DEF Acquire, WorkerFits, Ahead, Swapping, Committed, Intact, Named
    <2> QED  BY <2>1, <2>2
  <1>9. ServesUnlessHurt'
    BY <1>4, <1>5, Steps DEF IInv, ServesUnlessHurt, Named, Acquire
  <1> QED  BY <1>6, <1>7, <1>8, <1>9 DEF IInv

----------------------------------------------------------------------------
(* The steps of the holder that leave the containers alone.                 *)

\* The server answers while the holder of the lock is outside the window.
LEMMA HolderServes ==
    ASSUME IInv, NEW w \in Workers, wk[w].pc \in Held, wk[w].pc \notin Window, ~hurt
    PROVE  \E c \in Named("main") : cont[c].up /\ cont[c].nets
  <1>1. \A u \in Workers : wk[u].pc \notin Window
    BY Steps, Others
  <1> QED  BY <1>1, Serving

LEMMA FitsHolder ==
    ASSUME IInv, NEW w \in Workers, wk[w].pc \in Held
    PROVE  /\ TypeOK /\ WorkerFits(w) /\ wk[w] \in Threads
           /\ wk[w].ver \in Nat /\ remote \in Nat /\ tag.main \in Nat
           /\ wk[w].out = "committed" => wk[w].pc = "unlock"
  BY ThreadsAre, Steps DEF IInv, TypeOK, Threads, WorkerFits, Committed

\* A step that ends in a release: nothing is asked of the thread but its version.
LEMMA HolderEnds ==
    ASSUME IInv, NEW w \in Workers, wk[w].pc \in Held, NEW r \in Threads, NEW o \in Outcomes \ {"committed"},
           Moves(w, r, "unlock", o),
           UNCHANGED <<cont, tag, remote, cfg, result, lock, rs, doubt>>, events' \in 0..MaxEvents,
           hurt' \in BOOLEAN, hurt => hurt', wk[w].pc \in Window => hurt'
    PROVE  IInv'
  <1>1. wk'[w] = r
    BY FitsHolder DEF Moves, TypeOK
  <1>2. WorkerFits(w)'
    BY <1>1, FitsHolder, Steps DEF Moves, WorkerFits, Ahead, Swapping, Committed, Intact, Created
  <1>3. /\ tag \in [main : 1..MaxVersion, rollback : 0..MaxVersion] /\ result \in Outcomes
        /\ doubt \in BOOLEAN /\ (doubt \/ tag.main <= remote)
    BY DEF IInv, TypeOK, Released
  <1>4. /\ wk' = [wk EXCEPT ![w] = r]
        /\ tag' \in [main : 1..MaxVersion, rollback : 0..MaxVersion] /\ result' \in Outcomes
        /\ doubt' \in BOOLEAN /\ (doubt' \/ tag'.main <= remote)
    BY <1>3 DEF Moves
  <1> QED  BY <1>2, <1>4, HolderGoes

LEMMA InstalledIs ==
    ASSUME IInv, NEW c \in Named("main"), cont[c].up
    PROVE  Installed = cont[c].ver
  <1>1. c \in Ids
    BY DEF Named
  <1>2. {i \in Named("main") : cont[i].up} = {c}
    BY DEF IInv, OneMain
  <1>3. (CHOOSE i \in {i \in Named("main") : cont[i].up} : TRUE) = c
    BY <1>2
  <1> QED  BY <1>2, <1>3 DEF Installed

LEMMA BeginStep ==
    ASSUME IInv, Parameters, NEW w \in Workers, Begin(w)
    PROVE  IInv'
  <1>0. wk[w].pc = "begin" /\ wk[w].pc \in Held /\ wk[w].pc \notin Window
    BY Steps DEF Begin, Window
  <1>1. CASE wk' = [wk EXCEPT ![w].pc = "unlock", ![w].out = "noop"] /\ UNCHANGED <<tag, result, doubt, events>>
    <2>1. PICK r \in Threads : Moves(w, r, "unlock", "noop")
      BY <1>0, <1>1, Ending, PcsAre, FitsHolder DEF Outcomes
    <2> QED  BY <1>0, <1>1, <2>1, HolderEnds DEF Begin, Outcomes, IInv, TypeOK
  <1>2. CASE FailTo(w, "unlock") /\ UNCHANGED <<tag, result, doubt, events>>
    <2>1. PICK r \in Threads : Moves(w, r, "unlock", "failed")
      BY <1>0, <1>2, Ending, PcsAre, FitsHolder DEF Outcomes, FailTo
    <2> QED  BY <1>0, <1>2, <2>1, HolderEnds DEF Begin, Outcomes, IInv, TypeOK
  <1>3. CASE /\ Named("main") # {}
             /\ IF \E installed \in InstalledForks : installed # wk[w].ver
                THEN UNCHANGED <<doubt, events>>
                ELSE Event /\ doubt' = TRUE
             /\ tag' = [tag EXCEPT !.rollback = cont[CHOOSE i \in Named("main") : TRUE].ver]
             /\ result' = "running" /\ Goto(w, "pull")
    <2> DEFINE old == CHOOSE i \in Named("main") : TRUE
    <2>1. PICK r \in Threads : Moves(w, r, "pull", wk[w].out)
      BY <1>0, <1>3, Going, PcsAre, FitsHolder
    <2>2. wk'[w] = r
      BY <2>1, <1>0, FitsHolder DEF Moves, TypeOK
    <2>3. old \in Named("main") /\ old \in Ids
      BY <1>3 DEF Named
    <2>4. cont[old].ver \in 0..MaxVersion
      BY <2>3, ThreadsAre DEF IInv, Containers
    <2>5. /\ tag' \in [main : 1..MaxVersion, rollback : 0..MaxVersion]
          /\ tag'.main = tag.main /\ tag'.rollback = cont[old].ver
      BY <1>3, <2>4 DEF IInv, TypeOK
    <2> HIDE DEF old
    <2>6. ASSUME ~hurt, ~doubt'
          PROVE  \A i \in Named("main") : cont[i].ver < wk[w].ver
      <3>1. PICK c \in Named("main") : cont[c].up /\ cont[c].nets
        BY <1>0, <2>6, HolderServes
      <3>2. \A i \in Named("main") : i = c
        BY DEF IInv, OneMain
      <3>3. Installed = cont[c].ver /\ c \in Ids
        BY <3>1, InstalledIs DEF Named
      <3>4. \A installed \in InstalledForks : installed = cont[c].ver
        BY <3>2, <3>3 DEF InstalledForks
      <3>5. cont[c].ver # wk[w].ver /\ ~doubt
        BY <1>3, <2>6, <3>4
      <3>6. cont[c].ver <= wk[w].ver /\ cont[c].ver \in Nat
        BY <1>0, <3>3, <3>5, FitsHolder, ThreadsAre DEF WorkerFits, Ahead, Containers
      <3> QED  BY <1>0, <3>2, <3>5, <3>6, FitsHolder
    <2>7. /\ UNCHANGED <<cont, remote, cfg, lock, rs, hurt>> /\ wk[w].out # "committed"
          /\ doubt' \in BOOLEAN /\ (doubt => doubt') /\ events' \in 0..MaxEvents
      <3>1. UNCHANGED <<cont, remote, cfg, lock, rs, hurt>> /\ wk[w].out # "committed"
        BY <1>0, FitsHolder DEF Begin
      <3>2. doubt \in BOOLEAN /\ events \in 0..MaxEvents
        BY DEF IInv, TypeOK
      <3>3. UNCHANGED <<doubt, events>> \/ (Event /\ doubt' = TRUE)
        BY <1>3
      <3>4. events' \in 0..MaxEvents
        BY <3>2, <3>3 DEF Event, Parameters
      <3>5. doubt' \in BOOLEAN /\ (doubt => doubt')
        <4>1. CASE UNCHANGED <<doubt, events>>
          <5>1. doubt' = doubt
            BY <4>1
          <5> QED  BY <5>1, <3>2
        <4>2. CASE doubt' = TRUE
          BY <4>2
        <4> QED  BY <3>3, <4>1, <4>2
      <3> QED  BY <3>1, <3>4, <3>5
    <2>8. WorkerFits(w)
      BY <1>0, FitsHolder
    <2>9. WorkerFits(w)'
      <3>1. Ahead(w)'
        BY <1>0, <2>1, <2>2, <2>5, <2>7, <2>8, Steps DEF Moves, WorkerFits, Ahead
      <3>2. Swapping(w)' /\ Committed(w)'
        BY <2>1, <2>2, <2>7, Steps DEF Moves, Swapping, Committed, Created
      <3>3. ~hurt => Intact(w)'
        BY <2>1, <2>2, <2>3, <2>5, <2>6, <2>7, Steps DEF Moves, Intact, Created, Named
      <3> QED  BY <2>7, <3>1, <3>2, <3>3 DEF WorkerFits
    <2>10. /\ wk' = [wk EXCEPT ![w] = r] /\ result' \in Outcomes
           /\ hurt' \in BOOLEAN /\ (doubt' \/ tag'.main <= remote)
      BY <1>3, <2>1, <2>5, <2>7 DEF Moves, Outcomes, IInv, TypeOK, Released
    <2> QED  BY <1>0, <2>5, <2>7, <2>9, <2>10, HolderGoes
  <1> QED  BY <1>1, <1>2, <1>3 DEF Begin

LEMMA PullStep ==
    ASSUME IInv, Parameters, NEW w \in Workers, PullReleaseImage(w)
    PROVE  IInv'
  <1>0. wk[w].pc = "pull" /\ wk[w].pc \in Held /\ wk[w].pc \notin Window
    BY Steps DEF PullReleaseImage, Window
  <1>1. PICK r \in Threads : Moves(w, r, "prepare", wk[w].out)
    BY <1>0, Going, PcsAre, FitsHolder DEF PullReleaseImage
  <1>2. wk'[w] = r
    BY <1>1, <1>0, FitsHolder DEF Moves, TypeOK
  <1>3. WorkerFits(w) /\ wk[w].ver \in 0..MaxVersion /\ wk[w].out # "committed"
    BY <1>0, FitsHolder DEF Threads
  <1>4. wk[w].ver \in 1..MaxVersion /\ (doubt \/ wk[w].ver <= remote)
    BY <1>0, <1>3, Steps DEF WorkerFits, Ahead, IInv, TypeOK
  <1>5. /\ tag' \in [main : 1..MaxVersion, rollback : 0..MaxVersion]
        /\ tag'.main = wk[w].ver /\ tag'.rollback = tag.rollback
    BY <1>4 DEF PullReleaseImage, IInv, TypeOK
  <1>6. UNCHANGED <<cont, remote, cfg, result, lock, rs, hurt, doubt, events>>
    BY DEF PullReleaseImage
  <1>7. WorkerFits(w)'
    <2>1. Ahead(w)'
      BY <1>0, <1>1, <1>2, <1>3, <1>4, <1>5, <1>6, Steps DEF Moves, WorkerFits, Ahead
    <2>2. Swapping(w)' /\ Committed(w)'
      BY <1>1, <1>2, <1>3, <1>5, Steps DEF Moves, Swapping, Committed, Created
    <2>3. ~hurt => Intact(w)'
      BY <1>0, <1>1, <1>2, <1>3, <1>5, <1>6, Steps DEF Moves, WorkerFits, Intact, Created, Named
    <2> QED  BY <1>6, <2>1, <2>2, <2>3 DEF WorkerFits
  <1>8. /\ wk' = [wk EXCEPT ![w] = r] /\ result' \in Outcomes /\ events' \in 0..MaxEvents
        /\ hurt' \in BOOLEAN /\ doubt' \in BOOLEAN /\ (doubt' \/ tag'.main <= remote)
    BY <1>1, <1>4, <1>5, <1>6 DEF Moves, IInv, TypeOK
  <1> QED  BY <1>0, <1>5, <1>6, <1>7, <1>8, HolderGoes

LEMMA FailUnguardedStep ==
    ASSUME IInv, Parameters, NEW w \in Workers, FailUnguarded(w)
    PROVE  IInv'
  <1>0. wk[w].pc \in Held
    BY DEF Held, FailUnguarded
  <1>1. PICK r \in Threads : Moves(w, r, "unlock", "failed")
    BY <1>0, Ending, PcsAre, FitsHolder DEF Outcomes, FailTo, FailUnguarded
  <1>2. events' \in 0..MaxEvents /\ hurt' \in BOOLEAN
    BY DEF FailUnguarded, Event, IInv, TypeOK, Parameters
  <1> QED  BY <1>0, <1>1, <1>2, HolderEnds DEF FailUnguarded, Outcomes

LEMMA RestoreHealthyStep ==
    ASSUME IInv, NEW w \in Workers, RestoreHealthy(w)
    PROVE  IInv'
  <1>0. wk[w].pc = "restoreWait" /\ wk[w].pc \in Held /\ wk[w].pc \notin Window
    BY Steps DEF RestoreHealthy, Window
  <1>1. PICK r \in Threads : Moves(w, r, "unlock", wk[w].out)
    BY <1>0, Going, PcsAre, FitsHolder DEF RestoreHealthy
  <1>2. wk[w].out \in Outcomes \ {"committed"} /\ events \in 0..MaxEvents /\ hurt \in BOOLEAN
    BY <1>0, FitsHolder DEF Threads, TypeOK
  <1> QED  BY <1>0, <1>1, <1>2, HolderEnds DEF RestoreHealthy

LEMMA RestoreFailsStep ==
    ASSUME IInv, Parameters, NEW w \in Workers, RestoreFails(w)
    PROVE  IInv'
  <1>0. wk[w].pc \in Held /\ wk[w].pc # "unlock"
    BY Steps DEF RestoreFails, Restoring
  <1>1. PICK r \in Threads : Moves(w, r, "unlock", wk[w].out)
    BY <1>0, Going, PcsAre, FitsHolder DEF RestoreFails
  <1>2. wk[w].out \in Outcomes \ {"committed"} /\ events' \in 0..MaxEvents /\ hurt' \in BOOLEAN
    BY <1>0, FitsHolder DEF Threads, TypeOK, RestoreFails, Event, Parameters
  <1> QED  BY <1>0, <1>1, <1>2, HolderEnds DEF RestoreFails

\* The steps that only move the thread on: what is asked of it there is shown for each.
LEMMA HolderMoves ==
    ASSUME IInv, NEW w \in Workers, wk[w].pc \in Held, NEW r \in Threads, NEW p, NEW o, Moves(w, r, p, o),
           UNCHANGED <<cont, tag, remote, cfg, result, lock, rs, hurt, doubt>>, events' \in 0..MaxEvents,
           wk[w].pc \in Window => p \in Window, WorkerFits(w)'
    PROVE  IInv'
  <1>1. /\ tag' \in [main : 1..MaxVersion, rollback : 0..MaxVersion] /\ result' \in Outcomes
        /\ doubt' \in BOOLEAN /\ (doubt' \/ tag'.main <= remote) /\ hurt' \in BOOLEAN /\ wk' = [wk EXCEPT ![w] = r]
    BY DEF IInv, TypeOK, Released, Moves
  <1>2. wk[w].pc \in Window => r.pc \in Window
    BY DEF Moves
  <1> QED  BY <1>1, <1>2, HolderGoes

LEMMA FailGuardedStep ==
    ASSUME IInv, Parameters, NEW w \in Workers, FailGuarded(w)
    PROVE  IInv'
  <1>0. wk[w].pc \in Held /\ wk[w].pc \in Recorded
    BY DEF Held, Recorded, FailGuarded
  <1>1. PICK r \in Threads : Moves(w, r, "restoreRemove", "failed")
    BY <1>0, Ending, PcsAre, FitsHolder DEF Outcomes, FailTo, FailGuarded
  <1>2. wk'[w] = r
    BY <1>0, <1>1, FitsHolder DEF Moves, TypeOK
  <1>3. events' \in 0..MaxEvents /\ "restoreRemove" \in Window
    BY DEF FailGuarded, Event, IInv, TypeOK, Parameters, Window
  <1>4. WorkerFits(w)'
    BY <1>0, <1>1, <1>2, FitsHolder, Steps
       DEF FailGuarded, Moves, WorkerFits, Ahead, Swapping, Committed, Intact, Created
  <1> QED  BY <1>0, <1>1, <1>3, <1>4, HolderMoves DEF FailGuarded

LEMMA ValidateStep ==
    ASSUME IInv, NEW w \in Workers, ValidateReplacement(w)
    PROVE  IInv'
  <1>0. wk[w].pc = "validate" /\ wk[w].pc \in Held /\ wk[w].pc \notin Window
    BY Steps DEF ValidateReplacement, Window
  <1>1. PICK r \in Threads : Moves(w, r, "remove", wk[w].out)
    BY <1>0, Going, PcsAre, FitsHolder DEF ValidateReplacement
  <1>2. wk'[w] = r
    BY <1>0, <1>1, FitsHolder DEF Moves, TypeOK
  <1>3. events' \in 0..MaxEvents
    BY DEF ValidateReplacement, IInv, TypeOK
  <1>4. WorkerFits(w)'
    <2>1. Ahead(w)' /\ Committed(w)'
      BY <1>0, <1>1, <1>2, FitsHolder, Steps DEF ValidateReplacement, Moves, WorkerFits, Ahead, Committed
    <2>2. Swapping(w)'
      BY <1>0, <1>1, <1>2, FitsHolder, Steps
         DEF ValidateReplacement, Moves, WorkerFits, Swapping, Created, Named
    <2>3. ~hurt' => Intact(w)'
      BY <1>0, <1>1, <1>2, FitsHolder, Steps DEF ValidateReplacement, Moves, WorkerFits, Intact, Created
    <2> QED  BY <2>1, <2>2, <2>3 DEF WorkerFits
  <1> QED  BY <1>0, <1>1, <1>3, <1>4, HolderMoves DEF ValidateReplacement

LEMMA CommitStep ==
    ASSUME IInv, NEW w \in Workers, Commit(w)
    PROVE  IInv'
  <1>0. wk[w].pc = "commit" /\ wk[w].pc \in Held /\ wk[w].pc \notin Window
    BY Steps DEF Commit, Window
  <1>1. PICK r \in Threads : Moves(w, r, "unlock", "committed")
    BY <1>0, Ending, PcsAre, FitsHolder DEF Commit, Outcomes
  <1>2. wk'[w] = r
    BY <1>0, <1>1, FitsHolder DEF Moves, TypeOK
  <1>3. events' \in 0..MaxEvents
    BY DEF Commit, IInv, TypeOK
  <1>4. WorkerFits(w)'
    <2>1. Ahead(w)' /\ Swapping(w)'
      BY <1>0, <1>1, <1>2, FitsHolder, Steps DEF Commit, Moves, WorkerFits, Ahead, Swapping, Created
    <2>2. Committed(w)'
      <3>1. /\ wk[w].new \in Named("main") /\ cont[wk[w].new].ver = wk[w].ver /\ cont[wk[w].new].up
            /\ tag.main = wk[w].ver
        BY <1>0, FitsHolder, Steps DEF WorkerFits, Swapping, Created
      <3>2. wk'[w].pc = "unlock" /\ wk'[w].ver = wk[w].ver /\ UNCHANGED <<cont, tag>>
        BY <1>1, <1>2 DEF Moves, Commit
      <3> QED  BY <3>1, <3>2 DEF Committed, Named
    <2>3. ~hurt' => Intact(w)'
      BY <1>0, <1>1, <1>2, FitsHolder, Steps DEF Commit, Moves, WorkerFits, Intact, Created
    <2> QED  BY <2>1, <2>2, <2>3 DEF WorkerFits
  <1> QED  BY <1>0, <1>1, <1>3, <1>4, HolderMoves DEF Commit

\* The lock is given back: nobody is where it matters any more.
LEMMA ReleaseStep ==
    ASSUME IInv, Parameters, NEW w \in Workers, Release(w)
    PROVE  IInv'
  <1>0. wk[w].pc = "unlock" /\ wk[w].pc \in Held /\ wk[w].pc \notin Window
    BY Steps DEF Release, Window
  <1>1. PICK r \in Threads : Moves(w, r, "write", wk[w].out)
    BY <1>0, Going, PcsAre, FitsHolder DEF Release
  <1>2. \A u \in Workers : wk'[u] = IF u = w THEN r ELSE wk[u]
    BY <1>1 DEF Moves, IInv, TypeOK
  <1>3. \A u \in Workers : wk'[u].pc \notin Held /\ (wk'[u].out = "committed" => wk'[u].pc = "write")
    BY <1>0, <1>1, <1>2, Others, Steps DEF Moves
  <1>4. TypeOK'
    BY <1>1 DEF Moves, IInv, TypeOK, Threads, Release
  <1>5. LockHeld' /\ OneMain' /\ Released' /\ Restarting'
    BY <1>3 DEF IInv, LockHeld, OneMain, Released, Restarting, Named, Release
  <1>6. ASSUME NEW u \in Workers
        PROVE  WorkerFits(u)'
    BY <1>3, Steps DEF WorkerFits, Ahead, Swapping, Committed, Intact, Created
  <1>7. ServesUnlessHurt'
    BY <1>0, <1>1, <1>2, Others, Steps DEF Moves, IInv, ServesUnlessHurt, Named, Release
  <1> QED  BY <1>4, <1>5, <1>6, <1>7 DEF IInv

----------------------------------------------------------------------------
(* The steps of the holder that change containers.                          *)

LEMMA ContainerSet ==
    ASSUME TypeOK, NEW c \in Ids, NEW x \in Containers, cont' = [cont EXCEPT ![c] = x]
    PROVE  /\ cont' \in [Ids -> Containers]
           /\ \A i \in Ids : cont'[i] = IF i = c THEN x ELSE cont[i]
  BY ThreadsAre

\* A container that starts keeps all but what it runs with.
LEMMA StartedIs ==
    ASSUME Parameters, TypeOK, NEW c \in Containers, NEW x \in Started(c)
    PROVE  x \in Containers /\ x.name = c.name /\ x.up /\ x.ver = c.ver /\ x.nets = c.nets
  <1>1. PICK e \in {cfg, 0} : x = [c EXCEPT !.up = TRUE, !.env = e]
    BY DEF Started
  <1>2. e \in 0..MaxCfg
    BY DEF TypeOK, Parameters
  <1> QED  BY <1>1, <1>2 DEF Containers

LEMMA BootCounts ==
    ASSUME Parameters, TypeOK, NEW x, Boots(x)
    PROVE  events' \in 0..MaxEvents
  BY DEF Boots, Event, TypeOK, Parameters

LEMMA GoneFits ==
    ASSUME Parameters
    PROVE  Gone \in Containers /\ Gone.name = "none" /\ ~Gone.up /\ Gone.ver = 0
  BY DEF Parameters, Gone, Containers, Names

\* The versions of the containers, when one of them is set.
LEMMA ContainersAre ==
    ASSUME IInv, NEW w \in Workers, wk[w].pc \in Held, NEW i \in Ids
    PROVE  /\ cont[i] \in Containers /\ cont[i].ver \in Nat
           /\ doubt \/ (cont[i].ver <= wk[w].ver /\ cont[i].ver <= remote)
  BY ThreadsAre, Steps DEF IInv, Containers, Released, WorkerFits, Ahead

LEMMA PrepareStep ==
    ASSUME IInv, Parameters, NEW w \in Workers, Prepare(w)
    PROVE  IInv'
  <1>0. wk[w].pc = "prepare" /\ wk[w].pc \in Held /\ wk[w].pc \notin Window
    BY Steps DEF Prepare, Window
  <1>1. CASE FailTo(w, "unlock") /\ UNCHANGED <<cont, tag>>
    <2>1. PICK r \in Threads : Moves(w, r, "unlock", "failed")
      BY <1>0, <1>1, Ending, PcsAre, FitsHolder DEF Outcomes, FailTo
    <2> QED  BY <1>0, <1>1, <2>1, HolderEnds DEF Prepare, Outcomes, IInv, TypeOK
  <1>2. CASE ~(Named("main") = {} \/ \E i \in Named("rollback") : cont[i].up)
    <2> DEFINE old == CHOOSE i \in Named("main") : TRUE
               r == [wk[w] EXCEPT !.pc = "stop", !.old = old, !.nets = cont[old].nets]
    <2>1. old \in Named("main") /\ old \in Ids /\ cont[old].name = "main"
      BY <1>2 DEF Named
    <2>2. /\ cont' = [i \in Ids |-> IF i \in Named("rollback") THEN Gone ELSE cont[i]]
          /\ tag' = [tag EXCEPT !.rollback = cont[old].ver]
          /\ wk' = [wk EXCEPT ![w] = r]
          /\ UNCHANGED <<remote, cfg, result, lock, rs, hurt, doubt, events>>
      BY <1>2 DEF Prepare
    <2>3. /\ cont[old].nets \in BOOLEAN /\ cont[old].ver \in 0..MaxVersion /\ wk[w] \in Threads
      BY <1>0, <2>1, ContainersAre, FitsHolder DEF Containers
    <2>4. /\ r \in Threads /\ r.pc = "stop" /\ r.old = old /\ r.nets = cont[old].nets
          /\ r.out = wk[w].out /\ r.ver = wk[w].ver
      BY <2>1, <2>3, PcsAre DEF Threads, Pcs
    <2>5. tag' \in [main : 1..MaxVersion, rollback : 0..MaxVersion]
          /\ tag'.main = tag.main /\ tag'.rollback = cont[old].ver
      BY <2>2, <2>3 DEF IInv, TypeOK
    <2> HIDE DEF r, old
    <2>6. wk'[w] = r
      BY <2>2, <1>0, FitsHolder DEF TypeOK
    <2>7. cont' \in [Ids -> Containers]
      BY <2>2, GoneFits, ThreadsAre DEF IInv
    <2>8. \A i \in Ids : cont'[i] = IF cont[i].name = "rollback" THEN Gone ELSE cont[i]
      BY <2>2 DEF Named
    <2>9. (Named("main"))' = Named("main")
      BY <2>8, GoneFits DEF Named
    <2>10. TypeOK'
      BY <2>2, <2>4, <2>5, <2>7 DEF IInv, TypeOK, Threads, Containers
    <2>11. OneMain'
      BY <2>9 DEF IInv, OneMain
    <2>12. Released'
      BY <2>2, <2>5, <2>8, GoneFits, <1>0, FitsHolder DEF IInv, Released
    <2>14. WorkerFits(w)'
      <3>1. WorkerFits(w) /\ wk[w].out # "committed" /\ wk[w].ver \in Nat
        BY <1>0, FitsHolder
      <3>2. Ahead(w)'
        BY <1>0, <2>2, <2>4, <2>5, <2>6, <2>8, <3>1, GoneFits, Steps DEF WorkerFits, Ahead
      <3>3. Swapping(w)' /\ Committed(w)'
        BY <1>0, <2>1, <2>4, <2>5, <2>6, <2>9, <3>1, Steps DEF WorkerFits, Swapping, Committed, Created
      <3>4. ASSUME ~hurt
            PROVE  Intact(w)'
        <4>1. PICK c \in Named("main") : cont[c].up /\ cont[c].nets
          BY <1>0, <3>4, HolderServes
        <4>2. c = old
          BY <2>1, <4>1 DEF IInv, OneMain
        <4>3. cont[old].nets /\ (doubt \/ cont[old].ver < wk[w].ver)
          BY <1>0, <2>1, <3>1, <3>4, <4>1, <4>2, Steps DEF WorkerFits, Intact
        <4> QED  BY <2>2, <2>4, <2>5, <2>6, <4>3, Steps DEF Intact, Created
      <3> QED  BY <2>2, <3>2, <3>3, <3>4 DEF WorkerFits
    <2>15. ServesUnlessHurt'
      <3>1. ASSUME ~hurt
            PROVE  \E c \in Named("main") : cont[c].up /\ cont[c].nets
        BY <1>0, <3>1, HolderServes
      <3>2. \A c \in Named("main") : cont'[c] = cont[c]
        BY <2>8 DEF Named
      <3> QED  BY <2>2, <2>9, <3>1, <3>2 DEF ServesUnlessHurt
    <2> QED  BY <1>0, <2>2, <2>4, <2>10, <2>11, <2>12, <2>14, <2>15, HolderSteps
  <1> QED  BY <1>1, <1>2 DEF Prepare

LEMMA StopOldStep ==
    ASSUME IInv, Parameters, NEW w \in Workers, StopOld(w)
    PROVE  IInv'
  <1> DEFINE old == wk[w].old
             x == [cont[old] EXCEPT !.up = FALSE]
  <1>0. wk[w].pc = "stop" /\ wk[w].pc \in Held
    BY Steps DEF StopOld
  <1>1. PICK r \in Threads : Moves(w, r, "rename", wk[w].out)
    BY <1>0, Going, PcsAre, FitsHolder DEF StopOld
  <1>2. wk'[w] = r /\ wk' = [wk EXCEPT ![w] = r]
    BY <1>0, <1>1, FitsHolder DEF Moves, TypeOK
  <1>3. old \in Named("main") /\ old \in Ids /\ cont[old].name = "main"
    BY <1>0, FitsHolder DEF WorkerFits, Swapping, Named
  <1>4. cont[old] \in Containers
    BY <1>0, <1>3, ContainersAre
  <1>5. /\ x \in Containers /\ x.name = cont[old].name /\ x.ver = cont[old].ver /\ x.env = cont[old].env
    BY <1>4 DEF Containers
  <1>6. cont' = [cont EXCEPT ![old] = x]
    BY DEF StopOld
  <1> HIDE DEF x, old
  <1>7. cont' \in [Ids -> Containers] /\ \A i \in Ids : cont'[i] = IF i = old THEN x ELSE cont[i]
    BY <1>0, <1>3, <1>5, <1>6, ContainerSet, FitsHolder
  <1>8. \A i \in Ids : cont'[i].name = cont[i].name /\ cont'[i].ver = cont[i].ver /\ cont'[i].env = cont[i].env
    BY <1>5, <1>7
  <1>9. (Named("main"))' = Named("main")
    BY <1>8 DEF Named
  <1>10. OneMain' /\ (doubt \/ \A i \in Ids : cont'[i].ver <= remote)
    BY <1>0, <1>8, <1>9, ContainersAre DEF IInv, OneMain
  <1>12. WorkerFits(w)'
    <2>1. UNCHANGED <<tag, remote, hurt, doubt>> /\ WorkerFits(w) /\ wk[w].out # "committed"
      BY <1>0, FitsHolder DEF StopOld
    <2>2. Ahead(w)'
      BY <1>0, <1>1, <1>2, <1>8, <2>1, Steps DEF Moves, WorkerFits, Ahead
    <2>3. Swapping(w)' /\ Committed(w)'
      BY <1>0, <1>1, <1>2, <1>3, <1>9, <2>1, Steps DEF Moves, WorkerFits, Swapping, Committed, Created, old
    <2>4. ~hurt => Intact(w)'
      BY <1>0, <1>1, <1>2, <2>1, Steps DEF Moves, WorkerFits, Intact, Created
    <2> QED  BY <2>1, <2>2, <2>3, <2>4 DEF WorkerFits
  <1>13. ServesUnlessHurt'
    BY <1>1, <1>2 DEF Moves, ServesUnlessHurt, Window
  <1> QED  BY <1>0, <1>2, <1>7, <1>10, <1>12, <1>13, HolderSwaps DEF StopOld

LEMMA RenameOldStep ==
    ASSUME IInv, Parameters, NEW w \in Workers, RenameOld(w)
    PROVE  IInv'
  <1> DEFINE old == wk[w].old
             x == [cont[old] EXCEPT !.name = "rollback"]
  <1>0. wk[w].pc = "rename" /\ wk[w].pc \in Held
    BY Steps DEF RenameOld
  <1>1. PICK r \in Threads : Moves(w, r, "disconnect", wk[w].out)
    BY <1>0, Going, PcsAre, FitsHolder DEF RenameOld
  <1>2. wk'[w] = r /\ wk' = [wk EXCEPT ![w] = r]
    BY <1>0, <1>1, FitsHolder DEF Moves, TypeOK
  <1>3. old \in Named("main") /\ old \in Ids /\ cont[old].name = "main"
    BY <1>0, FitsHolder DEF WorkerFits, Swapping, Named
  <1>4. cont[old] \in Containers
    BY <1>0, <1>3, ContainersAre
  <1>5. x \in Containers /\ x.name = "rollback" /\ x.ver = cont[old].ver /\ x.env = cont[old].env
    BY <1>4 DEF Containers, Names
  <1>6. cont' = [cont EXCEPT ![old] = x]
    BY DEF RenameOld
  <1> HIDE DEF x, old
  <1>7. cont' \in [Ids -> Containers] /\ \A i \in Ids : cont'[i] = IF i = old THEN x ELSE cont[i]
    BY <1>0, <1>3, <1>5, <1>6, ContainerSet, FitsHolder
  <1>8. \A i \in Ids : cont'[i].ver = cont[i].ver /\ cont'[i].env = cont[i].env
    BY <1>5, <1>7
  <1>9. (Named("main"))' = {}
    <2>1. \A i \in Named("main") : i = old
      BY <1>3 DEF IInv, OneMain
    <2> QED  BY <1>5, <1>7, <2>1 DEF Named
  <1>10. OneMain' /\ (doubt \/ \A i \in Ids : cont'[i].ver <= remote)
    BY <1>0, <1>8, <1>9, ContainersAre DEF OneMain
  <1>12. WorkerFits(w)'
    <2>1. UNCHANGED <<tag, remote, hurt, doubt>> /\ WorkerFits(w) /\ wk[w].out # "committed"
      BY <1>0, FitsHolder DEF RenameOld
    <2>2. Ahead(w)'
      BY <1>0, <1>1, <1>2, <1>8, <2>1, Steps DEF Moves, WorkerFits, Ahead
    <2>3. old \in (Named("rollback"))'
      BY <1>3, <1>5, <1>7 DEF Named
    <2>4. Swapping(w)' /\ Committed(w)'
      BY <1>0, <1>1, <1>2, <1>3, <1>9, <2>1, <2>3, Steps
         DEF Moves, WorkerFits, Swapping, Committed, Created, old
    <2>5. ~hurt => Intact(w)'
      BY <1>0, <1>1, <1>2, <2>1, Steps DEF Moves, WorkerFits, Intact, Created
    <2> QED  BY <2>1, <2>2, <2>4, <2>5 DEF WorkerFits
  <1>13. ServesUnlessHurt'
    BY <1>1, <1>2 DEF Moves, ServesUnlessHurt, Window
  <1> QED  BY <1>0, <1>2, <1>7, <1>10, <1>12, <1>13, HolderSwaps DEF RenameOld

LEMMA DisconnectNetworksStep ==
    ASSUME IInv, Parameters, NEW w \in Workers, DisconnectNetworks(w)
    PROVE  IInv'
  <1> DEFINE old == wk[w].old
             x == [cont[old] EXCEPT !.nets = FALSE]
  <1>0. wk[w].pc = "disconnect" /\ wk[w].pc \in Held
    BY Steps DEF DisconnectNetworks
  <1>1. PICK r \in Threads : Moves(w, r, "create", wk[w].out)
    BY <1>0, Going, PcsAre, FitsHolder DEF DisconnectNetworks
  <1>2. wk'[w] = r /\ wk' = [wk EXCEPT ![w] = r]
    BY <1>0, <1>1, FitsHolder DEF Moves, TypeOK
  <1>3. old \in Ids /\ cont[old].name = "rollback" /\ Named("main") = {}
    BY <1>0, FitsHolder DEF WorkerFits, Swapping, Named
  <1>4. cont[old] \in Containers
    BY <1>0, <1>3, ContainersAre
  <1>5. /\ x \in Containers /\ x.name = cont[old].name /\ x.ver = cont[old].ver /\ x.env = cont[old].env
    BY <1>4 DEF Containers
  <1>6. cont' = [cont EXCEPT ![old] = x]
    BY DEF DisconnectNetworks
  <1> HIDE DEF x, old
  <1>7. cont' \in [Ids -> Containers] /\ \A i \in Ids : cont'[i] = IF i = old THEN x ELSE cont[i]
    BY <1>0, <1>3, <1>5, <1>6, ContainerSet, FitsHolder
  <1>8. \A i \in Ids : cont'[i].name = cont[i].name /\ cont'[i].ver = cont[i].ver /\ cont'[i].env = cont[i].env
    BY <1>5, <1>7
  <1>9. (Named("main"))' = {} /\ old \in (Named("rollback"))'
    BY <1>3, <1>8 DEF Named
  <1>10. OneMain' /\ (doubt \/ \A i \in Ids : cont'[i].ver <= remote)
    BY <1>0, <1>8, <1>9, ContainersAre DEF OneMain
  <1>12. WorkerFits(w)'
    <2>1. UNCHANGED <<tag, remote, hurt, doubt>> /\ WorkerFits(w) /\ wk[w].out # "committed"
      BY <1>0, FitsHolder DEF DisconnectNetworks
    <2>2. Ahead(w)'
      BY <1>0, <1>1, <1>2, <1>8, <2>1, Steps DEF Moves, WorkerFits, Ahead
    <2>3. Swapping(w)' /\ Committed(w)'
      BY <1>0, <1>1, <1>2, <1>3, <1>9, <2>1, Steps DEF Moves, WorkerFits, Swapping, Committed, Created, old
    <2>4. ~hurt => Intact(w)'
      BY <1>0, <1>1, <1>2, <2>1, Steps DEF Moves, WorkerFits, Intact, Created
    <2> QED  BY <2>1, <2>2, <2>3, <2>4 DEF WorkerFits
  <1>13. ServesUnlessHurt'
    BY <1>1, <1>2 DEF Moves, ServesUnlessHurt, Window
  <1> QED  BY <1>0, <1>2, <1>7, <1>10, <1>12, <1>13, HolderSwaps DEF DisconnectNetworks

LEMMA CreateReplacementStep ==
    ASSUME IInv, Parameters, NEW w \in Workers, CreateReplacement(w)
    PROVE  IInv'
  <1> DEFINE new == CHOOSE i \in {i \in Named("none") : i # rs.c} : TRUE
             x == ContainerCreatePayload(w)
             r == [wk[w] EXCEPT !.pc = "start", !.new = new]
  <1>0. wk[w].pc = "create" /\ wk[w].pc \in Held
    BY Steps DEF CreateReplacement
  <1>1. new \in Named("none") /\ new # rs.c /\ new \in Ids /\ cont[new].name = "none"
    BY DEF CreateReplacement, Named
  <1>2. wk[w] \in Threads /\ WorkerFits(w) /\ tag.main \in 1..MaxVersion /\ wk[w].out # "committed"
    BY <1>0, FitsHolder DEF TypeOK
  <1>3. r \in Threads /\ r.pc = "start" /\ r.old = wk[w].old /\ r.new = new /\ r.ver = wk[w].ver
        /\ r.nets = wk[w].nets /\ r.out = wk[w].out
    BY <1>1, <1>2, PcsAre DEF Threads, Pcs
  <1>4. /\ x \in Containers /\ x.name = "main" /\ x.ver = tag.main /\ x.nets = wk[w].nets
    BY <1>2 DEF ContainerCreatePayload, Containers, Names, Threads, Parameters
  <1>5. cont' = [cont EXCEPT ![new] = x] /\ wk' = [wk EXCEPT ![w] = r]
        /\ UNCHANGED <<tag, remote, cfg, result, lock, rs, hurt, doubt, events>>
    BY DEF CreateReplacement
  <1> HIDE DEF x, r, new
  <1>6. wk'[w] = r
    BY <1>0, <1>5, FitsHolder DEF TypeOK
  <1>7. cont' \in [Ids -> Containers] /\ \A i \in Ids : cont'[i] = IF i = new THEN x ELSE cont[i]
    BY <1>0, <1>1, <1>4, <1>5, ContainerSet, FitsHolder
  <1>8. Named("main") = {} /\ wk[w].old \in Ids /\ cont[wk[w].old].name = "rollback" /\ tag.main = wk[w].ver
    BY <1>0, <1>2, Steps DEF WorkerFits, Swapping, Named
  <1>9. (Named("main"))' = {new} /\ wk[w].old \in (Named("rollback"))'
    BY <1>1, <1>4, <1>7, <1>8 DEF Named
  <1>10. OneMain' /\ (doubt \/ \A i \in Ids : cont'[i].ver <= remote /\ cont'[i].ver <= wk[w].ver)
    <2>1. doubt \/ (tag.main <= remote /\ tag.main <= wk[w].ver)
      BY <1>0, <1>2, Steps DEF IInv, Released, WorkerFits, Ahead
    <2> QED  BY <1>0, <1>4, <1>7, <1>9, <2>1, ContainersAre DEF OneMain
  <1>12. WorkerFits(w)'
    <2>1. Ahead(w)'
      BY <1>0, <1>2, <1>3, <1>5, <1>6, <1>10, Steps DEF WorkerFits, Ahead
    <2>2. Swapping(w)' /\ Committed(w)'
      BY <1>1, <1>2, <1>3, <1>4, <1>5, <1>6, <1>7, <1>8, <1>9, Steps DEF Swapping, Committed, Created
    <2>3. ~hurt => Intact(w)'
      <3>1. cont'[new].nets = wk[w].nets
        BY <1>1, <1>4, <1>7
      <3> QED  BY <1>0, <1>2, <1>3, <1>5, <1>6, <3>1, Steps DEF WorkerFits, Intact, Created
    <2> QED  BY <1>5, <2>1, <2>2, <2>3 DEF WorkerFits
  <1>13. ServesUnlessHurt'
    BY <1>3, <1>6 DEF ServesUnlessHurt, Window
  <1> QED  BY <1>0, <1>3, <1>5, <1>7, <1>10, <1>12, <1>13, HolderSwaps

LEMMA StartReplacementStep ==
    ASSUME IInv, Parameters, NEW w \in Workers, StartReplacement(w)
    PROVE  IInv'
  <1> DEFINE new == wk[w].new
  <1>0. wk[w].pc = "start" /\ wk[w].pc \in Held
    BY Steps DEF StartReplacement
  <1>1. PICK r \in Threads : Moves(w, r, "validate", wk[w].out)
    BY <1>0, Going, PcsAre, FitsHolder DEF StartReplacement
  <1>2. wk'[w] = r /\ wk' = [wk EXCEPT ![w] = r]
    BY <1>0, <1>1, FitsHolder DEF Moves, TypeOK
  <1>3. WorkerFits(w) /\ wk[w].out # "committed" /\ new \in Named("main")
    BY <1>0, FitsHolder, Steps DEF WorkerFits, Swapping, Created
  <1>4. new \in Ids /\ cont[new].name = "main" /\ cont[new].ver = wk[w].ver /\ cfg \in 0..MaxCfg
    BY <1>0, <1>3, FitsHolder, Steps DEF WorkerFits, Swapping, Created, Named, TypeOK
  <1>5. cont[new] \in Containers /\ events \in 0..MaxEvents
    BY <1>0, <1>4, ContainersAre DEF IInv, TypeOK
  <1>. PICK x \in Started(cont[new]) : Boots(x) /\ cont' = [cont EXCEPT ![new] = x]
    BY DEF StartReplacement
  <1>6. /\ x \in Containers /\ x.name = "main" /\ x.up /\ x.ver = cont[new].ver /\ x.nets = cont[new].nets
    BY <1>4, <1>5, StartedIs DEF IInv
  <1>7. cont' = [cont EXCEPT ![new] = x]
    OBVIOUS
  <1>8. UNCHANGED <<tag, remote, cfg, result, lock, rs, hurt, doubt>> /\ events' \in 0..MaxEvents
    BY BootCounts DEF StartReplacement, IInv
  <1>9. cont' \in [Ids -> Containers] /\ \A i \in Ids : cont'[i] = IF i = new THEN x ELSE cont[i]
    BY <1>0, <1>4, <1>6, <1>7, ContainerSet, FitsHolder
  <1>10. \A i \in Ids : cont'[i].name = cont[i].name /\ cont'[i].ver = cont[i].ver /\ cont'[i].nets = cont[i].nets
    BY <1>4, <1>6, <1>9
  <1>11. (Named("main"))' = Named("main") /\ (Named("rollback"))' = Named("rollback")
    BY <1>10 DEF Named
  <1>12. OneMain' /\ (doubt \/ \A i \in Ids : cont'[i].ver <= remote)
    BY <1>0, <1>10, <1>11, ContainersAre DEF IInv, OneMain
  <1>14. WorkerFits(w)'
    <2>1. Ahead(w)'
      BY <1>0, <1>1, <1>2, <1>3, <1>8, <1>10, Steps DEF Moves, WorkerFits, Ahead
    <2>2. cont'[new].up /\ cont'[new].ver = wk[w].ver
      BY <1>4, <1>6, <1>9
    <2>3. Swapping(w)' /\ Committed(w)'
      BY <1>0, <1>1, <1>2, <1>3, <1>8, <1>11, <2>2, Steps
         DEF Moves, WorkerFits, Swapping, Committed, Created
    <2>4. ~hurt => Intact(w)'
      BY <1>0, <1>1, <1>2, <1>3, <1>4, <1>8, <1>10, Steps DEF Moves, WorkerFits, Intact, Created
    <2> QED  BY <1>8, <2>1, <2>3, <2>4 DEF WorkerFits
  <1>15. ServesUnlessHurt'
    <2>1. ~hurt => cont[new].nets
      BY <1>0, <1>3, Steps DEF WorkerFits, Intact, Created
    <2>2. new \in (Named("main"))' /\ cont'[new].up /\ cont'[new].nets = cont[new].nets
      BY <1>3, <1>4, <1>6, <1>9, <1>11
    <2> QED  BY <1>8, <2>1, <2>2 DEF ServesUnlessHurt
  <1> QED  BY <1>0, <1>2, <1>8, <1>9, <1>12, <1>14, <1>15, HolderSwaps

LEMMA RemoveOldStep ==
    ASSUME IInv, Parameters, NEW w \in Workers, RemoveOld(w)
    PROVE  IInv'
  <1> DEFINE old == wk[w].old
             new == wk[w].new
  <1>0. wk[w].pc = "remove" /\ wk[w].pc \in Held /\ wk[w].pc \notin Window
    BY Steps DEF RemoveOld, Window
  <1>1. PICK r \in Threads : Moves(w, r, "commit", wk[w].out)
    BY <1>0, Going, PcsAre, FitsHolder DEF RemoveOld
  <1>2. wk'[w] = r /\ wk' = [wk EXCEPT ![w] = r]
    BY <1>0, <1>1, FitsHolder DEF Moves, TypeOK
  <1>3. WorkerFits(w) /\ wk[w].out # "committed"
    BY <1>0, FitsHolder
  <1>4. old \in Ids /\ cont[old].name = "rollback" /\ new \in Ids /\ cont[new].name = "main"
    BY <1>0, <1>3, Steps DEF WorkerFits, Swapping, Created, Named
  <1>5. cont' = [cont EXCEPT ![old] = Gone] /\ UNCHANGED <<tag, remote, cfg, result, lock, rs, hurt, doubt, events>>
    BY DEF RemoveOld
  <1>6. cont' \in [Ids -> Containers] /\ \A i \in Ids : cont'[i] = IF i = old THEN Gone ELSE cont[i]
    BY <1>0, <1>4, <1>5, ContainerSet, FitsHolder, GoneFits
  <1>7. (Named("main"))' = Named("main") /\ \A c \in Named("main") : cont'[c] = cont[c]
    BY <1>4, <1>6, GoneFits DEF Named
  <1>8. OneMain' /\ (doubt \/ \A i \in Ids : cont'[i].ver <= remote /\ cont'[i].ver <= wk[w].ver)
    <2>1. 0 <= remote /\ 0 <= wk[w].ver
      BY <1>0, FitsHolder
    <2> QED  BY <1>0, <1>6, <1>7, <2>1, ContainersAre, GoneFits DEF IInv, OneMain
  <1>10. WorkerFits(w)'
    <2>1. Ahead(w)'
      BY <1>0, <1>1, <1>2, <1>3, <1>5, <1>8, Steps DEF Moves, WorkerFits, Ahead
    <2>2. Swapping(w)' /\ Committed(w)'
      BY <1>0, <1>1, <1>2, <1>3, <1>5, <1>7, Steps DEF Moves, WorkerFits, Swapping, Committed, Created
    <2>3. ~hurt => Intact(w)'
      <3>1. cont'[new] = cont[new]
        BY <1>4, <1>7 DEF Named
      <3> QED  BY <1>0, <1>1, <1>2, <1>3, <1>5, <3>1, Steps DEF Moves, WorkerFits, Intact, Created
    <2> QED  BY <1>5, <2>1, <2>2, <2>3 DEF WorkerFits
  <1>11. ServesUnlessHurt'
    BY <1>0, <1>5, <1>7, HolderServes DEF ServesUnlessHurt
  <1> QED  BY <1>0, <1>2, <1>5, <1>6, <1>8, <1>10, <1>11, HolderSwaps

LEMMA RestoreRemoveStep ==
    ASSUME IInv, Parameters, NEW w \in Workers, RestoreRemove(w)
    PROVE  IInv'
  <1> DEFINE old == wk[w].old
  <1>0. wk[w].pc = "restoreRemove" /\ wk[w].pc \in Held
    BY Steps DEF RestoreRemove
  <1>1. PICK r \in Threads : Moves(w, r, "restoreOld", wk[w].out)
    BY <1>0, Going, PcsAre, FitsHolder DEF RestoreRemove
  <1>2. wk'[w] = r /\ wk' = [wk EXCEPT ![w] = r]
    BY <1>0, <1>1, FitsHolder DEF Moves, TypeOK
  <1>3. WorkerFits(w) /\ wk[w].out # "committed"
    BY <1>0, FitsHolder
  <1>4. /\ cont' = [i \in Ids |-> IF i \in Named("main") \ {old} THEN Gone ELSE cont[i]]
        /\ UNCHANGED <<tag, remote, cfg, result, lock, rs, hurt, doubt, events>>
    BY DEF RestoreRemove
  <1>5. cont' \in [Ids -> Containers]
    BY <1>4, GoneFits, ThreadsAre DEF IInv
  <1>6. \A i \in Ids : cont'[i] = IF cont[i].name = "main" /\ i # old THEN Gone ELSE cont[i]
    BY <1>4 DEF Named
  <1>7. (Named("main"))' \subseteq {old}
    BY <1>6, GoneFits DEF Named
  <1>8. OneMain' /\ (doubt \/ \A i \in Ids : cont'[i].ver <= remote /\ cont'[i].ver <= wk[w].ver)
    <2>1. 0 <= remote /\ 0 <= wk[w].ver
      BY <1>0, FitsHolder
    <2> QED  BY <1>0, <1>6, <1>7, <2>1, ContainersAre, GoneFits DEF OneMain
  <1>10. WorkerFits(w)'
    <2>1. Ahead(w)'
      BY <1>0, <1>1, <1>2, <1>3, <1>4, <1>8, Steps DEF Moves, WorkerFits, Ahead
    <2>2. Swapping(w)' /\ Committed(w)'
      BY <1>0, <1>1, <1>2, <1>3, <1>4, <1>7, Steps DEF Moves, WorkerFits, Swapping, Committed, Created
    <2>3. ~hurt => Intact(w)'
      BY <1>0, <1>1, <1>2, <1>3, <1>4, Steps DEF Moves, WorkerFits, Intact, Created
    <2> QED  BY <1>4, <2>1, <2>2, <2>3 DEF WorkerFits
  <1>11. ServesUnlessHurt'
    BY <1>1, <1>2 DEF Moves, ServesUnlessHurt, Window
  <1> QED  BY <1>0, <1>2, <1>4, <1>5, <1>8, <1>10, <1>11, HolderSwaps

LEMMA RestoreOldStep ==
    ASSUME IInv, Parameters, NEW w \in Workers, RestoreOld(w)
    PROVE  IInv'
  <1> DEFINE old == wk[w].old
  <1>0. wk[w].pc = "restoreOld" /\ wk[w].pc \in Held
    BY Steps DEF RestoreOld
  <1>1. PICK r \in Threads : Moves(w, r, "restoreWait", wk[w].out)
    BY <1>0, Going, PcsAre, FitsHolder DEF RestoreOld
  <1>2. wk'[w] = r /\ wk' = [wk EXCEPT ![w] = r]
    BY <1>0, <1>1, FitsHolder DEF Moves, TypeOK
  <1>3. /\ WorkerFits(w) /\ wk[w].out # "committed" /\ wk[w].nets \in BOOLEAN
        /\ cfg \in 0..MaxCfg
    BY <1>0, FitsHolder DEF Threads, TypeOK
  <1>4. old \in Ids /\ Named("main") \subseteq {old} /\ cont[old] # Gone
    BY <1>0, <1>3, Steps DEF WorkerFits, Swapping, RestoreOld
  <1>5. cont[old] \in Containers
    BY <1>0, <1>4, ContainersAre
  <1>. PICK s \in IF cont[old].up THEN {cont[old]} ELSE Started(cont[old]) :
         /\ IF cont[old].up THEN UNCHANGED events ELSE Boots(s)
         /\ cont' = [cont EXCEPT ![old] = [s EXCEPT !.name = "main", !.nets = s.nets \/ wk[w].nets]]
    BY DEF RestoreOld
  <1>6. s \in Containers /\ s.up /\ s.ver = cont[old].ver
    BY <1>5, StartedIs DEF IInv
  <1> DEFINE x == [s EXCEPT !.name = "main", !.nets = s.nets \/ wk[w].nets]
  <1>7. cont' = [cont EXCEPT ![old] = x]
    OBVIOUS
  <1>8. UNCHANGED <<tag, remote, cfg, result, lock, rs, hurt, doubt>> /\ events' \in 0..MaxEvents
    <2>1. TypeOK /\ events \in 0..MaxEvents
      BY DEF IInv, TypeOK
    <2> QED  BY <2>1, BootCounts DEF RestoreOld
  <1>9. /\ x \in Containers /\ x.name = "main" /\ x.up /\ x.ver = cont[old].ver
        /\ wk[w].nets => x.nets
    BY <1>3, <1>6 DEF Containers, Names
  <1> HIDE DEF x
  <1>10. cont' \in [Ids -> Containers] /\ \A i \in Ids : cont'[i] = IF i = old THEN x ELSE cont[i]
    BY <1>0, <1>4, <1>7, <1>9, ContainerSet, FitsHolder
  <1>11. \A i \in Ids : cont'[i].ver = cont[i].ver
    BY <1>9, <1>10
  <1>12. (Named("main"))' = {old}
    BY <1>4, <1>9, <1>10 DEF Named
  <1>13. OneMain' /\ (doubt \/ \A i \in Ids : cont'[i].ver <= remote)
    BY <1>0, <1>11, <1>12, ContainersAre DEF OneMain
  <1>15. WorkerFits(w)'
    <2>1. Ahead(w)'
      BY <1>0, <1>1, <1>2, <1>3, <1>8, <1>11, Steps DEF Moves, WorkerFits, Ahead
    <2>2. Swapping(w)' /\ Committed(w)'
      BY <1>0, <1>1, <1>2, <1>3, <1>8, Steps DEF Moves, WorkerFits, Swapping, Committed, Created
    <2>3. ~hurt => Intact(w)'
      BY <1>0, <1>1, <1>2, <1>3, <1>8, Steps DEF Moves, WorkerFits, Intact, Created
    <2> QED  BY <1>8, <2>1, <2>2, <2>3 DEF WorkerFits
  <1>16. ServesUnlessHurt'
    <2>1. ~hurt => wk[w].nets
      BY <1>0, <1>3, Steps DEF WorkerFits, Intact
    <2>2. old \in (Named("main"))' /\ cont'[old].up /\ (wk[w].nets => cont'[old].nets)
      BY <1>4, <1>9, <1>10, <1>12
    <2> QED  BY <1>8, <2>1, <2>2 DEF ServesUnlessHurt
  <1> QED  BY <1>0, <1>2, <1>8, <1>10, <1>13, <1>15, <1>16, HolderSwaps

----------------------------------------------------------------------------
(* The restart request, the settings, the releases, and a crash.            *)

\* A step that leaves the update's part of the state alone, and publishes nothing older
\* without a trace.
LEMMA AsideGoes ==
    ASSUME IInv, UNCHANGED <<cont, tag, lock, wk, hurt>>, TypeOK', Restarting',
           doubt => doubt', doubt' \/ remote <= remote'
    PROVE  IInv'
  <1>1. LockHeld' /\ OneMain' /\ ServesUnlessHurt'
    BY DEF IInv, LockHeld, OneMain, ServesUnlessHurt, Named
  <1>2. tag.main \in Nat /\ remote \in Nat /\ remote' \in Nat /\ \A i \in Ids : cont[i].ver \in Nat
    BY ThreadsAre DEF IInv, TypeOK, Containers
  <1>3. Released'
    BY <1>2 DEF IInv, Released
  <1>4. ASSUME NEW w \in Workers
        PROVE  WorkerFits(w)'
    <2>1. wk[w].ver \in Nat /\ WorkerFits(w)
      BY ThreadsAre DEF IInv, Threads
    <2>2. Ahead(w)'
      BY <1>2, <2>1 DEF WorkerFits, Ahead
    <2>3. Swapping(w)' /\ Committed(w)'
      BY <2>1 DEF WorkerFits, Swapping, Committed, Named
    <2>4. ~hurt => Intact(w)'
      BY <2>1 DEF WorkerFits, Intact, Named
    <2> QED  BY <2>2, <2>3, <2>4 DEF WorkerFits
  <1> QED  BY <1>1, <1>3, <1>4 DEF IInv

Restarts == [pc : {"idle", "restart", "wait", "verify", "ok"}, c : Ids \cup {NoId}, want : 0..MaxCfg]

LEMMA RestartAside ==
    ASSUME IInv, UNCHANGED <<cont, tag, remote, cfg, result, lock, wk, hurt, doubt, events>>,
           rs' \in Restarts, Restarting'
    PROVE  IInv'
  <1>1. TypeOK'
    BY DEF IInv, TypeOK, Restarts
  <1>2. remote <= remote'
    BY DEF IInv, TypeOK
  <1> QED  BY <1>1, <1>2, AsideGoes DEF Restarting

LEMMA RestartRequestStep ==
    ASSUME IInv, RestartRequest
    PROVE  IInv'
  <1>1. PICK c \in Named("main") : rs' = [pc |-> "restart", c |-> c, want |-> cfg]
    BY DEF RestartRequest
  <1>2. c \in Ids /\ cfg \in 0..MaxCfg
    BY <1>1 DEF Named, IInv, TypeOK
  <1>3. rs' \in Restarts /\ rs'.pc = "restart" /\ rs'.c \in Ids /\ rs'.want = cfg
    BY <1>1, <1>2 DEF Restarts
  <1> QED  BY <1>3, RestartAside DEF RestartRequest, Restarting

LEMMA RestartContainerStep ==
    ASSUME IInv, Parameters, RestartContainer
    PROVE  IInv'
  <1> DEFINE c == rs.c
  <1>0. UNCHANGED <<tag, remote, cfg, result, lock, wk, hurt, doubt>>
    BY DEF RestartContainer
  <1>1. TypeOK /\ cfg \in 0..MaxCfg /\ c \in Ids
    BY DEF IInv, TypeOK, RestartContainer, Restarting
  <1>2. cont[c] \in Containers
    BY <1>1, ThreadsAre
  <1>. PICK x \in Started(cont[c]) : Boots(x) /\ cont' = [cont EXCEPT ![c] = x]
    BY DEF RestartContainer
  <1>3. /\ x \in Containers /\ x.name = cont[c].name /\ x.up /\ x.ver = cont[c].ver
        /\ x.nets = cont[c].nets /\ events' \in 0..MaxEvents
    BY <1>1, <1>2, StartedIs, BootCounts
  <1>4. cont' = [cont EXCEPT ![c] = x]
    OBVIOUS
  <1>5. cont' \in [Ids -> Containers] /\ \A i \in Ids : cont'[i] = IF i = c THEN x ELSE cont[i]
    BY <1>1, <1>3, <1>4, ContainerSet
  <1>6. \A i \in Ids : cont'[i].name = cont[i].name /\ cont'[i].ver = cont[i].ver
                       /\ cont'[i].nets = cont[i].nets /\ (cont[i].up => cont'[i].up)
    BY <1>3, <1>5
  <1>7. (Named("main"))' = Named("main") /\ (Named("rollback"))' = Named("rollback")
    BY <1>6 DEF Named
  <1>8. rs' \in Restarts /\ rs'.pc = "wait" /\ rs'.c = c /\ rs'.want = rs.want
    BY <1>1 DEF RestartContainer, TypeOK, Restarts
  <1>9. TypeOK'
    BY <1>0, <1>1, <1>3, <1>5, <1>8 DEF TypeOK, Restarts, Containers
  <1>11. LockHeld' /\ OneMain' /\ Released'
    BY <1>0, <1>6, <1>7 DEF IInv, LockHeld, OneMain, Released
  <1>12. ServesUnlessHurt'
    <2>1. \A i \in Named("main") : i \in Ids
      BY DEF Named
    <2> QED  BY <1>0, <1>6, <1>7, <2>1 DEF IInv, ServesUnlessHurt
  <1>13. ASSUME NEW w \in Workers
         PROVE  WorkerFits(w)'
    <2>1. WorkerFits(w)
      BY DEF IInv
    <2>2. \A n \in Named("main") : n \in Ids
      BY DEF Named
    <2>3. Ahead(w)'
      BY <1>0, <1>6, <2>1 DEF WorkerFits, Ahead
    <2>4. Swapping(w)'
      BY <1>0, <1>6, <1>7, <2>1, <2>2 DEF WorkerFits, Swapping
    <2>5. Committed(w)'
      BY <1>0, <1>6, <1>7, <2>1, <2>2 DEF WorkerFits, Committed
    <2>6. wk[w].pc \in Created => wk[w].new \in Ids
      BY <2>1, <2>2 DEF WorkerFits, Swapping
    <2>7. ~hurt => Intact(w)'
      BY <1>0, <1>6, <1>7, <2>1, <2>2, <2>6 DEF WorkerFits, Intact
    <2> QED  BY <1>0, <2>3, <2>4, <2>5, <2>7 DEF WorkerFits
  <1>14. Restarting'
    BY <1>1, <1>8 DEF Restarting
  <1> QED  BY <1>9, <1>11, <1>12, <1>13, <1>14 DEF IInv

LEMMA WaitForServerStep ==
    ASSUME IInv, WaitForServer
    PROVE  IInv'
  <1>1. rs' \in Restarts /\ rs'.pc = "verify" /\ rs'.c = rs.c /\ rs'.want = rs.want
    BY DEF WaitForServer, IInv, TypeOK, Restarts
  <1> QED  BY <1>1, RestartAside DEF WaitForServer, IInv, Restarting

LEMMA VerifyServerConfigStep ==
    ASSUME IInv, VerifyServerConfig
    PROVE  IInv'
  <1>1. rs' \in Restarts /\ rs'.pc = "ok" /\ rs'.c = rs.c /\ rs'.want = rs.want
    BY DEF VerifyServerConfig, IInv, TypeOK, Restarts
  <1> QED  BY <1>1, RestartAside DEF VerifyServerConfig, IInv, Restarting

LEMMA NoRestartFits ==
    ASSUME Parameters
    PROVE  NoRestart \in Restarts /\ NoRestart.pc = "idle"
  BY DEF Parameters, NoRestart, Restarts

LEMMA RestartReturnsStep ==
    ASSUME IInv, Parameters, RestartReturns
    PROVE  IInv'
  <1> QED  BY NoRestartFits, RestartAside DEF RestartReturns, Restarting

LEMMA WriteConfigStep ==
    ASSUME IInv, Parameters, WriteConfig
    PROVE  IInv'
  <1>1. TypeOK' /\ cfg \in Nat /\ rs.want \in Nat
    BY DEF WriteConfig, IInv, TypeOK, Parameters
  <1>2. remote <= remote' /\ Restarting' /\ UNCHANGED doubt
    BY <1>1 DEF WriteConfig, IInv, TypeOK, Restarting
  <1> QED  BY <1>1, <1>2, AsideGoes DEF WriteConfig

LEMMA PublishStep ==
    ASSUME IInv, Parameters, Publish
    PROVE  IInv'
  <1>1. TypeOK'
    BY DEF Publish, Event, IInv, TypeOK, Parameters
  <1>2. Restarting' /\ (doubt => doubt') /\ (doubt' \/ remote <= remote')
    <2>1. remote \in 1..MaxVersion /\ remote' \in 1..MaxVersion
      BY DEF Publish, IInv, TypeOK
    <2>2. doubt' \/ remote <= remote'
      <3>1. remote' < remote => doubt'
        BY DEF Publish
      <3>2. remote' < remote \/ remote <= remote'
        BY <2>1 DEF Parameters
      <3> QED  BY <3>1, <3>2
    <2> QED  BY <2>2 DEF Publish, IInv, Restarting
  <1> QED  BY <1>1, <1>2, AsideGoes DEF Publish

LEMMA CrashAdminStep ==
    ASSUME IInv, Parameters, CrashAdmin
    PROVE  IInv'
  <1>1. IdleWorker \in Threads /\ IdleWorker.pc = "idle" /\ IdleWorker.out = "none"
    BY DEF IdleWorker, Threads, Outcomes, Parameters
  <1>2. \A u \in Workers : wk'[u] = IdleWorker
    BY DEF CrashAdmin
  <1>3. wk' \in [Workers -> Threads] /\ rs' \in Restarts /\ rs'.pc = "idle"
    BY <1>1, NoRestartFits DEF CrashAdmin
  <1>4. TypeOK'
    BY <1>3 DEF CrashAdmin, Event, IInv, TypeOK, Parameters, Threads, Restarts
  <1>5. \A u \in Workers : wk'[u].pc \notin Held /\ wk'[u].out # "committed"
    BY <1>1, <1>2, Steps
  <1>6. LockHeld' /\ OneMain' /\ Released' /\ Restarting'
    BY <1>3, <1>5 DEF CrashAdmin, IInv, LockHeld, OneMain, Released, Restarting, Named
  <1>7. ASSUME NEW u \in Workers
        PROVE  WorkerFits(u)'
    BY <1>5, Steps DEF WorkerFits, Ahead, Swapping, Committed, Intact, Created
  <1>8. ServesUnlessHurt'
    BY DEF CrashAdmin, IInv, ServesUnlessHurt, Named
  <1> QED  BY <1>4, <1>6, <1>7, <1>8 DEF IInv

----------------------------------------------------------------------------
(* The invariant, and what follows from it.                                 *)

LEMMA InitHolds ==
    ASSUME Parameters, Init
    PROVE  IInv
  <1> DEFINE first == CHOOSE i \in Ids : TRUE
             x == [name |-> "main", up |-> TRUE, nets |-> TRUE, ver |-> 1, env |-> 0]
  <1>1. first \in Ids
    BY DEF Parameters
  <1>2. x \in Containers /\ x.name = "main" /\ x.up /\ x.nets /\ x.ver = 1
    BY DEF Parameters, Containers, Names
  <1>3. cont = [Unused EXCEPT ![first] = x]
    BY DEF Init
  <1> HIDE DEF x, first
  <1>4. cont \in [Ids -> Containers] /\ \A i \in Ids : cont[i] = IF i = first THEN x ELSE Gone
    BY <1>1, <1>2, <1>3, GoneFits DEF Unused
  <1>5. IdleWorker \in Threads /\ IdleWorker.pc = "idle" /\ IdleWorker.out = "none"
    BY DEF IdleWorker, Threads, Outcomes, Parameters
  <1>6. wk \in [Workers -> Threads] /\ \A u \in Workers : wk[u].pc = "idle" /\ wk[u].out = "none"
    BY <1>5 DEF Init
  <1>7. rs \in Restarts /\ rs.pc = "idle"
    BY NoRestartFits DEF Init
  <1>8. /\ tag \in [main : 1..MaxVersion, rollback : 0..MaxVersion] /\ tag.main = 1
        /\ remote \in 1..MaxVersion /\ cfg \in 0..MaxCfg /\ events \in 0..MaxEvents
    BY DEF Init, Parameters
  <1>9. result \in Outcomes /\ hurt \in BOOLEAN /\ doubt \in BOOLEAN /\ lock \in Workers \cup {Nobody}
    BY DEF Init, Outcomes
  <1>10. TypeOK
    BY <1>4, <1>6, <1>7, <1>8, <1>9 DEF TypeOK, Containers, Threads, Restarts
  <1>11. Named("main") = {first}
    BY <1>1, <1>2, <1>4, GoneFits DEF Named
  <1>12. LockHeld /\ OneMain /\ Released /\ Restarting
    BY <1>2, <1>4, <1>6, <1>7, <1>8, <1>11, GoneFits, Steps DEF LockHeld, OneMain, Released, Restarting
  <1>13. \A u \in Workers : WorkerFits(u)
    BY <1>6, Steps DEF WorkerFits, Ahead, Swapping, Committed, Intact, Created
  <1>14. ServesUnlessHurt
    BY <1>1, <1>2, <1>4, <1>11 DEF ServesUnlessHurt
  <1> QED  BY <1>10, <1>12, <1>13, <1>14 DEF IInv

LEMMA StepKeeps ==
    ASSUME Parameters, IInv, [Next]_vars
    PROVE  IInv'
  <1>1. ASSUME NEW w \in Workers, GuardedUpdate(w) \/ FailUnguarded(w) \/ FailGuarded(w)
        PROVE  IInv'
    BY <1>1, GuardedUpdateStep, FailUnguardedStep, FailGuardedStep
  <1>2. ASSUME NEW w \in Workers,
               GuardedServerUpdateWorker(w) \/ Acquire(w) \/ Begin(w) \/ PullReleaseImage(w)
               \/ Release(w) \/ WriteResult(w)
        PROVE  IInv'
    BY <1>2, GuardedServerUpdateWorkerStep, AcquireStep, BeginStep, PullStep, ReleaseStep, WriteResultStep
  <1>3. ASSUME NEW w \in Workers, Swap(w)
        PROVE  IInv'
    BY <1>3, PrepareStep, StopOldStep, RenameOldStep, DisconnectNetworksStep, CreateReplacementStep,
       StartReplacementStep, ValidateStep, RemoveOldStep, CommitStep DEF Swap
  <1>4. ASSUME NEW w \in Workers, Restore(w)
        PROVE  IInv'
    BY <1>4, RestoreRemoveStep, RestoreOldStep, RestoreHealthyStep, RestoreFailsStep DEF Restore
  <1>5. CASE RestartRequest \/ RestartContainer \/ WaitForServer \/ VerifyServerConfig \/ RestartReturns
    BY <1>5, RestartRequestStep, RestartContainerStep, WaitForServerStep, VerifyServerConfigStep,
       RestartReturnsStep
  <1>6. CASE WriteConfig \/ Publish \/ CrashAdmin
    BY <1>6, WriteConfigStep, PublishStep, CrashAdminStep
  <1>7. CASE UNCHANGED vars
    <2>1. UNCHANGED <<cont, tag, lock, wk, hurt, doubt>> /\ remote <= remote' /\ TypeOK' /\ Restarting'
      BY <1>7 DEF vars, IInv, TypeOK, Restarting
    <2> QED  BY <2>1, AsideGoes
  <1> QED  BY <1>1, <1>2, <1>3, <1>4, <1>5, <1>6, <1>7 DEF Next, WorkerStep

\* The threads, the containers and the restart request keep their types in every step.
THEOREM TypeCorrect ==
    ASSUME Parameters
    PROVE  Spec => []TypeOK
  <1>1. Init => IInv  BY InitHolds
  <1>2. IInv /\ [Next]_vars => IInv'  BY StepKeeps
  <1>3. IInv => TypeOK  BY DEF IInv
  <1> QED  BY <1>1, <1>2, <1>3, PTL DEF Spec

\* The server answers whenever no update is between stopping it and starting the next
\* one, whatever failed before, unless a failure hit in exactly that window.
THEOREM ServerStays ==
    ASSUME Parameters
    PROVE  Spec => []ServesUnlessHurt
  <1>1. Init => IInv  BY InitHolds
  <1>2. IInv /\ [Next]_vars => IInv'  BY StepKeeps
  <1>3. IInv => ServesUnlessHurt  BY DEF IInv
  <1> QED  BY <1>1, <1>2, <1>3, PTL DEF Spec

LEMMA Forward ==
    ASSUME IInv
    PROVE  UpdatesGoForward
  <1> SUFFICES ASSUME NEW w \in Workers
               PROVE  /\ wk[w].pc \in ({"stop"} \cup Guarded) \ {"commit"} =>
                           doubt \/ cont[wk[w].old].ver <= wk[w].ver
                      /\ wk[w].out = "committed" /\ wk[w].pc = "unlock" =>
                           /\ \E c \in Named("main") : cont[c].up /\ cont[c].ver = wk[w].ver
                           /\ tag.main = wk[w].ver
                           /\ doubt \/ hurt \/ tag.rollback < wk[w].ver
    BY DEF UpdatesGoForward
  <1>1. WorkerFits(w)
    BY DEF IInv
  <1>2. wk[w].pc \in ({"stop"} \cup Guarded) \ {"commit"} => doubt \/ cont[wk[w].old].ver <= wk[w].ver
    BY <1>1, Steps DEF WorkerFits, Ahead, Swapping, Guarded
  <1> QED  BY <1>1, <1>2 DEF WorkerFits, Committed, Intact

\* As long as the branch goes forward and the server tells its FORK_VERSION, no request,
\* however long it waited for the lock, installs an older release; one that is reported
\* as committed runs what it was asked for, wherever the branch went.
THEOREM LockDecides ==
    ASSUME Parameters
    PROVE  Spec => []UpdatesGoForward
  <1>1. Init => IInv  BY InitHolds
  <1>2. IInv /\ [Next]_vars => IInv'  BY StepKeeps
  <1>3. IInv => UpdatesGoForward  BY Forward
  <1> QED  BY <1>1, <1>2, <1>3, PTL DEF Spec
=============================================================================
