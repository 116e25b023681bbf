-------------------------- MODULE TranscodeRegistry --------------------------
(****************************************************************************)
(* The shared HLS encoder registry, Converter in                            *)
(* stremiosrv/transcode/converter.py.                                       *)
(*                                                                          *)
(* A client job (a playback session) is an alias of a workload key; one     *)
(* ffmpeg process per key writes the directory named by the key.  All the   *)
(* maps are guarded by one lock, so each lock section is one action; what   *)
(* the code does after it unlocks (a second lock section, ending the        *)
(* process, deleting the directory) is a later action of the same thread.   *)
(* Request threads run the hlsv2 handlers; one GC thread alternates         *)
(* reap_idle and sweep.                                                     *)
(****************************************************************************)
EXTENDS Naturals, FiniteSets

CONSTANTS
    Jobs,       \* client job ids (aliases)
    Keys,       \* workload keys
    Procs,      \* ffmpeg Popen objects; one no thread or map refers to is fresh again
    Clients,    \* request threads
    GC,         \* the transcode-gc thread
    NoKey, NoProc,
    StopAllUsed \* stop_all is a method no code of the server calls, only its tests

ASSUME ConstantsDistinct ==
    /\ GC \notin Clients
    /\ NoKey \notin Keys
    /\ NoProc \notin Procs
    /\ StopAllUsed \in BOOLEAN

Threads == Clients \cup {GC}

VARIABLES
    jobs,       \* _jobs: key -> process (NoProc when absent)
    alias,      \* _job_workload: job -> key (NoKey when absent)
    owners,     \* _workload_jobs: key -> jobs; the code never keeps an empty set
    seen,       \* _seen against idle_after: "none", "fresh" or "idle"
    running,    \* the processes alive, whoever refers to them
    writes,     \* process -> the key whose directory it writes
    dir,        \* directory of a key: "absent", "fresh", or "old" (>= max_age)
    pc,         \* where each thread is
    target,     \* the key a thread still has to stop, or the sweep to delete
    held,       \* [key, proc] pairs a thread detached and has still to end and delete
    names,      \* sweep: the listdir result still to be visited
    live        \* sweep: the keys found live under the lock

registry == <<jobs, alias, owners, seen>>
system   == <<running, writes, dir>>
threads  == <<pc, target, held, names, live>>
vars     == <<registry, system, threads>>

Pair == [key : Keys, proc : Procs \cup {NoProc}]

TypeOK ==
    /\ jobs \in [Keys -> Procs \cup {NoProc}]
    /\ alias \in [Jobs -> Keys \cup {NoKey}]
    /\ owners \in [Keys -> SUBSET Jobs]
    /\ seen \in [Keys -> {"none", "fresh", "idle"}]
    /\ running \in SUBSET Procs
    /\ writes \in [Procs -> Keys \cup {NoKey}]
    /\ dir \in [Keys -> {"absent", "fresh", "old"}]
    /\ pc \in [Threads -> {"idle", "orphan", "stopping", "cleanup", "list", "snap", "sweep", "rmtree"}]
    /\ target \in [Threads -> Keys \cup {NoKey}]
    /\ \A t \in Threads : pc[t] \in {"orphan", "stopping", "rmtree"} => target[t] \in Keys
    /\ held \in [Threads -> SUBSET Pair]
    /\ names \in SUBSET Keys
    /\ live \in SUBSET Keys

\* poll() of the registered process
Live(k) == jobs[k] \in running

HeldProcs == {h.proc : h \in UNION {held[t] : t \in Threads}}

\* An object no map and no thread refers to stands for the next Popen.
FreshProcs == {p \in Procs : /\ p \notin running
                             /\ \A k \in Keys : jobs[k] # p
                             /\ p \notin HeldProcs}

Init ==
    /\ jobs = [k \in Keys |-> NoProc]
    /\ alias = [j \in Jobs |-> NoKey]
    /\ owners = [k \in Keys |-> {}]
    /\ seen = [k \in Keys |-> "none"]
    /\ running = {}
    /\ writes = [p \in Procs |-> NoKey]
    /\ dir = [k \in Keys |-> "absent"]       \* sweep(max_age=0) ran at startup
    /\ pc = [t \in Threads |-> "idle"]
    /\ target = [t \in Threads |-> NoKey]
    /\ held = [t \in Threads |-> {}]
    /\ names = {}
    /\ live = {}

----------------------------------------------------------------------------
(* ensure_job(job, ...) of a request whose effective output is key k.      *)

Rebinds(j, k) == alias[j] \notin {k, NoKey}

\* mutant: rebinding forgets to leave the previous workload
OwnersKept(j, k) == owners

\* the ownership map once j has left the workload it was bound to before
OwnersLeft(j, k) ==
    IF Rebinds(j, k) THEN [owners EXCEPT ![alias[j]] = @ \ {j}] ELSE owners

\* the previous workload, when j was its last owner
Orphaned(j, k) ==
    IF Rebinds(j, k) /\ owners[alias[j]] = {j} THEN alias[j] ELSE NoKey

\* leave the lock section: stop the orphaned workload next, or return
Unlock(t, orphan) ==
    /\ pc' = [pc EXCEPT ![t] = IF orphan = NoKey THEN "idle" ELSE "orphan"]
    /\ target' = [target EXCEPT ![t] = orphan]
    /\ UNCHANGED <<held, names, live>>

\* same alias, same live workload: an ordinary master.m3u8 refresh
Refresh(t, j, k) ==
    /\ pc[t] = "idle"
    /\ alias[j] = k
    /\ Live(k)
    /\ seen' = [seen EXCEPT ![k] = "fresh"]
    /\ UNCHANGED <<jobs, alias, owners, system, threads>>

\* another client already owns the same encoder output
Attach(t, j, k) ==
    /\ pc[t] = "idle"
    /\ alias[j] # k
    /\ Live(k)
    /\ alias' = [alias EXCEPT ![j] = k]
    /\ owners' = [OwnersLeft(j, k) EXCEPT ![k] = @ \cup {j}]
    /\ seen' = [seen EXCEPT ![k] = "fresh"]
    /\ Unlock(t, Orphaned(j, k))
    /\ UNCHANGED <<jobs, system>>

\* mutant: a second encoder is started over a live one
SpawnAlways(t, j, k) ==
    /\ pc[t] = "idle"
    /\ \E p \in FreshProcs :
          /\ jobs' = [jobs EXCEPT ![k] = p]
          /\ running' = running \cup {p}
          /\ writes' = [writes EXCEPT ![p] = k]
    /\ alias' = [alias EXCEPT ![j] = k]
    /\ owners' = [OwnersLeft(j, k) EXCEPT ![k] = {j}]
    /\ seen' = [seen EXCEPT ![k] = "fresh"]
    /\ dir' = [dir EXCEPT ![k] = "fresh"]
    /\ Unlock(t, Orphaned(j, k))

\* no live encoder: rebuild the directory, start ffmpeg, and become the owner
Spawn(t, j, k) ==
    /\ pc[t] = "idle"
    /\ ~Live(k)
    /\ \E p \in FreshProcs :
          /\ jobs' = [jobs EXCEPT ![k] = p]
          /\ running' = running \cup {p}
          /\ writes' = [writes EXCEPT ![p] = k]
    /\ alias' = [alias EXCEPT ![j] = k]
    /\ owners' = [OwnersLeft(j, k) EXCEPT ![k] = {j}]
    /\ seen' = [seen EXCEPT ![k] = "fresh"]
    /\ dir' = [dir EXCEPT ![k] = "fresh"]
    /\ Unlock(t, Orphaned(j, k))

\* mkdir, open or Popen raises: what was popped stays popped, the exception
\* leaves ensure_job and the orphan of a rebinding is not stopped
SpawnFails(t, j, k) ==
    /\ pc[t] = "idle"
    /\ ~Live(k)
    /\ jobs' = [jobs EXCEPT ![k] = NoProc]
    /\ seen' = [seen EXCEPT ![k] = IF jobs[k] = NoProc /\ alias[j] # k THEN @ ELSE "none"]
    /\ alias' = [alias EXCEPT ![j] = IF Rebinds(j, k) THEN NoKey ELSE @]
    /\ owners' = OwnersLeft(j, k)
    /\ \E d \in {"absent", "fresh"} : dir' = [dir EXCEPT ![k] = d]
    /\ UNCHANGED <<running, writes, threads>>

EnsureJob(t, j, k) ==
    \/ Refresh(t, j, k)
    \/ Attach(t, j, k)
    \/ Spawn(t, j, k)
    \/ SpawnFails(t, j, k)

\* touch(job): a playlist or segment of the job was requested
Touch(j) ==
    /\ alias[j] # NoKey
    /\ jobs[alias[j]] # NoProc
    /\ seen' = [seen EXCEPT ![alias[j]] = "fresh"]
    /\ UNCHANGED <<jobs, alias, owners, system, threads>>

----------------------------------------------------------------------------
(* Stopping.  Detach pops every map entry of the keys K under the lock;    *)
(* the pairs it leaves in held are ended and deleted after the unlock.     *)

\* Forgotten(K) is the aliases that are popped together with the keys K.
Detach(t, K, Forgotten) ==
    /\ jobs' = [k \in Keys |-> IF k \in K THEN NoProc ELSE jobs[k]]
    /\ seen' = [k \in Keys |-> IF k \in K THEN "none" ELSE seen[k]]
    /\ owners' = [k \in Keys |-> IF k \in K THEN {} ELSE owners[k]]
    /\ alias' = [j \in Jobs |-> IF j \in Forgotten THEN NoKey ELSE alias[j]]
    /\ held' = [held EXCEPT ![t] = {[key |-> k, proc |-> jobs[k]] : k \in K}]
    /\ pc' = [pc EXCEPT ![t] = "cleanup"]
    /\ target' = [target EXCEPT ![t] = NoKey]

BoundTo(K) == {j \in Jobs : alias[j] \in K}
OwnersOf(K) == {j \in Jobs : alias[j] \in K /\ j \in owners[alias[j]]}

\* mutant: the ownership of an orphan is not checked again
StopIfOrphanedBlind(t) ==
    /\ pc[t] = "orphan"
    /\ Detach(t, {target[t]}, BoundTo({target[t]}))
    /\ UNCHANGED <<system, names, live>>

\* _stop_workload_if_orphaned: somebody attached since the unlock, or detach
StopIfOrphaned(t) ==
    /\ pc[t] = "orphan"
    /\ \/ /\ owners[target[t]] # {}
          /\ pc' = [pc EXCEPT ![t] = "idle"]
          /\ target' = [target EXCEPT ![t] = NoKey]
          /\ UNCHANGED <<registry, held>>
       \/ /\ owners[target[t]] = {}
          /\ Detach(t, {target[t]}, BoundTo({target[t]}))
    /\ UNCHANGED <<system, names, live>>

\* stop(job), first lock section: release the alias; the last owner goes on
Stop(t, j) ==
    /\ pc[t] = "idle"
    /\ alias[j] # NoKey
    /\ LET k    == alias[j]
           last == owners[k] = {j}
       IN  /\ owners' = [owners EXCEPT ![k] = @ \ {j}]
           /\ pc' = [pc EXCEPT ![t] = IF last THEN "stopping" ELSE "idle"]
           /\ target' = [target EXCEPT ![t] = IF last THEN k ELSE NoKey]
    /\ alias' = [alias EXCEPT ![j] = NoKey]
    /\ UNCHANGED <<jobs, seen, system, held, names, live>>

\* stop(job), second part: _stop_workload, which does not look at the owners
StopWorkload(t) ==
    /\ pc[t] = "stopping"
    /\ Detach(t, {target[t]}, OwnersOf({target[t]}))
    /\ UNCHANGED <<system, names, live>>

\* stop_all(): every registered workload at once
StopAll(t) ==
    /\ StopAllUsed
    /\ pc[t] = "idle"
    /\ jobs' = [k \in Keys |-> NoProc]
    /\ alias' = [j \in Jobs |-> NoKey]
    /\ owners' = [k \in Keys |-> {}]
    /\ seen' = [k \in Keys |-> "none"]
    /\ held' = [held EXCEPT ![t] = {[key |-> k, proc |-> jobs[k]] : k \in {x \in Keys : jobs[x] # NoProc}}]
    /\ pc' = [pc EXCEPT ![t] = "cleanup"]
    /\ UNCHANGED <<system, target, names, live>>

\* _end(proc): terminate, wait, kill -- the process is gone afterwards
EndProc(t) ==
    /\ pc[t] = "cleanup"
    /\ \E h \in held[t] :
          /\ h.proc \in running
          /\ running' = running \ {h.proc}
    /\ UNCHANGED <<registry, writes, dir, threads>>

\* _remove_workload_dir(key), once the process has ended
RemoveDir(t) ==
    /\ pc[t] = "cleanup"
    /\ \E h \in held[t] :
          /\ h.proc \notin running
          /\ dir' = [dir EXCEPT ![h.key] = "absent"]
          /\ held' = [held EXCEPT ![t] = @ \ {h}]
    /\ UNCHANGED <<registry, running, writes, pc, target, names, live>>

\* every pair is cleaned up: a request returns, the GC goes on with sweep
CleanedUp(t) ==
    /\ pc[t] = "cleanup"
    /\ held[t] = {}
    /\ pc' = [pc EXCEPT ![t] = IF t = GC THEN "list" ELSE "idle"]
    /\ UNCHANGED <<registry, system, target, held, names, live>>

----------------------------------------------------------------------------
(* run_transcode_gc: reap_idle, then sweep(max_age), forever.              *)

Idle(k) == seen[k] # "fresh"        \* a key without _seen counts as seen at 0.0

\* mutant: only workloads that still have owners are considered
ReapOwned ==
    /\ pc[GC] = "idle"
    /\ LET K == {k \in Keys : Live(k) /\ Idle(k) /\ owners[k] # {}}
       IN  Detach(GC, K, OwnersOf(K))
    /\ UNCHANGED <<system, names, live>>

\* mutant: the idle encoder is ended but stays in the registry
ReapKeepsEntry ==
    /\ pc[GC] = "idle"
    /\ LET K == {k \in Keys : Live(k) /\ Idle(k)}
       IN  held' = [held EXCEPT ![GC] = {[key |-> k, proc |-> jobs[k]] : k \in K}]
    /\ pc' = [pc EXCEPT ![GC] = "cleanup"]
    /\ UNCHANGED <<registry, system, target, names, live>>

\* reap_idle: the live, idle workloads are selected and detached in one section
ReapIdle ==
    /\ pc[GC] = "idle"
    /\ LET K == {k \in Keys : Live(k) /\ Idle(k)}
       IN  Detach(GC, K, OwnersOf(K))
    /\ UNCHANGED <<system, names, live>>

\* sweep: listdir, before the lock
SweepList ==
    /\ pc[GC] = "list"
    /\ names' = {k \in Keys : dir[k] # "absent"}
    /\ pc' = [pc EXCEPT ![GC] = "snap"]
    /\ UNCHANGED <<registry, system, target, held, live>>

\* mutant: an exited encoder still counts as live
SweepSnapshotRegistered ==
    /\ pc[GC] = "snap"
    /\ live' = {k \in Keys : jobs[k] # NoProc}
    /\ pc' = [pc EXCEPT ![GC] = "sweep"]
    /\ UNCHANGED <<registry, system, target, held, names>>

\* sweep: the live keys, under the lock
SweepSnapshot ==
    /\ pc[GC] = "snap"
    /\ live' = {k \in Keys : Live(k)}
    /\ pc' = [pc EXCEPT ![GC] = "sweep"]
    /\ UNCHANGED <<registry, system, target, held, names>>

\* the sweep goes on to delete the directory of k
Condemn(k) ==
    /\ pc' = [pc EXCEPT ![GC] = "rmtree"]
    /\ target' = [target EXCEPT ![GC] = k]

\* mutant: the age of a directory is not looked at
SweepLookAnyAge ==
    /\ pc[GC] = "sweep"
    /\ \E k \in names :
          /\ names' = names \ {k}
          /\ IF k \notin live THEN Condemn(k) ELSE UNCHANGED <<pc, target>>
    /\ UNCHANGED <<registry, system, held, live>>

\* sweep: one listed name; a live key or a directory younger than max_age stays
SweepLook ==
    /\ pc[GC] = "sweep"
    /\ \E k \in names :
          /\ names' = names \ {k}
          /\ IF k \notin live /\ dir[k] = "old" THEN Condemn(k) ELSE UNCHANGED <<pc, target>>
    /\ UNCHANGED <<registry, system, held, live>>

\* sweep: the directory whose age was looked at is deleted, without the lock
SweepDelete ==
    /\ pc[GC] = "rmtree"
    /\ dir' = [dir EXCEPT ![target[GC]] = "absent"]
    /\ pc' = [pc EXCEPT ![GC] = "sweep"]
    /\ target' = [target EXCEPT ![GC] = NoKey]
    /\ UNCHANGED <<registry, running, writes, held, names, live>>

SweepDone ==
    /\ pc[GC] = "sweep"
    /\ names = {}
    /\ pc' = [pc EXCEPT ![GC] = "idle"]
    /\ live' = {}
    /\ UNCHANGED <<registry, system, target, held, names>>

----------------------------------------------------------------------------
(* The environment: ffmpeg ends by itself, and time passes.                *)

ProcExits(p) ==
    /\ p \in running
    /\ running' = running \ {p}
    /\ UNCHANGED <<registry, writes, dir, threads>>

\* idle_after seconds without a request for the workload
SeenAges(k) ==
    /\ seen[k] = "fresh"
    /\ seen' = [seen EXCEPT ![k] = "idle"]
    /\ UNCHANGED <<jobs, alias, owners, system, threads>>

\* max_age (600 s) without a change of the directory.  One sweep pass is
\* assumed to be shorter than that, so no directory gets old during a pass.
DirAges(k) ==
    /\ dir[k] = "fresh"
    /\ pc[GC] \notin {"snap", "sweep", "rmtree"}
    /\ dir' = [dir EXCEPT ![k] = "old"]
    /\ UNCHANGED <<registry, running, writes, threads>>

----------------------------------------------------------------------------
ThreadStep(t) ==
    \/ StopIfOrphaned(t) \/ StopWorkload(t)
    \/ EndProc(t) \/ RemoveDir(t) \/ CleanedUp(t)

GCStep == ReapIdle \/ SweepList \/ SweepSnapshot \/ SweepLook \/ SweepDelete \/ SweepDone

Request(t) ==
    \/ \E j \in Jobs, k \in Keys : EnsureJob(t, j, k)
    \/ \E j \in Jobs : Stop(t, j)
    \/ StopAll(t)

Next ==
    \/ \E t \in Clients : Request(t)
    \/ \E j \in Jobs : Touch(j)
    \/ \E t \in Threads : ThreadStep(t)
    \/ GCStep
    \/ \E p \in Procs : ProcExits(p)
    \/ \E k \in Keys : SeenAges(k) \/ DirAges(k)

Spec == Init /\ [][Next]_vars

(* A thread that has started a call finishes it, the GC loop catches every *)
(* exception and runs for ever, and a workload nobody asks for gets idle.  *)
(* Requests and the exit of an encoder need not happen.                    *)
Fairness ==
    /\ \A t \in Threads : WF_vars(ThreadStep(t))
    /\ WF_vars(GCStep)
    /\ \A k \in Keys : WF_vars(SeenAges(k))

FairSpec == Spec /\ Fairness

----------------------------------------------------------------------------
(* Safety                                                                  *)

\* The two ownership maps agree: whoever owns a workload is an alias of it,
\* so no client can own two encoders.
OwnersAreAliases ==
    \A k \in Keys : \A j \in owners[k] : alias[j] = k

\* No ffmpeg process is ever lost: a running one is in the registry, where the
\* GC finds it, or held by the thread that is about to end it.
NoLostEncoder ==
    \A p \in running : p \in HeldProcs \/ \E k \in Keys : jobs[k] = p

\* "Once removed from the registry, a new request cannot attach to this
\* process": an encoder somebody is ending is under no key and held only once.
HeldIsDetached ==
    /\ \A t \in Threads : \A h \in held[t] : \A k \in Keys :
          h.proc \in Procs => jobs[k] # h.proc
    /\ \A t, u \in Threads : \A h \in held[t], g \in held[u] :
          h.proc = g.proc /\ h.proc \in Procs => t = u /\ h = g
    /\ \A k, l \in Keys : jobs[k] = jobs[l] /\ jobs[k] \in Procs => k = l

\* sweep never condemns the directory of a registered live encoder, although
\* its listing and its snapshot of live keys are stale when it looks at the age.
SweepSparesLive ==
    [][ pc[GC] = "sweep" /\ pc'[GC] = "rmtree" => ~Live(target'[GC]) ]_vars

(* Liveness                                                                *)

Wanted(p) == \E k \in Keys : jobs[k] = p /\ seen[k] = "fresh"

\* An encoder no client has asked for during idle_after is ended, whether it
\* was left behind by a crashed player, an orphaned rebind or a failed start.
UnwantedEncoderEnds ==
    \A p \in Procs : (p \in running /\ ~Wanted(p)) ~> (p \notin running \/ Wanted(p))

\* A directory older than max_age that no process writes is deleted, unless a
\* request rebuilds it first.
DirReclaimed ==
    \A k \in Keys :
        LET Abandoned == dir[k] = "old" /\ \A p \in running : writes[p] # k
        IN  Abandoned ~> ~Abandoned

(* What the comments say and the code does not keep                        *)

\* "The shared encoder is terminated only when the final owner releases the
\* workload": when stop goes on to _stop_workload nobody owns the workload.
OnlyFinalOwnerTerminates ==
    [][ \A t \in Clients :
          pc[t] = "stopping" /\ pc'[t] = "cleanup" => owners[target[t]] = {} ]_vars

\* "Workload key -> client job ids currently referencing it": a job whose
\* alias names a live encoder is among its owners.
ReferencesAreOwned ==
    \A j \in Jobs : alias[j] \in Keys /\ Live(alias[j]) => j \in owners[alias[j]]

\* "concurrent requests for the same workload cannot launch duplicate
\* encoders": no two running processes write one directory.
NoDuplicateEncoder ==
    \A p, q \in running : writes[p] = writes[q] => p = q

\* sweep: "Delete directories that no live shared workload owns": a request may
\* rebuild the directory and start its encoder after the age was looked at.
SweptIsUnowned ==
    [][ pc[GC] = "rmtree" /\ pc'[GC] = "sweep" => ~Live(target[GC]) ]_vars

\* "The actual ffmpeg process and HLS output directory are therefore owned by
\* workload_key": a registered live encoder has its directory.
LiveEncoderHasDir ==
    \A k \in Keys : Live(k) => dir[k] # "absent"
=============================================================================
