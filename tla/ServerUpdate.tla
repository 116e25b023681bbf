----------------------------- MODULE ServerUpdate -----------------------------
(****************************************************************************)
(* WebAdmin replaces the container of the streaming server by one of a newer *)
(* release, restarts it, and saves the settings it loads when it starts      *)
(* (webadmin/version_lifecycle.py over package_update.py over fork_update.py *)
(* over app.py; docker/webadmin_entrypoint.py).                              *)
(*                                                                          *)
(* Every call of the Docker API is a step of its own that may fail, alone or *)
(* in the write of the checkpoint after it, and WebAdmin may die between any *)
(* two of them.  update-checkpoint.json is written and never read, so it is  *)
(* left out.  A container that has been healthy does not fail.               *)
(*                                                                          *)
(* A release has two numbers of lines of their own: whether an update is     *)
(* offered is judged by SERVER_VERSION, and what is installed by             *)
(* FORK_VERSION, which names the release here.                               *)
(****************************************************************************)
EXTENDS Naturals, FiniteSets

CONSTANTS
    Workers,        \* the threads of accepted update requests
    Ids, NoId,      \* container ids
    Nobody,         \* holder of UPDATE_LOCK when it is free
    MaxVersion, MaxCfg,     \* bounds: releases, saves,
    MaxEvents,              \*   publications and failures together
    ServerOf        \* the SERVER_VERSION of each FORK_VERSION

Names == {"none", "main", "rollback"}
Outcomes == {"none", "running", "noop", "committed", "failed"}

VARIABLES
    cont,       \* each container: name, running, networks, image, loaded settings
    tag,        \* the images tagged as legacy.IMAGE and as its :rollback
    remote,     \* the published release, by its FORK_VERSION
    cfg,        \* number of the settings in admin-settings.json
    result,     \* update-result.json
    lock,       \* UPDATE_LOCK
    wk,         \* each worker: pc, old and new container, version, networks, outcome
    rs,         \* the restart request: pc, container, settings at the request
    hurt,       \* history: a failure hit where no rollback, or no server, was left
    doubt,      \* history: the branch went back, or FORK_VERSION was not read in the server
    events

vars == <<cont, tag, remote, cfg, result, lock, wk, rs, hurt, doubt, events>>

Gone == [name |-> "none", up |-> FALSE, nets |-> FALSE, ver |-> 0, env |-> 0]
Unused == [c \in Ids |-> Gone]
IdleWorker == [pc |-> "idle", old |-> NoId, new |-> NoId, ver |-> 0, nets |-> FALSE, out |-> "none"]
NoRestart == [pc |-> "idle", c |-> NoId, want |-> 0]

\* The steps whose failure leaves the thread with an exception, and those
\* inside the block of _activate_image that rolls back.
Unguarded == {"begin", "pull", "prepare", "stop", "rename", "disconnect"}
Guarded == {"create", "start", "validate", "remove", "commit"}
Restoring == {"restoreRemove", "restoreOld", "restoreWait"}
\* From the old server's stop to its replacement's start, or its own.
Window == {"rename", "disconnect", "create", "start", "restoreRemove", "restoreOld"}

TypeOK ==
    /\ cont \in [Ids -> [name : Names, up : BOOLEAN, nets : BOOLEAN,
                         ver : 0..MaxVersion, env : 0..MaxCfg]]
    /\ tag \in [main : 1..MaxVersion, rollback : 0..MaxVersion]
    /\ remote \in 1..MaxVersion /\ cfg \in 0..MaxCfg /\ events \in 0..MaxEvents
    /\ result \in Outcomes /\ hurt \in BOOLEAN /\ doubt \in BOOLEAN
    /\ lock \in Workers \cup {Nobody}
    /\ wk \in [Workers ->
                 [pc : {"idle", "check", "acquire", "unlock", "write"}
                         \cup Unguarded \cup Guarded \cup Restoring,
                  old : Ids \cup {NoId}, new : Ids \cup {NoId}, ver : 0..MaxVersion,
                  nets : BOOLEAN, out : Outcomes]]
    /\ rs \in [pc : {"idle", "restart", "wait", "verify", "ok"}, c : Ids \cup {NoId}, want : 0..MaxCfg]

Init ==
    /\ LET first == CHOOSE i \in Ids : TRUE
       IN  cont = [Unused EXCEPT ![first] =
                     [name |-> "main", up |-> TRUE, nets |-> TRUE, ver |-> 1, env |-> 0]]
    /\ tag = [main |-> 1, rollback |-> 0]
    /\ remote \in 1..MaxVersion /\ cfg = 0 /\ events = 0
    /\ result = "none" /\ hurt = FALSE /\ doubt = FALSE
    /\ lock = Nobody
    /\ wk = [w \in Workers |-> IdleWorker]
    /\ rs = NoRestart

Event == events < MaxEvents /\ events' = events + 1

Named(n) == {i \in Ids : cont[i].name = n}

\* the release whose version files are read inside the running server; 0 when they
\* cannot be read
Installed == LET S == {i \in Named("main") : cont[i].up}
             IN  IF S = {} THEN 0 ELSE cont[CHOOSE i \in S : TRUE].ver

\* what _installed_fork_version may return: the version is kept per image, so that a
\* server that is down is known or unknown
InstalledForks == {Installed} \cup {cont[i].ver : i \in Named("main")}

\* an update is offered only when both versions are known and one is newer
UpdateAvailable ==
    Installed # 0 /\ ServerOf[remote] > ServerOf[Installed]

Goto(w, p) == wk' = [wk EXCEPT ![w].pc = p]
FailTo(w, p) == wk' = [wk EXCEPT ![w].pc = p, ![w].out = "failed"]

----------------------------------------------------------------------------
\* POST /api/update: refused while the lock is taken or the versions are
\* unknown, a no-op when nothing is newer, and otherwise a new thread.  When
\* SERVER_VERSION cannot be read on one side, FORK_VERSION stands in for it,
\* and the comparison says either.
GuardedUpdate(w) ==
    /\ wk[w].pc = "idle"
    /\ lock = Nobody
    /\ Installed # 0
    /\ \/ UpdateAvailable /\ Goto(w, "check") /\ UNCHANGED <<result, events>>
       \/ ~UpdateAvailable /\ result' = "noop" /\ UNCHANGED <<wk, events>>
       \/ ~UpdateAvailable /\ Event /\ Goto(w, "check") /\ UNCHANGED result
       \/ UpdateAvailable /\ Event /\ result' = "noop" /\ UNCHANGED wk
    /\ UNCHANGED <<cont, tag, remote, cfg, lock, rs, hurt, doubt>>

\* the thread looks again, and still without the lock
GuardedServerUpdateWorker(w) ==
    /\ wk[w].pc = "check"
    /\ \/ UpdateAvailable /\ Goto(w, "acquire") /\ UNCHANGED <<result, events>>
       \/ ~UpdateAvailable /\ Goto(w, "idle") /\ result' = "noop" /\ UNCHANGED events
       \/ Installed # 0 /\ ~UpdateAvailable /\ Event /\ Goto(w, "acquire") /\ UNCHANGED result
       \/ UpdateAvailable /\ Event /\ Goto(w, "idle") /\ result' = "noop"
    /\ UNCHANGED <<cont, tag, remote, cfg, lock, rs, hurt, doubt>>

\* mutant: the lock is looked at, not waited for
AcquireFree(w) ==
    /\ wk[w].pc = "acquire"
    /\ lock' = w
    /\ wk' = [wk EXCEPT ![w].pc = "begin", ![w].ver = remote]
    /\ UNCHANGED <<cont, tag, remote, cfg, result, rs, hurt, doubt, events>>

\* with UPDATE_LOCK, and the published FORK_VERSION is read
Acquire(w) ==
    /\ wk[w].pc = "acquire"
    /\ lock = Nobody
    /\ lock' = w
    /\ wk' = [wk EXCEPT ![w].pc = "begin", ![w].ver = remote]
    /\ UNCHANGED <<cont, tag, remote, cfg, result, rs, hurt, doubt, events>>

\* The same FORK_VERSION in the server is a no-op; with any other, and with none when
\* it cannot be read, the current image is tagged for rollback and the update goes on.
Begin(w) ==
    /\ wk[w].pc = "begin"
    /\ \/ /\ wk[w].ver \in InstalledForks
          /\ wk' = [wk EXCEPT ![w].pc = "unlock", ![w].out = "noop"]
          /\ UNCHANGED <<tag, result, doubt, events>>
       \/ /\ Named("main") = {}
          /\ FailTo(w, "unlock")
          /\ UNCHANGED <<tag, result, doubt, events>>
       \/ /\ Named("main") # {}
          /\ IF \E installed \in InstalledForks : installed # wk[w].ver
             THEN UNCHANGED <<doubt, events>>
             ELSE Event /\ doubt' = TRUE
          /\ tag' = [tag EXCEPT !.rollback = cont[CHOOSE i \in Named("main") : TRUE].ver]
          /\ result' = "running" /\ Goto(w, "pull")
    /\ UNCHANGED <<cont, remote, cfg, lock, rs, hurt>>

\* the package of the version is pulled and tagged as the runtime image
PullReleaseImage(w) ==
    /\ wk[w].pc = "pull"
    /\ tag' = [tag EXCEPT !.main = wk[w].ver]
    /\ Goto(w, "prepare")
    /\ UNCHANGED <<cont, remote, cfg, result, lock, rs, hurt, doubt, events>>

----------------------------------------------------------------------------
(* _activate_image                                                          *)

\* A stopped container an earlier update left is removed, a running one
\* refuses the update; networks, image and checkpoint are recorded.
Prepare(w) ==
    /\ wk[w].pc = "prepare"
    /\ IF Named("main") = {} \/ \E i \in Named("rollback") : cont[i].up
       THEN FailTo(w, "unlock") /\ UNCHANGED <<cont, tag>>
       ELSE LET old == CHOOSE i \in Named("main") : TRUE
            IN  /\ cont' = [i \in Ids |-> IF i \in Named("rollback") THEN Gone ELSE cont[i]]
                /\ tag' = [tag EXCEPT !.rollback = cont[old].ver]
                /\ wk' = [wk EXCEPT ![w].pc = "stop", ![w].old = old, ![w].nets = cont[old].nets]
    /\ UNCHANGED <<remote, cfg, result, lock, rs, hurt, doubt, events>>

StopOld(w) ==
    /\ wk[w].pc = "stop"
    /\ cont' = [cont EXCEPT ![wk[w].old].up = FALSE]
    /\ Goto(w, "rename")
    /\ UNCHANGED <<tag, remote, cfg, result, lock, rs, hurt, doubt, events>>

RenameOld(w) ==
    /\ wk[w].pc = "rename"
    /\ cont' = [cont EXCEPT ![wk[w].old].name = "rollback"]
    /\ Goto(w, "disconnect")
    /\ UNCHANGED <<tag, remote, cfg, result, lock, rs, hurt, doubt, events>>

DisconnectNetworks(w) ==
    /\ wk[w].pc = "disconnect"
    /\ cont' = [cont EXCEPT ![wk[w].old].nets = FALSE]
    /\ Goto(w, "create")
    /\ UNCHANGED <<tag, remote, cfg, result, lock, rs, hurt, doubt, events>>

\* The replacement's name, image and networks; it starts with the environment
\* of the old one, over which its entrypoint puts the settings of the file.
ContainerCreatePayload(w) ==
    [name |-> "main", up |-> FALSE, nets |-> wk[w].nets, ver |-> tag.main, env |-> 0]

CreateReplacement(w) ==
    /\ wk[w].pc = "create"
    /\ LET fresh == {i \in Named("none") : i # rs.c}
           new == CHOOSE i \in fresh : TRUE
       IN  /\ fresh # {}
           /\ cont' = [cont EXCEPT ![new] = ContainerCreatePayload(w)]
           /\ wk' = [wk EXCEPT ![w].pc = "start", ![w].new = new]
    /\ UNCHANGED <<tag, remote, cfg, result, lock, rs, hurt, doubt, events>>

\* A container starts: webadmin_entrypoint puts the saved settings into the
\* environment the server reads, and leaves that of the container alone, without
\* a word, when it cannot read them.
Started(c) == {[c EXCEPT !.up = TRUE, !.env = e] : e \in {cfg, 0}}
Boots(c) == IF c.env = cfg THEN UNCHANGED events ELSE Event

StartReplacement(w) ==
    /\ wk[w].pc = "start"
    /\ \E c \in Started(cont[wk[w].new]) : Boots(c) /\ cont' = [cont EXCEPT ![wk[w].new] = c]
    /\ Goto(w, "validate")
    /\ UNCHANGED <<tag, remote, cfg, result, lock, rs, hurt, doubt>>

\* _wait_healthy succeeds; an unhealthy or late replacement is FailGuarded
ValidateReplacement(w) ==
    /\ wk[w].pc = "validate"
    /\ cont[wk[w].new].up
    /\ Goto(w, "remove")
    /\ UNCHANGED <<cont, tag, remote, cfg, result, lock, rs, hurt, doubt, events>>

RemoveOld(w) ==
    /\ wk[w].pc = "remove"
    /\ cont' = [cont EXCEPT ![wk[w].old] = Gone]
    /\ Goto(w, "commit")
    /\ UNCHANGED <<tag, remote, cfg, result, lock, rs, hurt, doubt, events>>

Commit(w) ==
    /\ wk[w].pc = "commit"
    /\ wk' = [wk EXCEPT ![w].pc = "unlock", ![w].out = "committed"]
    /\ UNCHANGED <<cont, tag, remote, cfg, result, lock, rs, hurt, doubt, events>>

\* An exception before the block that rolls back.  Once the old server is
\* stopped nothing starts it again.
FailUnguarded(w) ==
    /\ wk[w].pc \in Unguarded
    /\ Event
    /\ hurt' = (hurt \/ wk[w].pc \in Window)
    /\ FailTo(w, "unlock")
    /\ UNCHANGED <<cont, tag, remote, cfg, result, lock, rs, doubt>>

\* an exception inside it
FailGuarded(w) ==
    /\ wk[w].pc \in Guarded
    /\ Event
    /\ FailTo(w, "restoreRemove")
    /\ UNCHANGED <<cont, tag, remote, cfg, result, lock, rs, hurt, doubt>>

\* _restore_old_container: what has the server's name, and is not the old
\* container, is removed
RestoreRemove(w) ==
    /\ wk[w].pc = "restoreRemove"
    /\ cont' = [i \in Ids |-> IF i \in Named("main") \ {wk[w].old} THEN Gone ELSE cont[i]]
    /\ Goto(w, "restoreOld")
    /\ UNCHANGED <<tag, remote, cfg, result, lock, rs, hurt, doubt, events>>

\* mutant: the networks are not connected again
RestoreOldBare(w) ==
    /\ wk[w].pc = "restoreOld"
    /\ cont[wk[w].old] # Gone
    /\ \E c \in Started(cont[wk[w].old]) :
         Boots(c) /\ cont' = [cont EXCEPT ![wk[w].old] = [c EXCEPT !.name = "main"]]
    /\ Goto(w, "restoreWait")
    /\ UNCHANGED <<tag, remote, cfg, result, lock, rs, hurt, doubt>>

\* the old container gets its name and networks back and is started (a start
\* of one that runs already changes nothing)
RestoreOld(w) ==
    /\ wk[w].pc = "restoreOld"
    /\ cont[wk[w].old] # Gone
    /\ LET old == cont[wk[w].old]
       IN  \E c \in IF old.up THEN {old} ELSE Started(old) :
             /\ IF old.up THEN UNCHANGED events ELSE Boots(c)
             /\ cont' = [cont EXCEPT ![wk[w].old] =
                          [c EXCEPT !.name = "main", !.nets = c.nets \/ wk[w].nets]]
    /\ Goto(w, "restoreWait")
    /\ UNCHANGED <<tag, remote, cfg, result, lock, rs, hurt, doubt>>

RestoreHealthy(w) ==
    /\ wk[w].pc = "restoreWait"
    /\ Goto(w, "unlock")
    /\ UNCHANGED <<cont, tag, remote, cfg, result, lock, rs, hurt, doubt, events>>

\* the rollback fails: the old container is gone already, or another fault
RestoreFails(w) ==
    /\ wk[w].pc \in Restoring
    /\ IF wk[w].pc = "restoreOld" /\ cont[wk[w].old] = Gone THEN UNCHANGED events ELSE Event
    /\ hurt' = (hurt \/ wk[w].pc \in Window)
    /\ Goto(w, "unlock")
    /\ UNCHANGED <<cont, tag, remote, cfg, result, lock, rs, doubt>>

\* mutant: an update that failed keeps the lock
ReleaseWhenDone(w) ==
    /\ wk[w].pc = "unlock"
    /\ lock' = IF wk[w].out = "failed" THEN lock ELSE Nobody
    /\ Goto(w, "write")
    /\ UNCHANGED <<cont, tag, remote, cfg, result, rs, hurt, doubt, events>>

Release(w) ==
    /\ wk[w].pc = "unlock"
    /\ lock' = Nobody
    /\ Goto(w, "write")
    /\ UNCHANGED <<cont, tag, remote, cfg, result, rs, hurt, doubt, events>>

\* the outcome is written after the lock is released
WriteResult(w) ==
    /\ wk[w].pc = "write"
    /\ result' = wk[w].out
    /\ wk' = [wk EXCEPT ![w] = IdleWorker]
    /\ UNCHANGED <<cont, tag, remote, cfg, lock, rs, hurt, doubt, events>>

----------------------------------------------------------------------------
(* POST /api/restart takes RESTART_LOCK, not UPDATE_LOCK.                   *)

RestartRequest ==
    /\ rs.pc = "idle"
    /\ \E c \in Named("main") : rs' = [pc |-> "restart", c |-> c, want |-> cfg]
    /\ UNCHANGED <<cont, tag, remote, cfg, result, lock, wk, hurt, doubt, events>>

\* container.restart also starts one that an update has stopped
RestartContainer ==
    /\ rs.pc = "restart"
    /\ cont[rs.c] # Gone
    /\ \E c \in Started(cont[rs.c]) : Boots(c) /\ cont' = [cont EXCEPT ![rs.c] = c]
    /\ rs' = [rs EXCEPT !.pc = "wait"]
    /\ UNCHANGED <<tag, remote, cfg, result, lock, wk, hurt, doubt>>

\* health is asked inside the container, not over the network
WaitForServer ==
    /\ rs.pc = "wait"
    /\ cont[rs.c].up
    /\ rs' = [rs EXCEPT !.pc = "verify"]
    /\ UNCHANGED <<cont, tag, remote, cfg, result, lock, wk, hurt, doubt, events>>

\* the file as the container sees it holds what WebAdmin reads from it now
VerifyServerConfig ==
    /\ rs.pc = "verify"
    /\ \E c \in Named("main") : cont[c].up
    /\ rs' = [rs EXCEPT !.pc = "ok"]
    /\ UNCHANGED <<cont, tag, remote, cfg, result, lock, wk, hurt, doubt, events>>

\* the request is answered, or fails on a container that is gone, down or late
RestartReturns ==
    /\ rs.pc # "idle"
    /\ rs' = NoRestart
    /\ UNCHANGED <<cont, tag, remote, cfg, result, lock, wk, hurt, doubt, events>>

----------------------------------------------------------------------------
\* PUT /api/config or /api/settings: merged into the file under CONFIG_LOCK,
\* through a temporary file, and read back
WriteConfig ==
    /\ cfg < MaxCfg
    /\ cfg' = cfg + 1
    /\ UNCHANGED <<cont, tag, remote, result, lock, wk, rs, hurt, doubt, events>>

\* The branch names another release: a newer one, or, once one was withdrawn, an
\* older one.
Publish ==
    /\ Event
    /\ remote' \in (1..MaxVersion) \ {remote}
    /\ doubt' = (doubt \/ remote' < remote)
    /\ UNCHANGED <<cont, tag, cfg, result, lock, wk, rs, hurt>>

\* WebAdmin dies with its daemon threads, and takes nothing up when it starts
CrashAdmin ==
    /\ Event
    /\ hurt' = (hurt \/ \E w \in Workers : wk[w].pc \in Window)
    /\ lock' = Nobody
    /\ wk' = [w \in Workers |-> IdleWorker]
    /\ rs' = NoRestart
    /\ UNCHANGED <<cont, tag, remote, cfg, result, doubt>>

Swap(w) ==
    \/ Prepare(w) \/ StopOld(w) \/ RenameOld(w) \/ DisconnectNetworks(w)
    \/ CreateReplacement(w) \/ StartReplacement(w) \/ ValidateReplacement(w)
    \/ RemoveOld(w) \/ Commit(w)

Restore(w) == RestoreRemove(w) \/ RestoreOld(w) \/ RestoreHealthy(w) \/ RestoreFails(w)

\* what the thread of an update does by itself; a replacement that is neither
\* healthy nor unhealthy in HEALTH_TIMEOUT seconds fails
WorkerStep(w) ==
    \/ GuardedServerUpdateWorker(w) \/ Acquire(w) \/ Begin(w) \/ PullReleaseImage(w)
    \/ Swap(w) \/ Restore(w) \/ Release(w) \/ WriteResult(w)

Next ==
    \/ \E w \in Workers :
         GuardedUpdate(w) \/ WorkerStep(w) \/ FailUnguarded(w) \/ FailGuarded(w)
    \/ RestartRequest \/ RestartContainer \/ WaitForServer \/ VerifyServerConfig \/ RestartReturns
    \/ WriteConfig \/ Publish \/ CrashAdmin

Spec == Init /\ [][Next]_vars

\* A thread that can run runs, and one that waits for a lock that is released
\* again and again gets it.
FairSpec == Spec /\ \A w \in Workers : WF_vars(WorkerStep(w)) /\ SF_vars(Acquire(w))

----------------------------------------------------------------------------
\* The server answers whenever no update is between stopping it and starting
\* the next one, whatever failed before: unless the failure, or the death of
\* WebAdmin, hit in exactly that window or in the rollback.
ServesUnlessHurt ==
    hurt \/ (\E w \in Workers : wk[w].pc \in Window)
         \/ \E c \in Named("main") : cont[c].up /\ cont[c].nets

\* The lock decides, not the comparison a request was accepted by: as long as the
\* branch only goes forward, and the server could be asked for its FORK_VERSION,
\* no update replaces a server by an older release, however long it waited for the
\* lock and whatever was installed meanwhile, and the image it keeps for rollback is
\* an older one.  An update reported as committed runs the release it was asked for,
\* under an image tag that names it, wherever the branch went.
UpdatesGoForward ==
    \A w \in Workers :
      /\ wk[w].pc \in ({"stop"} \cup Guarded) \ {"commit"} => doubt \/ cont[wk[w].old].ver <= wk[w].ver
      /\ wk[w].out = "committed" /\ wk[w].pc = "unlock" =>
           /\ \E c \in Named("main") : cont[c].up /\ cont[c].ver = wk[w].ver
           /\ tag.main = wk[w].ver
           /\ doubt \/ hurt \/ tag.rollback < wk[w].ver

\* Every update ends, and so does everyone's waiting for it.
UpdateSettles == \A w \in Workers : wk[w].pc # "idle" ~> wk[w].pc = "idle"

(* What the docstrings and messages promise and the code does not keep:     *)

\* An activation that has failed leaves the old server running.
FailedUpdateRestoresServer ==
    \A w \in Workers : wk[w].pc = "write" /\ wk[w].out = "failed" =>
        \E c \in Named("main") : cont[c].up

\* "downgrade disabled": the installed release is never replaced by an older one.
DowngradeDisabled ==
    \A w \in Workers : wk[w].pc \in {"start", "validate", "remove"} => cont[wk[w].old].ver <= wk[w].ver

\* "an update only when a different SERVER_VERSION is verified"; only another
\* FORK_VERSION is asked for with the lock.
OnlyNewServerVersions ==
    \A w \in Workers : wk[w].pc \in {"start", "validate", "remove"} =>
        ServerOf[wk[w].ver] # ServerOf[cont[wk[w].old].ver]

\* A restart that is reported as done has loaded every setting saved before it was
\* asked for: only the file is compared, which the entrypoint may have failed to read.
RestartLoadsSettings ==
    rs.pc = "ok" => cont[rs.c] = Gone \/ cont[rs.c].env >= rs.want
=============================================================================
