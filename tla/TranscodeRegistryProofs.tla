----------------------- MODULE TranscodeRegistryProofs -----------------------
(****************************************************************************)
(* Theorems about TranscodeRegistry, for any sets of jobs, keys, processes  *)
(* and request threads.  IInv adds to the three safety invariants the fact  *)
(* that a thread holds detached encoders only while it cleans up, which is  *)
(* what makes overwriting held in Detach lose nothing.                      *)
(****************************************************************************)
EXTENDS TranscodeRegistry, TLAPS

HeldOnlyInCleanup == \A t \in Threads : pc[t] # "cleanup" => held[t] = {}

IInv ==
    /\ TypeOK
    /\ HeldOnlyInCleanup
    /\ OwnersAreAliases
    /\ NoLostEncoder
    /\ HeldIsDetached

----------------------------------------------------------------------------
\* The three ways ensure_job returns keep the thread state well-typed: the
\* orphan it passes on is a key or nothing.
LEMMA OrphanedType ==
    ASSUME TypeOK, NEW j \in Jobs, NEW k \in Keys
    PROVE  /\ Orphaned(j, k) \in Keys \cup {NoKey}
           /\ OwnersLeft(j, k) \in [Keys -> SUBSET Jobs]
    BY DEF TypeOK, Orphaned, OwnersLeft, Rebinds

LEMMA UnlockType ==
    ASSUME TypeOK, NEW t \in Threads, NEW orphan \in Keys \cup {NoKey}, Unlock(t, orphan)
    PROVE  /\ pc' \in [Threads -> {"idle", "orphan", "stopping", "cleanup", "list", "snap", "sweep", "rmtree"}]
           /\ target' \in [Threads -> Keys \cup {NoKey}]
           /\ \A u \in Threads : pc'[u] \in {"orphan", "stopping", "rmtree"} => target'[u] \in Keys
           /\ held' = held /\ names' = names /\ live' = live
    BY DEF TypeOK, Unlock

LEMMA DetachType ==
    ASSUME TypeOK, NEW t \in Threads, NEW K \in SUBSET Keys, NEW F \in SUBSET Jobs,
           Detach(t, K, F), UNCHANGED <<system, names, live>>
    PROVE  TypeOK'
    BY DEF TypeOK, Detach, Pair, system

\* Every action keeps every variable in its type.
LEMMA TypeStep == TypeOK /\ [Next]_vars => TypeOK'
<1> SUFFICES ASSUME TypeOK, [Next]_vars PROVE TypeOK'
  OBVIOUS
<1> USE ConstantsDistinct
<1>1. ASSUME NEW t \in Clients, NEW j \in Jobs, NEW k \in Keys, EnsureJob(t, j, k)
      PROVE  TypeOK'
  <2>0. t \in Threads
    BY DEF Threads
  <2>1. CASE Refresh(t, j, k)
    BY <2>1 DEF TypeOK, Refresh, system, threads
  <2>2. CASE Attach(t, j, k)
    BY <2>0, <2>2, OrphanedType, UnlockType DEF TypeOK, Attach, system
  <2>3. CASE Spawn(t, j, k)
    BY <2>0, <2>3, OrphanedType, UnlockType DEF TypeOK, Spawn, FreshProcs
  <2>4. CASE SpawnFails(t, j, k)
    BY <2>4, OrphanedType DEF TypeOK, SpawnFails, threads
  <2> QED BY <1>1, <2>1, <2>2, <2>3, <2>4 DEF EnsureJob
<1>2. ASSUME NEW t \in Clients, NEW j \in Jobs, Stop(t, j)
      PROVE  TypeOK'
  BY <1>2 DEF TypeOK, Stop, system, Threads
<1>3. ASSUME NEW t \in Clients, StopAll(t)
      PROVE  TypeOK'
  BY <1>3 DEF TypeOK, StopAll, system, Threads, Pair
<1>4. ASSUME NEW j \in Jobs, Touch(j)
      PROVE  TypeOK'
  BY <1>4 DEF TypeOK, Touch, system, threads
<1>5. ASSUME NEW t \in Threads, ThreadStep(t)
      PROVE  TypeOK'
  <2>1. CASE StopIfOrphaned(t)
    <3>1. CASE owners[target[t]] # {}
      BY <2>1, <3>1 DEF TypeOK, StopIfOrphaned, Detach, registry, system
    <3>2. CASE owners[target[t]] = {}
      <4>1. target[t] \in Keys
        BY <2>1 DEF TypeOK, StopIfOrphaned
      <4>2. Detach(t, {target[t]}, BoundTo({target[t]})) /\ UNCHANGED <<system, names, live>>
        BY <2>1, <3>2 DEF StopIfOrphaned
      <4> QED BY <4>1, <4>2, DetachType DEF BoundTo
    <3> QED BY <3>1, <3>2
  <2>2. CASE StopWorkload(t)
    <3>1. target[t] \in Keys
      BY <2>2 DEF TypeOK, StopWorkload
    <3>2. Detach(t, {target[t]}, OwnersOf({target[t]})) /\ UNCHANGED <<system, names, live>>
      BY <2>2 DEF StopWorkload
    <3> QED BY <3>1, <3>2, DetachType DEF OwnersOf
  <2>3. CASE EndProc(t)
    BY <2>3 DEF TypeOK, EndProc, registry, threads
  <2>4. CASE RemoveDir(t)
    BY <2>4 DEF TypeOK, RemoveDir, registry, Pair
  <2>5. CASE CleanedUp(t)
    BY <2>5 DEF TypeOK, CleanedUp, registry, system
  <2> QED BY <1>5, <2>1, <2>2, <2>3, <2>4, <2>5 DEF ThreadStep
<1>6. CASE GCStep
  <2>1. CASE ReapIdle
    <3> DEFINE K == {k \in Keys : Live(k) /\ Idle(k)}
    <3>1. Detach(GC, K, OwnersOf(K)) /\ UNCHANGED <<system, names, live>>
      BY <2>1 DEF ReapIdle
    <3>2. GC \in Threads /\ K \in SUBSET Keys /\ OwnersOf(K) \in SUBSET Jobs
      BY DEF Threads, OwnersOf
    <3> QED BY <3>1, <3>2, DetachType
  <2>2. CASE SweepList
    BY <2>2 DEF TypeOK, SweepList, registry, system, Threads
  <2>3. CASE SweepSnapshot
    BY <2>3 DEF TypeOK, SweepSnapshot, registry, system, Threads
  <2>4. CASE SweepLook \/ SweepDelete
    BY <2>4 DEF TypeOK, Condemn, SweepLook, SweepDelete, registry, system, Threads
  <2>5. CASE SweepDone
    BY <2>5 DEF TypeOK, SweepDone, registry, system, Threads
  <2> QED BY <1>6, <2>1, <2>2, <2>3, <2>4, <2>5 DEF GCStep
<1>7. ASSUME NEW p \in Procs, ProcExits(p)
      PROVE  TypeOK'
  BY <1>7 DEF TypeOK, ProcExits, registry, threads
<1>8. ASSUME NEW k \in Keys, SeenAges(k) \/ DirAges(k)
      PROVE  TypeOK'
  BY <1>8 DEF TypeOK, SeenAges, DirAges, registry, system, threads
<1>9. CASE UNCHANGED vars
  BY <1>9 DEF TypeOK, vars, registry, system, threads
<1> QED BY <1>1, <1>2, <1>3, <1>4, <1>5, <1>6, <1>7, <1>8, <1>9 DEF Next, Request

\* Every variable of the registry keeps its type (TypeOK).
THEOREM TypeCorrect == Spec => []TypeOK
<1>1. Init => TypeOK
  BY ConstantsDistinct DEF Init, TypeOK
<1>2. TypeOK /\ [Next]_vars => TypeOK'
  BY TypeStep
<1> QED BY <1>1, <1>2, PTL DEF Spec

----------------------------------------------------------------------------
\* Starting an encoder, or failing to, keeps the invariant: the key it is put
\* under has no live encoder, and the object is referred to by nobody.
LEMMA EnsureJobStep ==
    ASSUME IInv, NEW t \in Clients, NEW j \in Jobs, NEW k \in Keys, EnsureJob(t, j, k)
    PROVE  (HeldOnlyInCleanup /\ OwnersAreAliases /\ NoLostEncoder /\ HeldIsDetached)'
<1> USE ConstantsDistinct
<1>0. t \in Threads
  BY DEF Threads
<1>1. CASE Refresh(t, j, k)
  BY <1>1 DEF IInv, Refresh, HeldOnlyInCleanup, OwnersAreAliases, NoLostEncoder, HeldIsDetached,
              HeldProcs, system, threads
<1>2. CASE Attach(t, j, k)
  <2>1. HeldOnlyInCleanup'
    BY <1>0, <1>2 DEF IInv, TypeOK, Attach, Unlock, HeldOnlyInCleanup
  <2>2. OwnersAreAliases'
    BY <1>2 DEF IInv, TypeOK, Attach, OwnersLeft, Rebinds, OwnersAreAliases
  <2>3. NoLostEncoder' /\ HeldIsDetached'
    BY <1>2 DEF IInv, Attach, Unlock, NoLostEncoder, HeldIsDetached, HeldProcs, system
  <2> QED BY <2>1, <2>2, <2>3
<1>3. CASE Spawn(t, j, k)
  <2>1. HeldOnlyInCleanup'
    BY <1>0, <1>3 DEF IInv, TypeOK, Spawn, Unlock, HeldOnlyInCleanup
  <2>2. OwnersAreAliases'
    BY <1>3 DEF IInv, TypeOK, Spawn, OwnersLeft, Rebinds, OwnersAreAliases
  <2>3. held' = held
    BY <1>3 DEF Spawn, Unlock
  <2>4. PICK p \in FreshProcs : /\ jobs' = [jobs EXCEPT ![k] = p]
                                /\ running' = running \cup {p}
    BY <1>3 DEF Spawn
  <2>5. NoLostEncoder'
    BY <1>3, <2>3, <2>4 DEF IInv, TypeOK, Spawn, Live, NoLostEncoder, HeldProcs
  <2>6. \A u \in Threads : \A h \in held[u] : h.proc # p
    BY <2>4 DEF FreshProcs, HeldProcs
  <2>7. HeldIsDetached'
    BY <2>3, <2>4, <2>6 DEF IInv, TypeOK, HeldIsDetached, FreshProcs
  <2> QED BY <2>1, <2>2, <2>5, <2>7
<1>4. CASE SpawnFails(t, j, k)
  <2>1. HeldOnlyInCleanup'
    BY <1>4 DEF IInv, SpawnFails, HeldOnlyInCleanup, threads
  <2>2. OwnersAreAliases'
    BY <1>4 DEF IInv, TypeOK, SpawnFails, OwnersLeft, Rebinds, OwnersAreAliases
  <2>3. NoLostEncoder'
    BY <1>4 DEF IInv, TypeOK, SpawnFails, Live, NoLostEncoder, HeldProcs, threads
  <2>4. HeldIsDetached'
    BY <1>4 DEF IInv, TypeOK, SpawnFails, HeldIsDetached, threads
  <2> QED BY <2>1, <2>2, <2>3, <2>4
<1> QED BY <1>1, <1>2, <1>3, <1>4 DEF EnsureJob

\* Detaching any keys K moves their encoders from the registry to the thread,
\* which held none before.
LEMMA DetachStep ==
    ASSUME IInv, NEW t \in Threads, pc[t] # "cleanup", NEW K \in SUBSET Keys,
           jobs' = [k \in Keys |-> IF k \in K THEN NoProc ELSE jobs[k]],
           held' = [held EXCEPT ![t] = {[key |-> k, proc |-> jobs[k]] : k \in K}],
           pc' = [pc EXCEPT ![t] = "cleanup"],
           running' = running
    PROVE  (HeldOnlyInCleanup /\ NoLostEncoder /\ HeldIsDetached)'
<1> USE ConstantsDistinct
<1> DEFINE moved == {[key |-> k, proc |-> jobs[k]] : k \in K}
<1>1. held[t] = {}
  BY DEF IInv, HeldOnlyInCleanup
<1>2. held' = [held EXCEPT ![t] = moved]
  OBVIOUS
<1>3. HeldOnlyInCleanup'
  BY <1>2 DEF IInv, TypeOK, HeldOnlyInCleanup
<1>5. held'[t] = moved /\ \A u \in Threads \ {t} : held'[u] = held[u]
  BY <1>2 DEF IInv, TypeOK
<1>6. NoLostEncoder'
  <2> SUFFICES ASSUME NEW p \in running
               PROVE  p \in HeldProcs' \/ \E k \in Keys : jobs'[k] = p
    BY DEF NoLostEncoder
  <2>1. CASE p \in HeldProcs
    <3>1. PICK u \in Threads : \E h \in held[u] : h.proc = p
      BY <2>1 DEF HeldProcs
    <3>2. u # t
      BY <1>1, <3>1
    <3> QED BY <1>5, <3>1, <3>2 DEF HeldProcs
  <2>2. ASSUME NEW k \in K, jobs[k] = p
        PROVE  p \in HeldProcs'
    <3>1. [key |-> k, proc |-> jobs[k]] \in held'[t]
      BY <1>5
    <3> QED BY <2>2, <3>1 DEF HeldProcs
  <2>3. ASSUME NEW k \in Keys \ K, jobs[k] = p
        PROVE  jobs'[k] = p
    BY <2>3
  <2> QED BY <2>1, <2>2, <2>3 DEF IInv, NoLostEncoder
<1>7. HeldIsDetached'
  <2>1. \A h \in moved : h.key \in K /\ h = [key |-> h.key, proc |-> jobs[h.key]]
    OBVIOUS
  <2>2. \A k \in Keys : jobs'[k] = IF k \in K THEN NoProc ELSE jobs[k]
    OBVIOUS
  <2>3. \A k, l \in Keys : jobs[k] = jobs[l] /\ jobs[k] \in Procs => k = l
    BY DEF IInv, HeldIsDetached
  <2>4. ASSUME NEW u \in Threads, NEW h \in held'[u], NEW k \in Keys, h.proc \in Procs
        PROVE  jobs'[k] # h.proc
    <3>1. CASE u = t
      BY <1>5, <2>1, <2>2, <2>3, <2>4, <3>1
    <3>2. CASE u # t
      BY <1>5, <2>2, <2>4, <3>2 DEF IInv, HeldIsDetached
    <3> QED BY <3>1, <3>2
  <2>5. ASSUME NEW u \in Threads, NEW v \in Threads, NEW h \in held'[u], NEW g \in held'[v],
               h.proc = g.proc, h.proc \in Procs
        PROVE  u = v /\ h = g
    <3>1. CASE u = t /\ v = t
      BY <1>5, <2>1, <2>3, <2>5, <3>1
    <3>2. CASE u = t /\ v # t
      BY <1>5, <2>1, <2>5, <3>2 DEF IInv, HeldIsDetached
    <3>3. CASE u # t /\ v = t
      BY <1>5, <2>1, <2>5, <3>3 DEF IInv, HeldIsDetached
    <3>4. CASE u # t /\ v # t
      BY <1>5, <2>5, <3>4 DEF IInv, HeldIsDetached
    <3> QED BY <3>1, <3>2, <3>3, <3>4
  <2>6. \A k, l \in Keys : jobs'[k] = jobs'[l] /\ jobs'[k] \in Procs => k = l
    BY <2>2, <2>3
  <2> QED BY <2>4, <2>5, <2>6 DEF HeldIsDetached
<1> QED BY <1>3, <1>6, <1>7

\* The same for Detach itself, which also forgets owners of K among the aliases.
LEMMA DetachInv ==
    ASSUME IInv, NEW t \in Threads, pc[t] # "cleanup",
           NEW K \in SUBSET Keys, NEW F \in SUBSET Jobs, F \subseteq BoundTo(K),
           Detach(t, K, F), running' = running
    PROVE  (HeldOnlyInCleanup /\ OwnersAreAliases /\ NoLostEncoder /\ HeldIsDetached)'
<1>1. (HeldOnlyInCleanup /\ NoLostEncoder /\ HeldIsDetached)'
  BY DetachStep DEF Detach
<1>2. OwnersAreAliases'
  BY DEF IInv, TypeOK, Detach, BoundTo, OwnersAreAliases
<1> QED BY <1>1, <1>2

\* What a thread does after its first unlock, and what the GC does, keeps it.
LEMMA ThreadInvStep ==
    ASSUME IInv, NEW t \in Threads, ThreadStep(t)
    PROVE  (HeldOnlyInCleanup /\ OwnersAreAliases /\ NoLostEncoder /\ HeldIsDetached)'
<1> USE ConstantsDistinct
<1>1. CASE StopIfOrphaned(t)
  <2>1. CASE owners[target[t]] # {}
    BY <1>1, <2>1 DEF IInv, TypeOK, StopIfOrphaned, Detach, registry, system, HeldOnlyInCleanup,
                      OwnersAreAliases, NoLostEncoder, HeldIsDetached, HeldProcs
  <2>2. CASE owners[target[t]] = {}
    <3>1. target[t] \in Keys /\ pc[t] # "cleanup"
      BY <1>1 DEF IInv, TypeOK, StopIfOrphaned
    <3>2. Detach(t, {target[t]}, BoundTo({target[t]})) /\ running' = running
      BY <1>1, <2>2 DEF StopIfOrphaned, system
    <3> QED BY <3>1, <3>2, DetachInv DEF BoundTo
  <2> QED BY <2>1, <2>2
<1>2. CASE StopWorkload(t)
  <2>1. target[t] \in Keys /\ pc[t] # "cleanup"
    BY <1>2 DEF IInv, TypeOK, StopWorkload
  <2>2. Detach(t, {target[t]}, OwnersOf({target[t]})) /\ running' = running
    BY <1>2 DEF StopWorkload, system
  <2>3. OwnersOf({target[t]}) \subseteq BoundTo({target[t]})
    BY DEF OwnersOf, BoundTo
  <2> QED BY <2>1, <2>2, <2>3, DetachInv DEF BoundTo
<1>3. CASE EndProc(t)
  BY <1>3 DEF IInv, EndProc, registry, threads, HeldOnlyInCleanup, OwnersAreAliases,
              NoLostEncoder, HeldIsDetached, HeldProcs
<1>4. CASE RemoveDir(t)
  <2>1. PICK h \in held[t] : h.proc \notin running /\ held' = [held EXCEPT ![t] = @ \ {h}]
    BY <1>4 DEF RemoveDir
  <2>2. \A u \in Threads : held'[u] \subseteq held[u]
    BY <2>1 DEF IInv, TypeOK
  <2>3. HeldOnlyInCleanup' /\ OwnersAreAliases'
    BY <1>4, <2>2 DEF IInv, RemoveDir, registry, HeldOnlyInCleanup, OwnersAreAliases
  <2>4. NoLostEncoder'
    <3> SUFFICES ASSUME NEW p \in running
                 PROVE  p \in HeldProcs' \/ \E k \in Keys : jobs[k] = p
      BY <1>4 DEF RemoveDir, registry, NoLostEncoder
    <3>1. ASSUME NEW u \in Threads, NEW g \in held[u], g.proc = p
          PROVE  g \in held'[u]
      BY <2>1, <3>1 DEF IInv, TypeOK
    <3> QED BY <3>1 DEF IInv, NoLostEncoder, HeldProcs
  <2>5. HeldIsDetached'
    BY <1>4, <2>2 DEF IInv, RemoveDir, registry, HeldIsDetached
  <2> QED BY <2>3, <2>4, <2>5
<1>5. CASE CleanedUp(t)
  BY <1>5 DEF IInv, TypeOK, CleanedUp, registry, system, HeldOnlyInCleanup, OwnersAreAliases,
              NoLostEncoder, HeldIsDetached, HeldProcs
<1> QED BY <1>1, <1>2, <1>3, <1>4, <1>5 DEF ThreadStep

\* IInv is inductive.
LEMMA InvStep == IInv /\ [Next]_vars => IInv'
<1> SUFFICES ASSUME IInv, [Next]_vars
             PROVE  (HeldOnlyInCleanup /\ OwnersAreAliases /\ NoLostEncoder /\ HeldIsDetached)'
  BY TypeStep DEF IInv
<1> USE ConstantsDistinct
<1>1. ASSUME NEW t \in Clients, NEW j \in Jobs, Stop(t, j)
      PROVE  (HeldOnlyInCleanup /\ OwnersAreAliases /\ NoLostEncoder /\ HeldIsDetached)'
  <2>1. (HeldOnlyInCleanup /\ NoLostEncoder /\ HeldIsDetached)'
    <3>1. UNCHANGED <<jobs, held, running>>
      BY <1>1 DEF Stop, system
    <3>2. \A u \in Threads : pc'[u] # "cleanup" => pc[u] # "cleanup"
      BY <1>1 DEF IInv, TypeOK, Stop
    <3>3. HeldOnlyInCleanup'
      BY <3>1, <3>2 DEF IInv, HeldOnlyInCleanup
    <3>4. NoLostEncoder' /\ HeldIsDetached'
      BY <3>1 DEF IInv, NoLostEncoder, HeldIsDetached, HeldProcs
    <3> QED BY <3>3, <3>4
  <2>2. OwnersAreAliases'
    BY <1>1 DEF IInv, TypeOK, Stop, OwnersAreAliases
  <2> QED BY <2>1, <2>2
<1>2. ASSUME NEW t \in Clients, StopAll(t)
      PROVE  (HeldOnlyInCleanup /\ OwnersAreAliases /\ NoLostEncoder /\ HeldIsDetached)'
  <2> DEFINE K == {x \in Keys : jobs[x] # NoProc}
  <2>1. t \in Threads /\ pc[t] # "cleanup" /\ K \in SUBSET Keys /\ running' = running
    BY <1>2 DEF StopAll, Threads, system
  <2>2. jobs' = [k \in Keys |-> IF k \in K THEN NoProc ELSE jobs[k]]
    BY <1>2 DEF StopAll
  <2>3. /\ held' = [held EXCEPT ![t] = {[key |-> k, proc |-> jobs[k]] : k \in K}]
        /\ pc' = [pc EXCEPT ![t] = "cleanup"]
    BY <1>2 DEF StopAll
  <2>4. (HeldOnlyInCleanup /\ NoLostEncoder /\ HeldIsDetached)'
    BY <2>1, <2>2, <2>3, DetachStep
  <2>5. OwnersAreAliases'
    BY <1>2 DEF StopAll, OwnersAreAliases
  <2> QED BY <2>4, <2>5
<1>3. ASSUME NEW j \in Jobs, Touch(j)
      PROVE  (HeldOnlyInCleanup /\ OwnersAreAliases /\ NoLostEncoder /\ HeldIsDetached)'
  BY <1>3 DEF IInv, Touch, system, threads, HeldOnlyInCleanup, OwnersAreAliases,
              NoLostEncoder, HeldIsDetached, HeldProcs
<1>4. CASE GCStep
  <2>1. CASE ReapIdle
    <3> DEFINE K == {k \in Keys : Live(k) /\ Idle(k)}
    <3>1. Detach(GC, K, OwnersOf(K)) /\ running' = running /\ pc[GC] # "cleanup"
      BY <2>1 DEF ReapIdle, system
    <3>2. /\ GC \in Threads /\ K \in SUBSET Keys
          /\ OwnersOf(K) \in SUBSET Jobs /\ OwnersOf(K) \subseteq BoundTo(K)
      BY DEF Threads, OwnersOf, BoundTo
    <3> QED BY <3>1, <3>2, DetachInv
  <2>2. CASE SweepList \/ SweepSnapshot \/ SweepLook \/ SweepDelete \/ SweepDone
    BY <2>2 DEF IInv, TypeOK, SweepList, SweepSnapshot, Condemn, SweepLook, SweepDelete, SweepDone, registry, system,
                HeldOnlyInCleanup, OwnersAreAliases, NoLostEncoder, HeldIsDetached, HeldProcs
  <2> QED BY <1>4, <2>1, <2>2 DEF GCStep
<1>5. ASSUME NEW p \in Procs, ProcExits(p)
      PROVE  (HeldOnlyInCleanup /\ OwnersAreAliases /\ NoLostEncoder /\ HeldIsDetached)'
  BY <1>5 DEF IInv, ProcExits, registry, threads, HeldOnlyInCleanup, OwnersAreAliases,
              NoLostEncoder, HeldIsDetached, HeldProcs
<1>6. ASSUME NEW k \in Keys, SeenAges(k) \/ DirAges(k)
      PROVE  (HeldOnlyInCleanup /\ OwnersAreAliases /\ NoLostEncoder /\ HeldIsDetached)'
  BY <1>6 DEF IInv, SeenAges, DirAges, registry, system, threads, HeldOnlyInCleanup,
              OwnersAreAliases, NoLostEncoder, HeldIsDetached, HeldProcs
<1>7. CASE UNCHANGED vars
  BY <1>7 DEF IInv, vars, registry, system, threads, HeldOnlyInCleanup, OwnersAreAliases,
              NoLostEncoder, HeldIsDetached, HeldProcs
<1> QED
  BY <1>1, <1>2, <1>3, <1>4, <1>5, <1>6, <1>7, EnsureJobStep, ThreadInvStep DEF Next, Request

LEMMA InvAlways == Spec => []IInv
<1>1. Init => IInv
  BY ConstantsDistinct DEF Init, IInv, TypeOK, HeldOnlyInCleanup, OwnersAreAliases,
                           NoLostEncoder, HeldIsDetached, HeldProcs
<1> QED BY <1>1, InvStep, PTL DEF Spec

\* The two ownership maps never disagree (OwnersAreAliases).
THEOREM OwnershipAgrees == Spec => []OwnersAreAliases
<1>1. IInv => OwnersAreAliases
  BY DEF IInv
<1> QED BY <1>1, InvAlways, PTL

\* Every running encoder stays reachable by the code that ends it (NoLostEncoder).
THEOREM EncodersNeverLost == Spec => []NoLostEncoder
<1>1. IInv => NoLostEncoder
  BY DEF IInv
<1> QED BY <1>1, InvAlways, PTL

\* No request can attach to an encoder that is being ended (HeldIsDetached).
THEOREM DetachedStaysDetached == Spec => []HeldIsDetached
<1>1. IInv => HeldIsDetached
  BY DEF IInv
<1> QED BY <1>1, InvAlways, PTL

----------------------------------------------------------------------------
(* The sweep deletes from a stale listing with a stale snapshot.  What      *)
(* makes that safe: an encoder that became live after the snapshot rebuilt  *)
(* its directory, which is too young for the rest of the pass.              *)
LateEncodersAreYoung ==
    pc[GC] \in {"sweep", "rmtree"} => \A k \in Keys : Live(k) /\ k \notin live => dir[k] # "old"

LEMMA LateStep == TypeOK /\ LateEncodersAreYoung /\ [Next]_vars => LateEncodersAreYoung'
<1> SUFFICES ASSUME TypeOK, LateEncodersAreYoung, [Next]_vars
             PROVE  LateEncodersAreYoung'
  OBVIOUS
<1> USE ConstantsDistinct DEF LateEncodersAreYoung, Live
<1>0. GC \in Threads /\ \A t \in Clients : t \in Threads /\ t # GC
  BY DEF Threads
<1>1. ASSUME NEW t \in Clients, NEW j \in Jobs, NEW k \in Keys, EnsureJob(t, j, k)
      PROVE  LateEncodersAreYoung'
  <2>1. CASE Refresh(t, j, k)
    BY <2>1 DEF Refresh, system, threads
  <2>2. CASE Attach(t, j, k)
    BY <1>0, <2>2 DEF TypeOK, Attach, Unlock, system
  <2>3. CASE Spawn(t, j, k)
    <3>1. pc'[GC] = pc[GC] /\ live' = live
      BY <1>0, <2>3 DEF TypeOK, Spawn, Unlock
    <3>2. \A l \in Keys \ {k} : Live(l)' => Live(l)
      BY <2>3 DEF TypeOK, Spawn, FreshProcs
    <3>3. dir'[k] = "fresh" /\ \A l \in Keys \ {k} : dir'[l] = dir[l]
      BY <2>3 DEF TypeOK, Spawn
    <3> QED BY <3>1, <3>2, <3>3
  <2>4. CASE SpawnFails(t, j, k)
    BY <2>4 DEF TypeOK, SpawnFails, threads
  <2> QED BY <1>1, <2>1, <2>2, <2>3, <2>4 DEF EnsureJob
<1>2. ASSUME NEW t \in Clients, StopAll(t)
      PROVE  LateEncodersAreYoung'
  BY <1>0, <1>2 DEF TypeOK, StopAll, system
<1>3. ASSUME NEW t \in Threads, ThreadStep(t)
      PROVE  LateEncodersAreYoung'
  BY <1>0, <1>3 DEF TypeOK, ThreadStep, StopIfOrphaned, StopWorkload, Detach, EndProc, RemoveDir,
                    CleanedUp, registry, system, threads
<1>4. CASE GCStep
  BY <1>0, <1>4 DEF TypeOK, GCStep, ReapIdle, SweepList, SweepSnapshot, Condemn, SweepLook, SweepDelete, SweepDone,
                    Detach, registry, system
<1>5. ASSUME NEW p \in Procs, ProcExits(p)
      PROVE  LateEncodersAreYoung'
  BY <1>5 DEF ProcExits, registry, threads
<1>6. ASSUME NEW k \in Keys, SeenAges(k) \/ DirAges(k)
      PROVE  LateEncodersAreYoung'
  BY <1>6 DEF TypeOK, SeenAges, DirAges, registry, system, threads
<1>7. CASE UNCHANGED vars
  BY <1>7 DEF vars, registry, system, threads
<1>8. ASSUME NEW j \in Jobs, Touch(j)
      PROVE  LateEncodersAreYoung'
  BY <1>8 DEF Touch, system, threads
<1>9. ASSUME NEW t \in Clients, NEW j \in Jobs, Stop(t, j)
      PROVE  LateEncodersAreYoung'
  BY <1>0, <1>9 DEF TypeOK, Stop, system
<1> QED
  BY <1>1, <1>2, <1>3, <1>4, <1>5, <1>6, <1>7, <1>8, <1>9 DEF Next, Request

\* The sweep never condemns the directory of a live encoder (SweepSparesLive).
THEOREM SweepIsSafe == Spec => SweepSparesLive
<1> DEFINE SparesLive == pc[GC] = "sweep" /\ pc'[GC] = "rmtree" => ~Live(target'[GC])
<1>1. TypeOK /\ LateEncodersAreYoung /\ [Next]_vars => [SparesLive]_vars
  <2> SUFFICES ASSUME TypeOK, LateEncodersAreYoung, Next, pc[GC] = "sweep", pc'[GC] = "rmtree"
               PROVE  ~Live(target'[GC])
    OBVIOUS
  <2>0. GC \in Threads /\ \A t \in Clients : t \in Threads /\ t # GC
    BY ConstantsDistinct DEF Threads
  <2>1. SweepLook
    <3>1. ASSUME NEW t \in Clients, Request(t) PROVE FALSE
      BY <2>0, <3>1 DEF TypeOK, Request, EnsureJob, Refresh, Attach, Spawn, SpawnFails, Unlock, Stop, StopAll, threads
    <3>2. ASSUME NEW t \in Threads, ThreadStep(t) PROVE FALSE
      BY <2>0, <3>2 DEF TypeOK, ThreadStep, StopIfOrphaned, StopWorkload, Detach, EndProc, RemoveDir, CleanedUp, threads
    <3>3. CASE GCStep
      BY <2>0, <3>3 DEF TypeOK, GCStep, ReapIdle, SweepList, SweepSnapshot, SweepDelete, SweepDone, Detach
    <3>4. ASSUME NEW j \in Jobs, Touch(j) PROVE FALSE
      BY <3>4 DEF Touch, threads
    <3>5. ASSUME NEW p \in Procs, ProcExits(p) PROVE FALSE
      BY <3>5 DEF ProcExits, threads
    <3>6. ASSUME NEW k \in Keys, SeenAges(k) \/ DirAges(k) PROVE FALSE
      BY <3>6 DEF SeenAges, DirAges, threads
    <3> QED BY <3>1, <3>2, <3>3, <3>4, <3>5, <3>6 DEF Next
  <2> QED BY <2>0, <2>1 DEF SweepLook, Condemn, TypeOK, LateEncodersAreYoung
<1>2. Init => LateEncodersAreYoung
  BY DEF Init, LateEncodersAreYoung, Threads
<1> QED BY <1>1, <1>2, LateStep, TypeCorrect, PTL DEF Spec, SweepSparesLive
=============================================================================
