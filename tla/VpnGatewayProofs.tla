--------------------------- MODULE VpnGatewayProofs ---------------------------
(* Proofs about VpnGateway, for any profiles, requests and failures.        *)
EXTENDS VpnGateway, TLAPS

\* what the parameters are: the empty marker names no profile
Parameters == NoProfile \notin Profiles

Typed ==
    /\ mark \in [{"active", "startup", "next"} -> MaybeProfile]
    /\ enabled \in BOOLEAN /\ off \in BOOLEAN
    /\ sup = [pc |-> sup.pc, p |-> sup.p]
    /\ sup.pc \in {"drop", "prepare", "spawn"} => sup.p \in Profiles
    /\ rq \in [Requests -> [pc : {"idle", "mark", "next", "take", "change", "wait", "erase"},
                            op : Operations, p : MaybeProfile]]

\* The supervisor prepares a profile, or restores the direct network, only
\* without a child, and waits for the resolver of one it has started.
OneChild ==
    /\ sup.pc \in {"drop", "prepare", "spawn", "direct"} => pid = NoProfile
    /\ sup.pc = "ready" => pid # NoProfile /\ dns = "none"
    /\ alive => pid # NoProfile

\* A child that was started, even one that has exited, has port 53 to itself.
PortTaken == pid # NoProfile => ~localDns

\* What the DNS proxy asks.
ProxyFollows ==
    /\ dns = "vpn" => pid # NoProfile \/ sup.pc = "direct"
    /\ dns = "direct" => pid = NoProfile

\* A VPN that is not enabled was disabled since Gluetun was last started, and
\* what is about to open the firewall was asked for.
AskedFor ==
    /\ ~enabled => off
    /\ sup.pc = "direct" => off

IInv == Typed /\ OneChild /\ PortTaken /\ ProxyFollows /\ AskedFor

----------------------------------------------------------------------------
LEMMA InitRight ==
    Init => IInv
  <1> SUFFICES ASSUME Init  PROVE  IInv
    OBVIOUS
  <1>1. Idle \in [pc : {"idle", "mark", "next", "take", "change", "wait", "erase"},
                  op : Operations, p : MaybeProfile]
    BY DEF Idle, Operations, MaybeProfile
  <1>2. Typed
    BY <1>1 DEF Init, Typed, MaybeProfile
  <1> QED  BY <1>2 DEF Init, IInv, OneChild, PortTaken, ProxyFollows, AskedFor

\* What the markers select is a profile.
LEMMA SelectsAProfile ==
    ASSUME Typed, Selected # NoProfile
    PROVE  Selected \in Profiles
  BY DEF Typed, Selected, MaybeProfile

LEMMA SupervisorKeeps ==
    ASSUME Parameters, IInv, Supervisor
    PROVE  IInv'
  <1> USE DEF IInv, OneChild, PortTaken, ProxyFollows, AskedFor
  <1>1. CASE Recycle
    BY <1>1 DEF Recycle, Reaped, supKeeps, adminVars, Typed
  <1>2. CASE SelectProfile
    BY <1>2, SelectsAProfile DEF SelectProfile, Sup, supKeeps, adminVars, Typed
  <1>3. CASE DropNext
    BY <1>3 DEF DropNext, Sup, Typed, MaybeProfile
  <1>4. CASE PrepareProfile
    BY <1>4 DEF PrepareProfile, Sup, Typed, MaybeProfile
  <1>5. CASE StartVpnChild
    <2>1. /\ sup.p \in Profiles /\ pid' = sup.p
          /\ sup' = [pc |-> "ready", p |-> NoProfile]
          /\ off' = ~enabled /\ dns' = "none" /\ localDns' = FALSE
          /\ UNCHANGED <<enabled, mark, rq>>
      BY <1>5 DEF StartVpnChild, Sup, adminVars, Typed
    <2> QED  BY <2>1 DEF Parameters, Typed
  <1>6. CASE WaitForResolver
    BY <1>6 DEF WaitForResolver, Sup, Reaped, supKeeps, adminVars, Typed
  <1>7. CASE RetryChild
    BY <1>7 DEF RetryChild, Reaped, supKeeps, adminVars, Typed
  <1>8. CASE StopForDirect
    BY <1>8 DEF StopForDirect, Sup, Reaped, supKeeps, adminVars, Typed
  <1>9. CASE RestoreDirectNetwork
    BY <1>9 DEF RestoreDirectNetwork, Sup, supKeeps, adminVars, Typed
  <1>10. CASE RecoverLocalDns
    BY <1>10 DEF RecoverLocalDns, supKeeps, adminVars, Typed
  <1> QED
    BY <1>1, <1>2, <1>3, <1>4, <1>5, <1>6, <1>7, <1>8, <1>9, <1>10 DEF Supervisor

LEMMA GatewayKeeps ==
    ASSUME IInv, GluetunCloses \/ GluetunConnects \/ GluetunExits \/ GatewayRestarts
    PROVE  IInv'
  <1> USE DEF IInv, OneChild, PortTaken, ProxyFollows, AskedFor, supKeeps, adminVars, Typed
  <1>1. CASE GluetunCloses
    BY <1>1 DEF GluetunCloses
  <1>2. CASE GluetunConnects
    BY <1>2 DEF GluetunConnects
  <1>3. CASE GluetunExits
    BY <1>3 DEF GluetunExits
  <1>4. CASE GatewayRestarts
    BY <1>4 DEF GatewayRestarts, Reaped, Sup
  <1> QED  BY <1>1, <1>2, <1>3, <1>4

\* WebAdmin touches the markers and its requests; the rest it only reads.
LEMMA AdminLeaves ==
    ASSUME IInv, Typed', UNCHANGED <<enabled, off, pid, alive, dns, localDns, sup>>
    PROVE  IInv'
  BY DEF IInv, OneChild, PortTaken, ProxyFollows, AskedFor

LEMMA RequestKeeps ==
    ASSUME IInv, NEW r \in Requests, Request(r)
    PROVE  IInv'
  <1>1. PICK op \in Operations, p \in MaybeProfile :
          /\ rq' = [rq EXCEPT ![r] = [pc |-> IF op = "activate" THEN "mark"
                                              ELSE IF op = "delete" THEN "erase" ELSE "take",
                                       op |-> op, p |-> p]]
          /\ mark' = IF op = "delete"
                     THEN [m \in DOMAIN mark |-> IF m # "active" /\ mark[m] = p THEN NoProfile ELSE mark[m]]
                     ELSE mark
    BY DEF Request
  <1>2. mark' \in [{"active", "startup", "next"} -> MaybeProfile]
    BY <1>1 DEF IInv, Typed, MaybeProfile
  <1>3. UNCHANGED <<enabled, off, pid, alive, dns, localDns, sup>>
    BY DEF Request, adminKeeps, sysVars
  <1>4. Typed'
    BY <1>1, <1>2, <1>3 DEF IInv, Typed
  <1> QED  BY <1>3, <1>4, AdminLeaves

LEMMA WorkKeeps ==
    ASSUME IInv, NEW r \in Requests, Work(r)
    PROVE  IInv'
  <1>1. CASE MarkActive(r) \/ MarkNext(r)
    <2>1. Typed' /\ UNCHANGED <<enabled, off, pid, alive, dns, localDns, sup>>
      BY <1>1 DEF MarkActive, MarkNext, Goto, adminKeeps, sysVars, IInv, Typed
    <2> QED  BY <2>1, AdminLeaves
  <1>2. CASE TakeLock(r) \/ Answer(r) \/ EraseProfile(r)
    <2>1. Typed' /\ UNCHANGED <<enabled, off, pid, alive, dns, localDns, sup>>
      BY <1>2 DEF TakeLock, Answer, EraseProfile, Goto, Idle, Operations, MaybeProfile,
                  adminKeeps, sysVars, IInv, Typed
    <2> QED  BY <2>1, AdminLeaves
  <1>3. CASE Change(r)
    <2>1. /\ UNCHANGED <<mark, pid, alive, dns, localDns, sup>>
          /\ rq' = [rq EXCEPT ![r].pc = "wait"]
          /\ off' = (off \/ rq[r].op = "disconnect")
          /\ enabled' = IF rq[r].op = "disconnect" THEN FALSE
                        ELSE IF rq[r].op = "reconnect" THEN enabled ELSE TRUE
      BY <1>3 DEF Change, Goto
    <2>2. Typed'
      BY <2>1 DEF IInv, Typed
    <2>3. AskedFor'
      BY <2>1 DEF IInv, AskedFor, Typed
    <2> QED  BY <2>1, <2>2, <2>3 DEF IInv, OneChild, PortTaken, ProxyFollows
  <1> QED  BY <1>1, <1>2, <1>3 DEF Work

LEMMA ProfileKeeps ==
    ASSUME IInv, NEW p \in Profiles, CreateProfile(p) \/ SetStartup(p)
    PROVE  IInv'
  <1>1. Typed' /\ UNCHANGED <<enabled, off, pid, alive, dns, localDns, sup>>
    BY DEF CreateProfile, SetStartup, adminKeeps, sysVars, IInv, Typed, MaybeProfile
  <1> QED  BY <1>1, AdminLeaves

LEMMA StepKeeps ==
    ASSUME Parameters, IInv, [Next]_vars
    PROVE  IInv'
  <1>1. CASE UNCHANGED vars
    BY <1>1 DEF vars, sysVars, adminVars, IInv, Typed, OneChild, PortTaken, ProxyFollows, AskedFor
  <1>2. CASE Next
    BY <1>2, SupervisorKeeps, GatewayKeeps, RequestKeeps, WorkKeeps, ProfileKeeps DEF Next
  <1> QED  BY <1>1, <1>2

----------------------------------------------------------------------------
\* Port 53 has one owner, Gluetun or the direct proxy of entrypoint.sh, and the
\* proxy other containers ask never points at the mode the gateway has left.
THEOREM ResolverIsOne ==
    ASSUME Parameters
    PROVE  Spec => []OneResolver
  <1>1. IInv => OneResolver
    BY DEF IInv, OneResolver, OneChild, PortTaken, ProxyFollows
  <1> QED  BY <1>1, InitRight, StepKeeps, PTL DEF Spec

\* A failure of Gluetun, of a profile or of a switch never opens the firewall:
\* restore_direct_network runs only after somebody disabled the VPN.
THEOREM FailsClosed ==
    ASSUME Parameters
    PROVE  Spec => FailClosed
  <1>1. IInv /\ [Next]_vars => [fw = "closed" /\ fw' = "open" => off']_vars
    <2> SUFFICES ASSUME IInv, Next, fw = "closed", fw' = "open"
                 PROVE  off'
      BY DEF vars
    <2>1. CASE Supervisor
      <3>1. RestoreDirectNetwork
        BY <2>1 DEF Supervisor, Recycle, SelectProfile, DropNext, PrepareProfile, StartVpnChild,
                    WaitForResolver, RetryChild, StopForDirect, RecoverLocalDns
      <3> QED  BY <3>1 DEF RestoreDirectNetwork, supKeeps, IInv, AskedFor
    <2>2. CASE GluetunCloses \/ GluetunConnects \/ GluetunExits \/ GatewayRestarts
      BY <2>2 DEF GluetunCloses, GluetunConnects, GluetunExits, GatewayRestarts
    <2>3. fw' = fw
          \/ Supervisor \/ GluetunCloses \/ GluetunConnects \/ GluetunExits \/ GatewayRestarts
      BY DEF Next, Request, Work, MarkActive, MarkNext, TakeLock, Change, Answer, EraseProfile,
             CreateProfile, SetStartup, adminKeeps, sysVars
    <2> QED  BY <2>1, <2>2, <2>3
  <1> QED  BY <1>1, InitRight, StepKeeps, PTL DEF Spec, FailClosed
=============================================================================
