------------------------------ MODULE VpnGateway ------------------------------
(****************************************************************************)
(* The gateway container in whose network namespace the streaming server     *)
(* runs.  A shell supervisor polls the files WebAdmin writes, runs Gluetun    *)
(* while the VPN is enabled, and is its DNS proxy (vpn/entrypoint.sh).        *)
(* WebAdmin writes those files and talks to Gluetun's control server          *)
(* (webadmin/vpn_admin.py, vpn_profiles.py, gluetun_admin.py).                *)
(*                                                                          *)
(* Gluetun is external: once started it closes the firewall, then brings the *)
(* tunnel and its resolver up; it may exit at any time and leaves the         *)
(* firewall as it is.                                                        *)
(****************************************************************************)
EXTENDS Naturals, FiniteSets

CONSTANTS
    Profiles, NoProfile,
    Requests, Nobody,           \* threads of WebAdmin; VPN_LOCK when it is free
    MaxRequests, MaxExits       \* bounds: requests, deaths of Gluetun or the gateway

MaybeProfile == Profiles \cup {NoProfile}

VARIABLES
    dir,        \* each profile: not created yet, complete, or deleted
    mark,       \* active_profile, startup_profile and next_profile
    enabled,    \* the file that asks for the VPN
    pid,        \* VPN_PID: the profile it was started for
    alive,      \* that process runs
    tunnel,     \* its tunnel and resolver are up
    held,       \* its control server was told to keep the tunnel down
    fw,         \* firewall of the namespace
    dns,        \* target of the DNS proxy
    localDns,   \* the direct proxy on 127.0.0.1:53
    sup,        \* the supervisor: pc, and the profile it prepares
    lock,       \* VPN_LOCK
    rq,         \* each request: pc, operation, profile
    off,        \* history: the VPN was disabled since Gluetun was last started
    requests, exits

sysVars == <<pid, alive, tunnel, held, fw, dns, localDns, sup>>
adminVars == <<dir, mark, enabled, lock, rq, requests>>
vars == <<sysVars, adminVars, off, exits>>

Operations == {"connect", "disconnect", "reconnect", "activate", "delete"}
Idle == [pc |-> "idle", op |-> "connect", p |-> NoProfile]

TypeOK ==
    /\ dir \in [Profiles -> {"new", "whole", "deleted"}]
    /\ mark \in [{"active", "startup", "next"} -> MaybeProfile]
    /\ enabled \in BOOLEAN /\ held \in BOOLEAN /\ alive \in BOOLEAN /\ tunnel \in BOOLEAN
    /\ localDns \in BOOLEAN /\ off \in BOOLEAN
    /\ alive => pid \in Profiles
    /\ pid \in MaybeProfile /\ fw \in {"open", "closed"} /\ dns \in {"none", "direct", "vpn"}
    /\ sup \in [pc : {"loop", "drop", "prepare", "spawn", "ready", "direct"}, p : MaybeProfile]
    /\ sup.p # NoProfile <=> sup.pc \in {"drop", "prepare", "spawn"}
    /\ lock \in Requests \cup {Nobody}
    /\ rq \in [Requests -> [pc : {"idle", "mark", "next", "take", "change", "wait", "erase"},
                            op : Operations, p : MaybeProfile]]
    /\ requests \in 0..MaxRequests /\ exits \in 0..MaxExits

Init ==
    /\ dir \in [Profiles -> {"new", "whole"}]
    /\ mark = [m \in {"active", "startup", "next"} |-> NoProfile]
    /\ enabled = FALSE /\ off = TRUE
    /\ pid = NoProfile /\ alive = FALSE /\ tunnel = FALSE /\ held = FALSE
    /\ fw = "open" /\ dns = "direct" /\ localDns = TRUE
    /\ sup = [pc |-> "loop", p |-> NoProfile]
    /\ lock = Nobody
    /\ rq = [r \in Requests |-> Idle]
    /\ requests = 0 /\ exits = 0

----------------------------------------------------------------------------
(* The supervisor.                                                          *)

Sup(pc, p) == sup' = [pc |-> pc, p |-> p]
\* the child is dead, waited for, and forgotten
Reaped == pid' = NoProfile /\ alive' = FALSE /\ tunnel' = FALSE /\ held' = FALSE
supKeeps == <<adminVars, off, exits>>

\* next_profile, else startup_profile, else active_profile
Selected == IF mark["next"] # NoProfile THEN mark["next"]
            ELSE IF mark["startup"] # NoProfile THEN mark["startup"]
            ELSE mark["active"]

\* enabled, a child and a change of connection: the child is ended
Recycle ==
    /\ sup.pc = "loop" /\ enabled
    /\ pid # NoProfile /\ mark["next"] # NoProfile
    /\ Reaped
    /\ dns' = "none"
    /\ UNCHANGED <<fw, localDns, sup, supKeeps>>

\* mutant: whoever is selected is reported, but next_profile is not consumed
SelectKeeps ==
    /\ sup.pc = "loop" /\ enabled /\ pid = NoProfile
    /\ IF Selected = NoProfile
       THEN dns' = "none" /\ UNCHANGED sup
       ELSE Sup("prepare", Selected) /\ UNCHANGED dns
    /\ UNCHANGED <<pid, alive, tunnel, held, fw, localDns, supKeeps>>

\* enabled and no child: a profile is selected, or the loop goes on without
SelectProfile ==
    /\ sup.pc = "loop" /\ enabled /\ pid = NoProfile
    /\ IF Selected = NoProfile
       THEN dns' = "none" /\ UNCHANGED sup
       ELSE Sup(IF mark["next"] # NoProfile THEN "drop" ELSE "prepare", Selected) /\ UNCHANGED dns
    /\ UNCHANGED <<pid, alive, tunnel, held, fw, localDns, supKeeps>>

\* rm next_profile, whatever it names by now
DropNext ==
    /\ sup.pc = "drop"
    /\ mark' = [mark EXCEPT !["next"] = NoProfile]
    /\ Sup("prepare", sup.p)
    /\ UNCHANGED <<dir, enabled, lock, rq, requests, pid, alive, tunnel, held, fw, dns, localDns, off, exits>>

\* every file of the profile must be there; active_profile then names it
PrepareProfile ==
    /\ sup.pc = "prepare"
    /\ IF dir[sup.p] = "whole"
       THEN /\ mark' = [mark EXCEPT !["active"] = sup.p]
            /\ Sup("spawn", sup.p)
            /\ UNCHANGED dns
       ELSE Sup("loop", NoProfile) /\ dns' = "none" /\ UNCHANGED mark
    /\ UNCHANGED <<dir, enabled, lock, rq, requests, pid, alive, tunnel, held, fw, localDns, off, exits>>

\* mutant: the direct resolver keeps its port
SpawnBesideLocal ==
    /\ sup.pc = "spawn"
    /\ dns' = "none"
    /\ pid' = sup.p /\ alive' = TRUE /\ tunnel' = FALSE /\ held' = FALSE
    /\ off' = ~enabled
    /\ Sup("ready", NoProfile)
    /\ UNCHANGED <<fw, localDns, adminVars, exits>>

\* Gluetun has port 53 to itself
StartVpnChild ==
    /\ sup.pc = "spawn"
    /\ dns' = "none" /\ localDns' = FALSE
    /\ pid' = sup.p /\ alive' = TRUE /\ tunnel' = FALSE /\ held' = FALSE
    /\ off' = ~enabled
    /\ Sup("ready", NoProfile)
    /\ UNCHANGED <<fw, adminVars, exits>>

\* the resolver answers, Gluetun has exited, or thirty seconds are over
WaitForResolver ==
    /\ sup.pc = "ready"
    /\ \/ alive /\ tunnel /\ dns' = "vpn" /\ UNCHANGED <<pid, alive, tunnel, held>>
       \/ alive /\ ~tunnel /\ UNCHANGED <<pid, alive, tunnel, held, dns>>
       \/ ~alive /\ Reaped /\ dns' = "none"
    /\ Sup("loop", NoProfile)
    /\ UNCHANGED <<fw, localDns, supKeeps>>

\* mutant: what runs next finds an open network
RetryOpen ==
    /\ sup.pc = "loop" /\ enabled
    /\ pid # NoProfile /\ ~alive
    /\ Reaped
    /\ dns' = "none" /\ fw' = "open"
    /\ UNCHANGED <<localDns, sup, supKeeps>>

\* Gluetun exited while the VPN is enabled: it is retried, never by direct
RetryChild ==
    /\ sup.pc = "loop" /\ enabled
    /\ pid # NoProfile /\ ~alive
    /\ Reaped
    /\ dns' = "none"
    /\ UNCHANGED <<fw, localDns, sup, supKeeps>>

\* disabled, and a child: it is ended, and waited for
StopForDirect ==
    /\ sup.pc = "loop" /\ ~enabled /\ pid # NoProfile
    /\ Reaped
    /\ Sup("direct", NoProfile)
    /\ UNCHANGED <<fw, dns, localDns, supKeeps>>

\* firewall flushed, both proxies direct
RestoreDirectNetwork ==
    /\ sup.pc = "direct"
    /\ fw' = "open" /\ dns' = "direct" /\ localDns' = TRUE
    /\ Sup("loop", NoProfile)
    /\ UNCHANGED <<pid, alive, tunnel, held, supKeeps>>

\* disabled, and no child: only the local proxy is looked after
RecoverLocalDns ==
    /\ sup.pc = "loop" /\ ~enabled /\ pid = NoProfile
    /\ ~localDns /\ localDns' = TRUE
    /\ UNCHANGED <<pid, alive, tunnel, held, fw, dns, sup, supKeeps>>

Supervisor ==
    \/ Recycle \/ SelectProfile \/ DropNext \/ PrepareProfile \/ StartVpnChild
    \/ WaitForResolver \/ RetryChild \/ StopForDirect \/ RestoreDirectNetwork \/ RecoverLocalDns

----------------------------------------------------------------------------
(* Gluetun, and the gateway container.                                      *)

GluetunCloses ==
    /\ alive /\ fw = "open"
    /\ fw' = "closed"
    /\ UNCHANGED <<pid, alive, tunnel, held, dns, localDns, sup, supKeeps>>

GluetunConnects ==
    /\ alive /\ fw = "closed" /\ ~tunnel /\ ~held
    /\ tunnel' = TRUE
    /\ UNCHANGED <<pid, alive, held, fw, dns, localDns, sup, supKeeps>>

Died == exits < MaxExits /\ exits' = exits + 1

GluetunExits ==
    /\ alive /\ Died
    /\ alive' = FALSE /\ tunnel' = FALSE /\ held' = FALSE
    /\ UNCHANGED <<pid, fw, dns, localDns, sup, adminVars, off>>

\* the container restarts with a namespace of its own, in direct mode first
GatewayRestarts ==
    /\ Died
    /\ Reaped
    /\ fw' = "open" /\ dns' = "direct" /\ localDns' = TRUE
    /\ off' = TRUE
    /\ Sup("loop", NoProfile)
    /\ UNCHANGED adminVars

----------------------------------------------------------------------------
(* WebAdmin.                                                                *)

Goto(r, pc) == rq' = [rq EXCEPT ![r].pc = pc]
adminKeeps == <<sysVars, exits>>

\* connect needs an active profile, activate and delete one that exists;
\* reconnect of a disabled VPN is a connect; the active one is not deleted
Accepted(op, p) ==
    /\ op = "connect" => mark["active"] # NoProfile
    /\ op = "reconnect" => enabled
    /\ op = "delete" => mark["active"] # p
    /\ IF op \in {"activate", "delete"} THEN p \in Profiles /\ dir[p] = "whole" ELSE p = NoProfile

Request(r) ==
    /\ rq[r].pc = "idle"
    /\ requests < MaxRequests /\ requests' = requests + 1
    /\ \E op \in Operations, p \in MaybeProfile :
         /\ Accepted(op, p)
         /\ rq' = [rq EXCEPT ![r] = [pc |-> IF op = "activate" THEN "mark"
                                             ELSE IF op = "delete" THEN "erase" ELSE "take",
                                      op |-> op, p |-> p]]
         /\ mark' = IF op = "delete"
                    THEN [m \in DOMAIN mark |-> IF m # "active" /\ mark[m] = p THEN NoProfile ELSE mark[m]]
                    ELSE mark
    /\ UNCHANGED <<dir, enabled, lock, off, adminKeeps>>

\* activate writes active_profile and next_profile before it takes the lock
MarkActive(r) ==
    /\ rq[r].pc = "mark"
    /\ mark' = [mark EXCEPT !["active"] = rq[r].p]
    /\ Goto(r, "next")
    /\ UNCHANGED <<dir, enabled, lock, requests, off, adminKeeps>>

MarkNext(r) ==
    /\ rq[r].pc = "next"
    /\ mark' = [mark EXCEPT !["next"] = rq[r].p]
    /\ Goto(r, "take")
    /\ UNCHANGED <<dir, enabled, lock, requests, off, adminKeeps>>

\* VPN_LOCK is taken at once, or the request is refused
TakeLock(r) ==
    /\ rq[r].pc = "take"
    /\ IF lock = Nobody
       THEN lock' = r /\ Goto(r, "change")
       ELSE rq' = [rq EXCEPT ![r] = Idle] /\ UNCHANGED lock
    /\ UNCHANGED <<dir, mark, enabled, requests, off, adminKeeps>>

\* What Gluetun's control server is told, if it answers: disconnect stops the
\* tunnel, reconnect stops it and, if it answers again, starts it.
Control(op) ==
    \/ op = "disconnect" /\ enabled /\ alive /\ tunnel' = FALSE /\ held' = TRUE
    \/ op = "reconnect" /\ alive /\ tunnel' = FALSE /\ held' \in BOOLEAN
    \/ UNCHANGED <<tunnel, held>>

\* disconnect removes the file, connect and activate write it
Change(r) ==
    /\ rq[r].pc = "change"
    /\ Control(rq[r].op)
    /\ enabled' = CASE rq[r].op = "disconnect" -> FALSE
                    [] rq[r].op = "reconnect" -> enabled
                    [] OTHER -> TRUE
    /\ off' = (off \/ rq[r].op = "disconnect")
    /\ Goto(r, "wait")
    /\ UNCHANGED <<dir, mark, lock, requests, pid, alive, fw, dns, localDns, sup, exits>>

\* the readiness loop ends, with success or after its timeout
Answer(r) ==
    /\ rq[r].pc = "wait"
    /\ lock' = Nobody
    /\ rq' = [rq EXCEPT ![r] = Idle]
    /\ UNCHANGED <<dir, mark, enabled, requests, off, adminKeeps>>

\* the directory of a deleted profile goes after its markers
EraseProfile(r) ==
    /\ rq[r].pc = "erase"
    /\ dir' = [dir EXCEPT ![rq[r].p] = "deleted"]
    /\ rq' = [rq EXCEPT ![r] = Idle]
    /\ UNCHANGED <<mark, enabled, lock, requests, off, adminKeeps>>

\* a new profile is visible when its profile.json, the last file, is written
CreateProfile(p) ==
    /\ dir[p] = "new"
    /\ dir' = [dir EXCEPT ![p] = "whole"]
    /\ mark' \in {mark, [mark EXCEPT !["startup"] = p]}
    /\ UNCHANGED <<enabled, lock, rq, requests, off, adminKeeps>>

\* PUT .../startup, and an update of the profile
SetStartup(p) ==
    /\ dir[p] = "whole"
    /\ requests < MaxRequests /\ requests' = requests + 1
    /\ mark' \in {[mark EXCEPT !["startup"] = p],
                  IF mark["startup"] = p THEN [mark EXCEPT !["startup"] = NoProfile] ELSE mark}
    /\ UNCHANGED <<dir, enabled, lock, rq, off, adminKeeps>>

Work(r) == MarkActive(r) \/ MarkNext(r) \/ TakeLock(r) \/ Change(r) \/ Answer(r) \/ EraseProfile(r)

Next ==
    \/ Supervisor
    \/ GluetunCloses \/ GluetunConnects \/ GluetunExits \/ GatewayRestarts
    \/ \E r \in Requests : Request(r) \/ Work(r)
    \/ \E p \in Profiles : CreateProfile(p) \/ SetStartup(p)

Spec == Init /\ [][Next]_vars

\* The loop of the supervisor goes on, Gluetun gets its tunnel up if it is left
\* alone, and requests are answered.
FairSpec ==
    /\ Spec
    /\ WF_vars(Supervisor) /\ WF_vars(GluetunCloses) /\ WF_vars(GluetunConnects)
    /\ \A r \in Requests : WF_vars(Work(r))

----------------------------------------------------------------------------
\* A failure of Gluetun, of a profile or of a switch never opens the firewall:
\* it opens only after somebody disabled the VPN, or the gateway restarted.
FailClosed == [][fw = "closed" /\ fw' = "open" => off']_vars

\* Port 53 has one owner, Gluetun or the direct proxy, and the proxy other
\* containers ask never points at the mode the gateway has left.
OneResolver ==
    /\ alive => ~localDns
    /\ dns = "vpn" => pid # NoProfile \/ sup.pc = "direct"
    /\ dns = "direct" => pid = NoProfile

\* While the VPN stays enabled with a complete profile selected, and no
\* administrator left Gluetun's tunnel stopped, it comes up again and again
\* behind a closed firewall, however often it fails.
VpnComesUp ==
    <>[](enabled /\ ~held /\ Selected \in {p \in Profiles : dir[p] = "whole"})
        => []<>(alive /\ tunnel /\ fw = "closed")

(* What the code does not keep:                                             *)

\* A VPN that stays disabled leaves the gateway in direct mode.
DisabledGoesDirect == <>[]~enabled => <>[](fw = "open" /\ dns = "direct")
=============================================================================
