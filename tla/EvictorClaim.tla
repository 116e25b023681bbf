----------------------------- MODULE EvictorClaim -----------------------------
(****************************************************************************)
(* The claim of a cache root (stremiosrv/cache.py): servers that were given   *)
(* one directory by mistake agree through a file on which of them evicts.     *)
(* Nothing locks the file: it is read, judged and written in steps, and a     *)
(* pass may take any time.                                                    *)
(****************************************************************************)
EXTENDS Naturals, FiniteSets

CONSTANTS
    Servers,        \* each on a host of its own
    Interval,       \* sleep between two passes
    StaleAfter,     \* age at which a claim is void
    MaxTime,        \* bound of the clock
    Nobody          \* no claim, or one that cannot be read

VARIABLES
    time,
    claim,          \* .evictor-owner
    loop,           \* run_evictor in each server
    muddled         \* history: a claim was not written, or over another's temporary file

claimVars == <<time, claim, loop, muddled>>

\* met: history, the servers that were between reading and writing at the same time
Asleep == [pc |-> "sleep", wake |-> time + Interval, saw |-> Nobody, beat |-> 0, met |-> {}]

TypeOK ==
    /\ time \in 0..MaxTime
    /\ claim # Nobody => claim.host \in Servers /\ claim.heartbeat <= time
    /\ \A s \in Servers : loop[s].pc \in {"dead", "sleep", "judge", "write", "pass"} /\ loop[s].met \subseteq Servers

Init ==
    /\ time = 0 /\ claim = Nobody /\ muddled = FALSE
    /\ loop = [s \in Servers |-> Asleep]

Claiming(s) == loop[s].pc \in {"judge", "write"}
Go(s, fields) == loop' = [loop EXCEPT ![s] = fields]

----------------------------------------------------------------------------
\* the loop wakes up, and evictor_may_run reads the claim
ReadOwner(s) ==
    /\ loop[s].pc = "sleep" /\ loop[s].wake <= time
    /\ LET others == {t \in Servers \ {s} : Claiming(t)} IN
         loop' = [t \in Servers |->
                    IF t = s THEN [loop[s] EXCEPT !.pc = "judge", !.saw = claim, !.met = others]
                    ELSE IF t \in others THEN [loop[t] EXCEPT !.met = @ \cup {s}] ELSE loop[t]]
    /\ UNCHANGED <<time, claim, muddled>>

\* mutant: a claim is void after one interval
RivalUnlessDue(s) ==
    loop[s].saw # Nobody /\ loop[s].saw.host # s /\ time - loop[s].saw.heartbeat < Interval

\* a claim of another host that is not void yet
Rival(s) ==
    loop[s].saw # Nobody /\ loop[s].saw.host # s /\ time - loop[s].saw.heartbeat <= StaleAfter

\* ... judges it by the clock of that moment: a rival's claim holds this pass off
EvictorMayRun(s) ==
    /\ loop[s].pc = "judge"
    /\ IF Rival(s) THEN Go(s, Asleep) ELSE Go(s, [loop[s] EXCEPT !.pc = "write", !.beat = time])
    /\ UNCHANGED <<time, claim, muddled>>

\* write_owner: best effort, and the pass goes on if it fails.  Two that write at
\* once share the temporary file: what one puts in place the other may have cut.
WriteOwner(s) ==
    /\ loop[s].pc = "write"
    /\ LET torn == \E t \in Servers \ {s} : loop[t].pc = "write" IN
         \E c \in {[host |-> s, heartbeat |-> loop[s].beat], claim} \cup (IF torn THEN {Nobody} ELSE {}) :
           /\ claim' = c
           /\ muddled' = (muddled \/ c # [host |-> s, heartbeat |-> loop[s].beat])
    /\ Go(s, [loop[s] EXCEPT !.pc = "pass"])
    /\ UNCHANGED time

\* the sweep and the eviction are done, or failed
EndPass(s) ==
    /\ loop[s].pc = "pass"
    /\ Go(s, Asleep)
    /\ UNCHANGED <<time, claim, muddled>>

Die(s) ==
    /\ loop[s].pc # "dead"
    /\ Go(s, [Asleep EXCEPT !.pc = "dead"])
    /\ UNCHANGED <<time, claim, muddled>>

\* a new process on the same host: its predecessor's claim is no rival's
Start(s) ==
    /\ loop[s].pc = "dead"
    /\ Go(s, Asleep)
    /\ UNCHANGED <<time, claim, muddled>>

Tick == time < MaxTime /\ time' = time + 1 /\ UNCHANGED <<claim, loop, muddled>>

Next ==
    \/ \E s \in Servers :
         ReadOwner(s) \/ EvictorMayRun(s) \/ WriteOwner(s) \/ EndPass(s) \/ Die(s) \/ Start(s)
    \/ Tick

Spec == Init /\ [][Next]_claimVars

----------------------------------------------------------------------------
\* Two servers evict from one root only if one of them judged the claim while
\* another did, if one of their passes outlived its claim, or if a claim was not written.
OneEvictor ==
    \A s, t \in Servers :
      s # t /\ loop[s].pc = "pass" /\ loop[t].pc = "pass" =>
        \E u \in {s, t} : loop[u].met # {} \/ loop[u].beat + StaleAfter < time \/ muddled

(* What the code does not keep:                                             *)

\* "One cache root, one evictor."
OneEvictorEver ==
    \A s, t \in Servers : loop[s].pc = "pass" /\ loop[t].pc = "pass" => s = t
=============================================================================
