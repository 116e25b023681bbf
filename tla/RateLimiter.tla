------------------------------ MODULE RateLimiter ------------------------------
(****************************************************************************)
(* The limit on sign-in attempts that are relayed to api.strem.io, by source  *)
(* address (library/ratelimit.py).  One call is one step: it holds the lock.  *)
(* The attempts of an address that are let through are numbered in the order  *)
(* of the lock: a list of attempts maps their numbers to times.              *)
(****************************************************************************)
EXTENDS Naturals, FiniteSets

CONSTANTS
    Addresses,
    Limit, Window,
    MaxTime         \* bound of the clock

VARIABLES
    time,
    hits,           \* _hits
    given,          \* how many attempts of each address were let through
    relayed         \* history: when each address was let through, within a window

limiterVars == <<time, hits, given, relayed>>

TypeOK ==
    /\ time \in 0..MaxTime
    /\ given \in [Addresses -> Nat]
    /\ DOMAIN hits \subseteq Addresses
    /\ \A a \in DOMAIN hits : Cardinality(DOMAIN hits[a]) \in 1..Limit /\ \A n \in DOMAIN hits[a] : hits[a][n] \in 0..time

Init ==
    /\ time = 0
    /\ hits = [a \in {} |-> <<>>]
    /\ given = [a \in Addresses |-> 0]
    /\ relayed = [a \in Addresses |-> <<>>]

Recent(times, t) == [n \in {m \in DOMAIN times : times[m] + Window > t} |-> times[n]]
Added(times, n, t) == [m \in DOMAIN times \cup {n} |-> IF m = n THEN t ELSE times[m]]

\* the clock is read before the lock is taken
Clock == {time} \cup {t \in 0..time : t + 1 = time}

\* mutant: an address whose first attempt is old is forgotten
ReapedByFirst(t) ==
    [a \in {b \in DOMAIN hits : \E n \in DOMAIN hits[b] : hits[b][n] + Window > t
                                                          /\ \A m \in DOMAIN hits[b] : n <= m} |-> hits[a]]

\* an address whose last attempt is old, or that has none, is forgotten
Reaped(t) ==
    [a \in {b \in DOMAIN hits : \E n \in DOMAIN hits[b] : hits[b][n] + Window > t
                                                          /\ \A m \in DOMAIN hits[b] : m <= n} |-> hits[a]]

\* an attempt of a; one that is refused is not recorded
Allow(a) ==
    \E t \in Clock :
      LET mine == IF a \in DOMAIN Reaped(t) THEN Recent(Reaped(t)[a], t) ELSE <<>>
          allowed == Cardinality(DOMAIN mine) < Limit
          left == IF allowed THEN Added(mine, given[a], t) ELSE mine
      IN /\ hits' = [b \in DOMAIN Reaped(t) \cup {a} |-> IF b = a THEN left ELSE Reaped(t)[b]]
         /\ given' = IF allowed THEN [given EXCEPT ![a] = @ + 1] ELSE given
         /\ relayed' = IF allowed THEN [relayed EXCEPT ![a] = Added(Recent(@, time), given[a], time)] ELSE relayed
         /\ UNCHANGED time

Tick == time < MaxTime /\ time' = time + 1 /\ UNCHANGED <<hits, given, relayed>>

Next == Tick \/ \E a \in Addresses : Allow(a)

Spec == Init /\ [][Next]_limiterVars

----------------------------------------------------------------------------
\* No address is relayed more often than the limit within a window less the time
\* an attempt may wait for the lock, whatever order the lock is taken in and
\* although addresses that were not heard of lately are forgotten.
LimitHolds == \A a \in Addresses : Cardinality(DOMAIN Recent(relayed[a], time + 1)) <= Limit

\* What the code does not keep: the limit within a whole window.  Attempts are
\* not in the order of their times, so the last may be old when another is not.
LimitIsExact == \A a \in Addresses : Cardinality(DOMAIN Recent(relayed[a], time)) <= Limit
=============================================================================
