------------------------------ MODULE MediaProxy ------------------------------
(****************************************************************************)
(* GET and HEAD /proxy (stremiosrv/api/proxy.py, proxy/upstream.py): the      *)
(* places that bound how many requests run at once, the redirects that are    *)
(* followed within a deadline, a playlist that is read whole, and a body that *)
(* streams until one of its ends closes it.                                   *)
(****************************************************************************)
EXTENDS Naturals, Sequences, FiniteSets

CONSTANTS
    Requests,       \* the requests there may be at once
    Places,         \* MAX_CONCURRENT
    OutsidePlaces,  \* MAX_CONCURRENT_OUTSIDE
    MaxRedirects,
    Origins,
    Nothing

VARIABLES
    free,           \* the semaphores
    rq,             \* what each request does
    refused         \* history: requests of the home network that held a place at the last refusal of one

proxyVars == <<free, rq, refused>>

\* n: places that it has taken, or that a release has still to give back; held: its slot
\* was not released; again: one more call of release is to come; owns: history, the places
\* that are its own; trail: history, the origins it was sent to, and if with credentials.
Idle == [pc |-> "idle", home |-> FALSE, n |-> 0, held |-> FALSE, again |-> FALSE, owns |-> {},
         origin |-> Nothing, creds |-> TRUE, trail |-> <<>>]

TypeOK ==
    /\ free.slots \in 0..Places /\ free.outside \in 0..OutsidePlaces
    /\ \A r \in Requests : rq[r].n \in 0..2 /\ Len(rq[r].trail) <= MaxRedirects + 1

Init ==
    /\ free = [slots |-> Places, outside |-> OutsidePlaces]
    /\ rq = [r \in Requests |-> Idle]
    /\ refused = Nothing

Go(r, fields) == rq' = [rq EXCEPT ![r] = fields]
Holders(pool) == {r \in Requests : pool \in rq[r].owns}

----------------------------------------------------------------------------
(* Admission.                                                               *)

\* the places a client needs, in the order they are taken
Pools(home) == IF home THEN <<"slots">> ELSE <<"outside", "slots">>

Ask(r) ==
    /\ rq[r].pc = "idle"
    /\ \E home \in BOOLEAN, o \in Origins : Go(r, [Idle EXCEPT !.pc = "admit", !.home = home, !.origin = o])
    /\ UNCHANGED <<free, refused>>

\* _admit: one place after another, none of them waited for
Admit(r) ==
    /\ rq[r].pc = "admit"
    /\ LET pools == Pools(rq[r].home)
           pool == pools[rq[r].n + 1]
           all == rq[r].n + 1 = Len(pools)
       IN IF free[pool] = 0
          THEN /\ Go(r, [rq[r] EXCEPT !.pc = "back"])
               /\ refused' = IF rq[r].home THEN Cardinality({u \in Holders("slots") : rq[u].home}) ELSE refused
               /\ UNCHANGED free
          ELSE /\ free' = [free EXCEPT ![pool] = @ - 1]
               /\ Go(r, [rq[r] EXCEPT !.n = @ + 1, !.owns = @ \cup {pool}, !.held = all,
                                      !.pc = IF all THEN "hop" ELSE "admit"])
               /\ UNCHANGED refused

\* after a call of release: the other one, or nothing
Released(s) == IF s.again THEN [s EXCEPT !.pc = "release", !.again = FALSE] ELSE Idle

\* the places are given back in the reverse order, by a refused request or by release
GiveBack(r) ==
    /\ rq[r].pc = "back"
    /\ IF rq[r].n = 0
       THEN Go(r, Released(rq[r])) /\ UNCHANGED free
       ELSE LET pool == Pools(rq[r].home)[rq[r].n] IN
              /\ free' = [free EXCEPT ![pool] = @ + 1]
              /\ Go(r, [rq[r] EXCEPT !.n = @ - 1, !.owns = @ \ {pool}])
    /\ UNCHANGED refused

\* mutant: whoever is done gives the places back
ReleaseAlways(r) ==
    /\ rq[r].pc = "release"
    /\ Go(r, [rq[r] EXCEPT !.held = FALSE, !.pc = "back", !.n = Len(Pools(rq[r].home))])
    /\ UNCHANGED <<free, refused>>

\* _Slot.release: the first of those who are done gives back all the places of the slot
Release(r) ==
    /\ rq[r].pc = "release"
    /\ Go(r, IF rq[r].held THEN [rq[r] EXCEPT !.held = FALSE, !.pc = "back", !.n = Len(Pools(rq[r].home))]
             ELSE Released(rq[r]))
    /\ UNCHANGED <<free, refused>>

\* nothing but its slot is left of a request that is answered
Finish(r, again) ==
    Go(r, [Idle EXCEPT !.pc = "release", !.home = rq[r].home, !.owns = rq[r].owns, !.held = rq[r].held,
                       !.again = again])

----------------------------------------------------------------------------
(* The upstream.                                                            *)

\* mutant: the origin the request was made for gets its credentials again
CredsOfFirst(s, to) == s.trail[1].origin = to

\* a redirect to another origin loses the credentials for good
CredsAfter(s, to) == s.creds /\ s.origin = to

\* open_url, one hop: there was one too many (502), the time is up (504), the destination
\* is refused (403) or cannot be reached (502), or the request is sent
Hop(r) ==
    /\ rq[r].pc = "hop"
    /\ \/ Finish(r, FALSE)
       \/ /\ Len(rq[r].trail) <= MaxRedirects
          /\ Go(r, [rq[r] EXCEPT !.pc = "sent",
                                 !.trail = Append(@, [origin |-> rq[r].origin, creds |-> rq[r].creds])])
    /\ UNCHANGED <<free, refused>>

\* the upstream fails, it redirects, or its headers are there; what an answer to HEAD
\* raises after its slot was released has the route release it again
Answer(r) ==
    /\ rq[r].pc = "sent"
    /\ \/ \E again \in BOOLEAN : Finish(r, again)
       \/ \E to \in Origins :
            Go(r, [rq[r] EXCEPT !.pc = "hop", !.creds = CredsAfter(rq[r], to), !.origin = to])
       \/ \E pc \in {"playlist", "stream"} : Go(r, [rq[r] EXCEPT !.pc = pc])
    /\ UNCHANGED <<free, refused>>

\* _playlist: whole and in time, or 502 and 504, the upstream closed before it is sent;
\* or an error that releases the slot twice
Playlist(r) ==
    /\ rq[r].pc = "playlist"
    /\ \E again \in BOOLEAN : Finish(r, again)
    /\ UNCHANGED <<free, refused>>

\* the body: it ends, its upstream dies or its viewer leaves, and its finalizer comes at
\* any time later; or it was dropped, which its finalizer and then its own end find; or
\* it was never started, and has its finalizer only
Stream(r) ==
    /\ rq[r].pc = "stream"
    /\ \E again \in BOOLEAN : Finish(r, again)
    /\ UNCHANGED <<free, refused>>

Next == \E r \in Requests :
    Ask(r) \/ Admit(r) \/ GiveBack(r) \/ Release(r) \/ Hop(r) \/ Answer(r) \/ Playlist(r) \/ Stream(r)

Spec == Init /\ [][Next]_proxyVars

----------------------------------------------------------------------------
\* However a request ends, and as often as its slot is released, every place is free
\* or the own of one request; and a client of the home network is refused only when
\* its own network holds all that internet clients may not.
PlacesAreKept ==
    /\ free.slots + Cardinality(Holders("slots")) = Places
    /\ free.outside + Cardinality(Holders("outside")) = OutsidePlaces
    /\ refused # Nothing => refused >= Places - OutsidePlaces

\* Whatever the redirects, the credentials of a request are sent to the origin it was
\* made for, and no more once it has been sent to another, that one included.
CredentialsStay ==
    \A r \in Requests : \A j \in DOMAIN rq[r].trail :
      rq[r].trail[j].creds => \A i \in 1..j : rq[r].trail[i].origin = rq[r].trail[1].origin
=============================================================================
