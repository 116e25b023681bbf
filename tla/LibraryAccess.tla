----------------------------- MODULE LibraryAccess -----------------------------
(****************************************************************************)
(* Who may enter the library: the account that owns this server, the sessions *)
(* of its browsers and the token of the addon, in one state file              *)
(* (library/session.py), behind the routes that sign in and out               *)
(* (library/api.py).  api.strem.io is external: it names the account or       *)
(* refuses it.                                                              *)
(****************************************************************************)
EXTENDS Naturals, FiniteSets

CONSTANTS
    Browsers, Accounts, Secrets,  \* Secrets: session ids and tokens; bound of the mints
    Nothing,
    TTL,                          \* SESSION_TTL
    MaxTime                       \* bound of the clock

VARIABLES
    time,
    configured, \* STREMIOSRV_LIBRARY_OWNER, or Nothing
    file,      \* library-ui.json: owner, expiry of each session, addon token
    seen,      \* under session._lock, what its holder has loaded
    visits,    \* the route each browser is in
    cookie,    \* the session each browser holds
    minted,    \* history: account and expiry of every session, whether it signed out
    token,     \* history: the token shown last
    hurt       \* history: the file was lost, or a configured owner replaced the pin

accessVars == <<time, configured, file, seen, visits, cookie, minted, token, hurt>>

Empty == [owner |-> Nothing, sessions |-> [s \in {} |-> 0], token |-> Nothing]
Away == [pc |-> "away", account |-> Nothing]
pcs == {"away", "claim", "session", "verify", "drop", "ensure", "reset"}
Locked == {"claim", "session", "verify", "drop", "ensure", "reset"}
used == DOMAIN minted \cup {file.token, token}

TypeOK ==
    /\ time \in 0..MaxTime
    /\ configured \in Accounts \cup {Nothing}
    /\ file.owner \in Accounts \cup {Nothing} /\ file.token \in Secrets \cup {Nothing}
    /\ DOMAIN file.sessions \subseteq DOMAIN minted
    /\ \A s \in DOMAIN file.sessions : file.sessions[s] \in 0..MaxTime + TTL
    /\ visits \in [Browsers -> [pc : pcs, account : Accounts \cup {Nothing}]]
    /\ cookie \in [Browsers -> DOMAIN minted \cup {Nothing}]

Init ==
    /\ configured \in Accounts \cup {Nothing}
    /\ time = 0 /\ file = Empty /\ seen = [b \in Browsers |-> Nothing]
    /\ visits = [b \in Browsers |-> Away] /\ cookie = [b \in Browsers |-> Nothing]
    /\ minted = [s \in {} |-> Nothing] /\ token = Nothing
    /\ hurt = FALSE

----------------------------------------------------------------------------
Goto(b, pc) == visits' = [visits EXCEPT ![b].pc = pc]
Leave(b) == visits' = [visits EXCEPT ![b] = Away]
With(f, x, v) == [y \in DOMAIN f \cup {x} |-> IF y = x THEN v ELSE f[y]]
Without(f, S) == [x \in DOMAIN f \ S |-> f[x]]

\* A browser opens a route: one that signs in, once api.strem.io has named its
\* account, one behind require_session, or the one that signs out.
Visit(b) ==
    /\ visits[b] = Away
    /\ \E pc \in {"claim", "verify", "drop"}, a \in Accounts \cup {Nothing} :
         /\ a = Nothing <=> pc \in {"verify", "drop"}
         /\ visits' = [visits EXCEPT ![b] = [pc |-> pc, account |-> a]]
    /\ UNCHANGED <<time, configured, file, seen, cookie, minted, token, hurt>>

\* mutant: without the lock
LoadUnlocked(b) ==
    /\ visits[b].pc \in Locked /\ seen[b] = Nothing
    /\ seen' = [seen EXCEPT ![b] = file]
    /\ UNCHANGED <<time, configured, file, visits, cookie, minted, token, hurt>>

\* _lock is taken, and the file loaded: the holder is the one that has loaded it
LoadState(b) ==
    /\ visits[b].pc \in Locked
    /\ \A c \in Browsers : seen[c] = Nothing
    /\ seen' = [seen EXCEPT ![b] = file]
    /\ UNCHANGED <<time, configured, file, visits, cookie, minted, token, hurt>>

Holds(b, pc) == visits[b].pc = pc /\ seen[b] # Nothing
Release(b) == seen' = [seen EXCEPT ![b] = Nothing]
\* save_state, and the lock is left
SaveState(b, state) == file' = state /\ Release(b)

OwnerMatches(b, a) == IF configured # Nothing THEN a = configured ELSE seen[b].owner \in {a, Nothing}

\* the first to sign in claims the server; a configured owner replaces the pin
ClaimOwner(b) ==
    /\ Holds(b, "claim")
    /\ LET a == visits[b].account IN
         IF OwnerMatches(b, a)
         THEN /\ SaveState(b, IF seen[b].owner = a THEN file ELSE [seen[b] EXCEPT !.owner = a])
              /\ Goto(b, "session")
              /\ hurt' = (hurt \/ seen[b].owner \notin {a, Nothing})
         ELSE UNCHANGED file /\ Release(b) /\ Leave(b) /\ UNCHANGED hurt
    /\ UNCHANGED <<time, configured, cookie, minted, token>>

NewSession(b) ==
    /\ Holds(b, "session")
    /\ \E s \in Secrets \ used :
         /\ SaveState(b, [seen[b] EXCEPT !.sessions = With(seen[b].sessions, s, time + TTL)])
         /\ cookie' = [cookie EXCEPT ![b] = s]
         /\ minted' = With(minted, s, [account |-> visits[b].account, expires |-> time + TTL, out |-> FALSE])
    /\ Leave(b)
    /\ UNCHANGED <<time, configured, token, hurt>>

\* expired sessions are reaped; a live one lets the browser ask for the addon
VerifySession(b) ==
    /\ Holds(b, "verify")
    /\ LET expired == {s \in DOMAIN seen[b].sessions : seen[b].sessions[s] <= time} IN
         /\ SaveState(b, IF expired = {} THEN file ELSE [seen[b] EXCEPT !.sessions = Without(seen[b].sessions, expired)])
         /\ IF cookie[b] \in DOMAIN seen[b].sessions \ expired
            THEN Goto(b, "ensure") \/ Goto(b, "reset") \/ Leave(b)
            ELSE Leave(b)
    /\ UNCHANGED <<time, configured, cookie, minted, token, hurt>>

DropSession(b) ==
    /\ Holds(b, "drop")
    /\ IF cookie[b] \in DOMAIN seen[b].sessions
       THEN /\ SaveState(b, [seen[b] EXCEPT !.sessions = Without(seen[b].sessions, {cookie[b]})])
            /\ minted' = [minted EXCEPT ![cookie[b]].out = TRUE]
       ELSE UNCHANGED file /\ Release(b) /\ UNCHANGED minted
    /\ cookie' = [cookie EXCEPT ![b] = Nothing]
    /\ Leave(b)
    /\ UNCHANGED <<time, configured, token, hurt>>

\* the token is minted on first use, and anew on a reset
AddonToken(b) ==
    /\ \E pc \in {"ensure", "reset"} : Holds(b, pc)
    /\ IF visits[b].pc = "ensure" /\ seen[b].token # Nothing
       THEN UNCHANGED file /\ Release(b) /\ token' = seen[b].token
       ELSE \E t \in Secrets \ used : SaveState(b, [seen[b] EXCEPT !.token = t]) /\ token' = t
    /\ Leave(b)
    /\ UNCHANGED <<time, configured, cookie, minted, hurt>>

----------------------------------------------------------------------------
\* The process dies: what is in memory goes, the file stays whole, and it may be
\* configured anew; or the file is lost, and reads as empty.
Restart ==
    /\ configured' \in Accounts \cup {Nothing}
    /\ visits' = [b \in Browsers |-> Away] /\ seen' = [b \in Browsers |-> Nothing]
    /\ UNCHANGED <<time, file, cookie, minted, token, hurt>>

LoseFile ==
    /\ ~hurt /\ hurt' = TRUE
    /\ file' = Empty
    /\ UNCHANGED <<time, configured, seen, visits, cookie, minted, token>>

Tick == time < MaxTime /\ time' = time + 1
        /\ UNCHANGED <<configured, file, seen, visits, cookie, minted, token, hurt>>

Next ==
    \/ \E b \in Browsers :
         \/ Visit(b) \/ LoadState(b) \/ ClaimOwner(b) \/ NewSession(b)
         \/ VerifySession(b) \/ DropSession(b) \/ AddonToken(b)
    \/ Restart \/ LoseFile \/ Tick

Spec == Init /\ [][Next]_accessVars

----------------------------------------------------------------------------
\* Unless the file was lost or the owner replaced, every session that was given
\* out is there until it expires or signs out, whatever other sign-ins, sign-outs
\* and resets save at the same time; each is the pinned owner's, and the addon is
\* served by the token that was shown last.
SessionsKept ==
    ~hurt =>
      /\ \A s \in DOMAIN file.sessions : minted[s].account = file.owner
      /\ \A s \in DOMAIN minted : minted[s].expires > time /\ ~minted[s].out => s \in DOMAIN file.sessions
      /\ file.token = token
=============================================================================
