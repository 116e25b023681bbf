----------------------------- MODULE ServerParts -----------------------------
(* Seven parts of the server that share no state: a behaviour of the whole is  *)
(* one of any of them, and what belongs to the others stays Off.              *)
EXTENDS Naturals, FiniteSets

CONSTANTS
    Nothing, Off,
    Clients, Ids, Jobs, ActiveWindow, Retention, SessionsUntil,                 \* PlaybackSessions
    Browsers, Accounts, Secrets, SessionTTL, AccessUntil,                       \* LibraryAccess
    Addresses, Limit, Window, LimiterUntil,                                     \* RateLimiter
    Sources, Players, Hosts, Configs, Nodes, DefaultNode,                       \* TranscodePipeline
    Admins, Accelerators, ProfileIds, Values, TestsTTL, MaxSaves, AdminUntil,   \* TranscodingAdmin
    Threads, Files, FoundKeep, FontsKeep, Work, MaxAsks,                        \* EmbeddedAss
    Requests, Places, OutsidePlaces, MaxRedirects, Origins                      \* MediaProxy

VARIABLES
    part,
    now, sessions, jobs, used, conv, calls,
    time, configured, file, seen, visits, cookie, minted, token, hurt,
    limiterTime, hits, given, relayed,
    host, config, backend, lost, job,
    adminTime, adminHost, cache, adminConfig, requests, kept, saves,
    found, lock, working, assUsed, ready, dir, done, doubt, th, asks,
    free, rq, refused

PS == INSTANCE PlaybackSessions WITH Window <- ActiveWindow, MaxTime <- SessionsUntil
LA == INSTANCE LibraryAccess WITH TTL <- SessionTTL, MaxTime <- AccessUntil
RL == INSTANCE RateLimiter WITH MaxTime <- LimiterUntil, time <- limiterTime
TP == INSTANCE TranscodePipeline WITH Clients <- Players
TA == INSTANCE TranscodingAdmin WITH
        Hosts <- Accelerators, TTL <- TestsTTL, MaxTime <- AdminUntil,
        time <- adminTime, host <- adminHost, config <- adminConfig, calls <- requests
EA == INSTANCE EmbeddedAss WITH used <- assUsed
MP == INSTANCE MediaProxy

sessionVars == <<now, sessions, jobs, used, conv, calls>>
accessVars == <<time, configured, file, seen, visits, cookie, minted, token, hurt>>
limiterVars == <<limiterTime, hits, given, relayed>>
pipeVars == <<host, config, backend, lost, job>>
adminVars == <<adminTime, adminHost, cache, adminConfig, requests, kept, saves>>
assVars == <<found, lock, working, assUsed, ready, dir, done, doubt, th, asks>>
proxyVars == <<free, rq, refused>>
allVars == <<part, sessionVars, accessVars, limiterVars, pipeVars, adminVars, assVars, proxyVars>>

Init ==
    /\ part \in {"sessions", "access", "limiter", "pipeline", "admin", "ass", "proxy"}
    /\ IF part = "sessions" THEN PS!Init ELSE now = Off /\ sessions = Off /\ jobs = Off /\ used = Off /\ conv = Off /\ calls = Off
    /\ IF part = "access" THEN LA!Init ELSE time = Off /\ configured = Off /\ file = Off /\ seen = Off /\ visits = Off /\ cookie = Off /\ minted = Off /\ token = Off /\ hurt = Off
    /\ IF part = "limiter" THEN RL!Init ELSE limiterTime = Off /\ hits = Off /\ given = Off /\ relayed = Off
    /\ IF part = "pipeline" THEN TP!Init ELSE host = Off /\ config = Off /\ backend = Off /\ lost = Off /\ job = Off
    /\ IF part = "admin" THEN TA!Init ELSE adminTime = Off /\ adminHost = Off /\ cache = Off /\ adminConfig = Off /\ requests = Off /\ kept = Off /\ saves = Off
    /\ IF part = "ass" THEN EA!Init ELSE found = Off /\ lock = Off /\ working = Off /\ assUsed = Off /\ ready = Off /\ dir = Off /\ done = Off /\ doubt = Off /\ th = Off /\ asks = Off
    /\ IF part = "proxy" THEN MP!Init ELSE free = Off /\ rq = Off /\ refused = Off

Sessions ==
    /\ part = "sessions" /\ PS!Next
    /\ UNCHANGED <<part, accessVars, limiterVars, pipeVars, adminVars, assVars, proxyVars>>
Access ==
    /\ part = "access" /\ LA!Next
    /\ UNCHANGED <<part, sessionVars, limiterVars, pipeVars, adminVars, assVars, proxyVars>>
Limiter ==
    /\ part = "limiter" /\ RL!Next
    /\ UNCHANGED <<part, sessionVars, accessVars, pipeVars, adminVars, assVars, proxyVars>>
Pipeline ==
    /\ part = "pipeline" /\ TP!Next
    /\ UNCHANGED <<part, sessionVars, accessVars, limiterVars, adminVars, assVars, proxyVars>>
Admin ==
    /\ part = "admin" /\ TA!Next
    /\ UNCHANGED <<part, sessionVars, accessVars, limiterVars, pipeVars, assVars, proxyVars>>
Ass ==
    /\ part = "ass" /\ EA!Next
    /\ UNCHANGED <<part, sessionVars, accessVars, limiterVars, pipeVars, adminVars, proxyVars>>
Proxy ==
    /\ part = "proxy" /\ MP!Next
    /\ UNCHANGED <<part, sessionVars, accessVars, limiterVars, pipeVars, adminVars, assVars>>
Next == Sessions \/ Access \/ Limiter \/ Pipeline \/ Admin \/ Ass \/ Proxy

Spec == Init /\ [][Next]_allVars

----------------------------------------------------------------------------
\* The values of the variables of the part that runs have their types.
TypeOK ==
    CASE part = "sessions" -> PS!TypeOK
      [] part = "access" -> LA!TypeOK
      [] part = "limiter" -> RL!TypeOK
      [] part = "pipeline" -> TP!TypeOK
      [] part = "admin" -> TA!TypeOK
      [] part = "ass" -> EA!TypeOK
      [] part = "proxy" -> MP!TypeOK

\* PlaybackSessions: a job has one session that can play, and a session nobody
\* has open is not shown as playing.
SessionsConsistent == part = "sessions" => PS!SessionsConsistent

\* LibraryAccess: a session that was given out is there until it expires or signs out.
SessionsKept == part = "access" => LA!SessionsKept

\* RateLimiter: no address is relayed more often than the limit within a window.
LimitHolds == part = "limiter" => RL!LimitHolds

\* TranscodePipeline: every stage of the command gets its frames where it takes them.
PipelineConnects == part = "pipeline" => TP!PipelineConnects

\* TranscodePipeline: the wrapper changes the video pipeline of a copy, and nothing else.
RewriteIsConfined == part = "pipeline" => TP!RewriteIsConfined

\* TranscodePipeline: HDR is mapped, and a copy is of a direct codec.
PlayerCanShow == part = "pipeline" => TP!PlayerCanShow

\* TranscodePipeline: what the log says is what runs.
ReportIsTrue == part = "pipeline" => TP!ReportIsTrue

\* TranscodePipeline: a copy is never promoted (not kept by the code).
NeverPromoted == part = "pipeline" => TP!NeverPromoted

\* TranscodingAdmin: the hardware page shows fresh tests.
PageIsFresh == part = "admin" => TA!ShownIsFresh

\* EmbeddedAss: a font that is sent is there, and the work is bounded.
FontsAreThere == part = "ass" => EA!FontsAreThere

\* MediaProxy: no place is lost or made up.
PlacesAreKept == part = "proxy" => MP!PlacesAreKept

\* MediaProxy: credentials go to the origin they were meant for, until it is left.
CredentialsStay == part = "proxy" => MP!CredentialsStay

\* TranscodingAdmin: what was saved stays (not kept by the code).
SettingsKept == part = "admin" => TA!SettingsKept
=============================================================================
