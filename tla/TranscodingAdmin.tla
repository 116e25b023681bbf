--------------------------- MODULE TranscodingAdmin ---------------------------
(****************************************************************************)
(* WebAdmin's transcoding pages: the self-tests that prove what the hardware  *)
(* of the server container can do, their cache, the status of the dashboard   *)
(* (webadmin/transcoding_profiles.py, transcoding_verified_status.py,         *)
(* transcoding_runtime_fix.py), and the settings file that these pages share  *)
(* with the configuration page (webadmin/app.py).  Each request is a thread.  *)
(****************************************************************************)
EXTENDS Naturals, FiniteSets, Sequences

CONSTANTS
    Admins,         \* concurrent requests
    Hosts,          \* what may work: subsets of {"device", "encode", "low_power", "decode10", "nvenc"}
    Nothing,
    ProfileIds,     \* the profiles in the order of their tests, the two codecs of each taken together
    Values,         \* values of a setting, 0 the default
    TTL,            \* age up to which the cached tests are served
    MaxTime,        \* bound of the clock
    MaxSaves        \* bound of the saves

VARIABLES
    time,
    host,           \* the parts of the hardware that work
    cache,          \* PROFILE_CACHE
    config,         \* admin-settings.json
    calls,          \* the request each thread serves
    kept,           \* history: the settings that were saved last
    saves           \* saves so far

adminVars == <<time, host, cache, config, calls, kept, saves>>

Keys == {"quality", "other"}

\* began: its reading of the clock; early: history, the date it read was of tests that
\* are not there yet
Idle == [pc |-> "idle", force |-> FALSE, began |-> 0, early |-> FALSE, found |-> {},
         next |-> 1, read |-> Nothing]

TypeOK ==
    /\ time \in TTL..MaxTime /\ host \in Hosts
    /\ cache.at \in 0..MaxTime /\ (cache.value # Nothing => cache.value.ended <= time)
    /\ config \in [Keys -> Values] /\ kept \in [Keys -> Values]
    /\ \A a \in Admins : calls[a].next \in 1..Len(ProfileIds) + 1

Init ==
    /\ time = TTL /\ host \in Hosts
    /\ cache = [at |-> 0, value |-> Nothing]
    /\ config = [k \in Keys |-> 0] /\ kept = config /\ saves = 0
    /\ calls = [a \in Admins |-> Idle]

----------------------------------------------------------------------------
(* The self-tests.                                                          *)

\* _test_full_vaapi: three files, one of them of 10 bits, are decoded and encoded
FullVaapiWorks(h) == {"device", "encode", "decode10"} \subseteq h

\* _test_profile: one real encode, that of VAAPI tried again at low power
Available(p, h) ==
    CASE p = "vaapi" -> "device" \in h /\ h \cap {"encode", "low_power"} # {}
      [] p = "vaapi-full" -> FullVaapiWorks(h)
      [] p = "nvenc" -> "nvenc" \in h
      [] p = "cpu" -> TRUE

\* the ffmpeg a test runs that _process_commands takes for a playback session:
\* the inputs it knows are synthetic, the files the full test decodes are not
CountedTests ==
    {a \in Admins : calls[a].pc = "tests" /\ calls[a].next <= Len(ProfileIds)
                    /\ ProfileIds[calls[a].next] = "vaapi-full" /\ "device" \in host}

Stay(a, fields) == calls' = [calls EXCEPT ![a] = fields]
Done(a) == Stay(a, Idle)

\* a request comes
Ask(a) ==
    /\ calls[a].pc = "idle"
    /\ \E pc \in {"profiles", "status"}, force \in BOOLEAN :
         /\ force => pc = "profiles"
         /\ Stay(a, [Idle EXCEPT !.pc = pc, !.force = force])
    /\ UNCHANGED <<time, host, cache, config, kept, saves>>

\* _profiles: the clock, and the cache unless a refresh is asked for: its value, ...
Profiles(a) ==
    /\ calls[a].pc = "profiles"
    /\ Stay(a, [calls[a] EXCEPT !.began = time, !.pc = IF calls[a].force THEN "tests" ELSE "look"])
    /\ UNCHANGED <<time, host, cache, config, kept, saves>>

Look(a) ==
    /\ calls[a].pc = "look"
    /\ Stay(a, [calls[a] EXCEPT !.pc = IF cache.value = Nothing THEN "tests" ELSE "date"])
    /\ UNCHANGED <<time, host, cache, config, kept, saves>>

Fresh(c) == c.began < cache.at + TTL

\* mutant: a hit renews the date
DateRenewed(a) ==
    /\ calls[a].pc = "date"
    /\ Stay(a, [calls[a] EXCEPT !.pc = IF Fresh(calls[a]) THEN "show" ELSE "tests",
                                !.early = \E b \in Admins : calls[b].pc = "store"])
    /\ cache' = IF Fresh(calls[a]) THEN [cache EXCEPT !.at = time] ELSE cache
    /\ UNCHANGED <<time, host, config, kept, saves>>

\* ... its date, ...
Date(a) ==
    /\ calls[a].pc = "date"
    /\ Stay(a, [calls[a] EXCEPT !.pc = IF Fresh(calls[a]) THEN "show" ELSE "tests",
                                !.early = \E b \in Admins : calls[b].pc = "store"])
    /\ UNCHANGED <<time, host, cache, config, kept, saves>>

\* ... and its value once more, which is shown; one that was forgotten meanwhile is an error
Show(a) ==
    /\ calls[a].pc = "show"
    /\ Done(a)
    /\ UNCHANGED <<time, host, cache, config, kept, saves>>

\* the dashboard shows what is cached, however old, and tests only if nothing is
Status(a) ==
    /\ calls[a].pc = "status"
    /\ IF cache.value # Nothing
       THEN Done(a)
       ELSE Stay(a, [calls[a] EXCEPT !.pc = "profiles"])
    /\ UNCHANGED <<time, host, cache, config, kept, saves>>

\* what works may fail its test: Docker does
TestProfile(a) ==
    /\ calls[a].pc = "tests" /\ calls[a].next <= Len(ProfileIds)
    /\ LET p == ProfileIds[calls[a].next] IN
         \E f \in {{}, {p}} :
           /\ f # {} => Available(p, host)
           /\ Stay(a, [calls[a] EXCEPT !.next = @ + 1, !.found = @ \cup f])
    /\ UNCHANGED <<time, host, cache, config, kept, saves>>

\* the container is not there: an error, which the dashboard shows as not tested
TestsFail(a) ==
    /\ calls[a].pc = "tests"
    /\ Done(a)
    /\ UNCHANGED <<time, host, cache, config, kept, saves>>

\* the cache is dated by the start of the tests, and then filled
StoreAt(a) ==
    /\ calls[a].pc = "tests" /\ calls[a].next > Len(ProfileIds)
    /\ cache' = [cache EXCEPT !.at = calls[a].began]
    /\ Stay(a, [calls[a] EXCEPT !.pc = "store"])
    /\ UNCHANGED <<time, host, config, kept, saves>>

\* ended: history
StoreValue(a) ==
    /\ calls[a].pc = "store"
    /\ cache' = [cache EXCEPT !.value = [found |-> calls[a].found, ended |-> time]]
    /\ Done(a)
    /\ UNCHANGED <<time, host, config, kept, saves>>

\* _recommended_profile, the backend of the status page
Recommended(found) ==
    IF "nvenc" \in found THEN "nvenc" ELSE IF "vaapi" \in found THEN "vaapi" ELSE "none"

\* _hardware_detection, the accelerator of the dashboard's card
Accelerator(found) ==
    IF "nvenc" \in found THEN "nvenc"
    ELSE IF found \cap {"vaapi", "vaapi-full"} # {} THEN "vaapi" ELSE "cpu"

\* _backend_matrix, what each backend is available for
BackendMatrix(found) == [b \in {"vaapi", "nvenc", "cpu"} |-> b \in found]

----------------------------------------------------------------------------
(* The settings.                                                            *)

\* write_config, under CONFIG_LOCK: merged into what the file holds then
WriteConfig(values) == config' = [k \in Keys |-> IF k \in DOMAIN values THEN values[k] ELSE config[k]]

\* PUT /api/config
SaveConfig(a) ==
    /\ saves < MaxSaves /\ saves' = saves + 1
    /\ calls[a].pc = "idle"
    /\ \E k \in Keys, v \in Values :
         /\ WriteConfig([key \in {k} |-> v])
         /\ kept' = [kept EXCEPT ![k] = v]
    /\ UNCHANGED <<time, host, cache, calls>>

\* PUT /api/transcoding/profile: the whole file is read, changed and written, ...
ReadConfig(a) ==
    /\ calls[a].pc = "idle"
    /\ Stay(a, [calls[a] EXCEPT !.pc = "write", !.read = config])
    /\ UNCHANGED <<time, host, cache, config, kept, saves>>

SetProfile(a) ==
    /\ calls[a].pc = "write"
    /\ saves < MaxSaves /\ saves' = saves + 1
    /\ \E v \in Values :
         /\ WriteConfig([calls[a].read EXCEPT !["quality"] = v])
         /\ kept' = [kept EXCEPT !["quality"] = v]
    /\ Stay(a, [Idle EXCEPT !.pc = "forget"])
    /\ UNCHANGED <<time, host, cache>>

\* ... and the tests forgotten: their date, and then what they found
ForgetAt(a) ==
    /\ calls[a].pc = "forget"
    /\ cache' = [cache EXCEPT !.at = 0]
    /\ Stay(a, [calls[a] EXCEPT !.pc = "empty"])
    /\ UNCHANGED <<time, host, config, kept, saves>>

ForgetValue(a) ==
    /\ calls[a].pc = "empty"
    /\ cache' = [cache EXCEPT !.value = Nothing]
    /\ Done(a)
    /\ UNCHANGED <<time, host, config, kept, saves>>

----------------------------------------------------------------------------
\* the container is made anew, or its devices change
HostChanges ==
    /\ \E h \in Hosts \ {host} : host' = h
    /\ UNCHANGED <<time, cache, config, calls, kept, saves>>

Tick == time < MaxTime /\ time' = time + 1 /\ UNCHANGED <<host, cache, config, calls, kept, saves>>

Next ==
    \/ \E a \in Admins :
         \/ Ask(a) \/ Profiles(a) \/ Look(a) \/ Date(a) \/ Show(a) \/ Status(a)
         \/ TestProfile(a) \/ TestsFail(a) \/ StoreAt(a) \/ StoreValue(a)
         \/ SaveConfig(a) \/ ReadConfig(a) \/ SetProfile(a) \/ ForgetAt(a) \/ ForgetValue(a)
    \/ HostChanges \/ Tick

Spec == Init /\ [][Next]_adminVars

----------------------------------------------------------------------------
\* Whatever requests fill the cache at once, forget it, or come between the readings of
\* another: the hardware page shows from the cache only tests that ended less than TTL
\* before it was asked for; unless the date it read was that of tests still to be stored.
ShownIsFresh ==
    \A a \in Admins :
      calls[a].pc = "show" /\ ~calls[a].early /\ cache.value # Nothing
      => calls[a].began < cache.value.ended + TTL

(* What the code does not keep:                                             *)

\* The page never shows older tests, whichever date it read.
NeverStale ==
    \A a \in Admins :
      calls[a].pc = "show" /\ cache.value # Nothing => calls[a].began < cache.value.ended + TTL

\* What the cache was seen to hold is there when it is shown.
ShowsSomething == \A a \in Admins : calls[a].pc = "show" => cache.value # Nothing

\* The card of the dashboard, the recommended backend and the table of backends,
\* computed apart, agree.
CardsAgree ==
    \A a \in Admins :
      calls[a].next > Len(ProfileIds) =>
        LET found == calls[a].found IN
          /\ Accelerator(found) = IF Recommended(found) = "none" THEN "cpu" ELSE Recommended(found)
          /\ \A b \in {"vaapi", "nvenc"} : Accelerator(found) = b => BackendMatrix(found)[b]

\* What was saved, and answered as persisted, stays until it is saved again.
SettingsKept == config = kept

\* The dashboard reports capabilities that were proved at most TTL ago.
StatusIsRecent ==
    [][\A a \in Admins : calls[a].pc = "status" /\ calls'[a].pc = "idle" => cache.value.ended + TTL > time]_adminVars

\* The tests of the hardware are not counted as playback.
TestsAreNotSessions == CountedTests = {}
=============================================================================
