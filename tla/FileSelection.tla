---------------------------- MODULE FileSelection ----------------------------
(****************************************************************************)
(* What a torrent is fetched for: Engine.want, unwant, pin, unpin, add and  *)
(* remove, the file priorities of a Handle, and the alerts thread that      *)
(* applies a file choice once metadata has arrived                          *)
(* (stremiosrv/torrent/engine.py, wanted.py, pins.py).                      *)
(*                                                                          *)
(* Request handlers run in a thread pool and take no lock here.  A handler  *)
(* is split where it writes a registry file or calls the session: a list of *)
(* priorities is computed in one step and applied in a later one, and a     *)
(* request may hold a Handle that add() has replaced meanwhile.  A registry *)
(* is loaded whole in one step and saved whole in a later one, by requests  *)
(* about these torrents and about others; how one save reaches the disk is  *)
(* module RegistryFile.  That a stream is active, which only changes how    *)
(* urgent a file is, is left out.                                           *)
(****************************************************************************)
EXTENDS Naturals, FiniteSets

CONSTANTS
    Torrents,
    Files,          \* the file indices of a torrent
    Specs,          \* selectors: a file index, an episode, or "the whole torrent"
    Resolve,        \* select_wanted_file: Specs -> Files, NoFile when it does not narrow
    Clients,        \* request threads
    Alerts,         \* the alerts thread
    Elsewhere,      \* a request about a torrent that is not among Torrents
    Events,         \* the requests and events that happen
    NoFile, NoTorrent, NoSpec,
    Unfocus,        \* in the place of a file: the streaming focus is forgotten
    NoHandle, InTable, Removed      \* see Held

ASSUME SelectionAssumption ==
    /\ NoFile \notin Files /\ Unfocus \notin Files /\ Unfocus # NoFile
    /\ NoTorrent \notin Torrents
    /\ NoSpec \notin Specs
    /\ Alerts \notin Clients /\ Elsewhere \notin Clients
    /\ Events \subseteq {"download", "play", "pin", "unpin", "delete", "remove", "restart"}
    /\ Resolve \in [Specs -> Files \cup {NoFile}]

Threads == Clients \cup {Alerts}
Savers  == Clients \cup {Elsewhere}

Handle == [pinned : BOOLEAN, wanted : SUBSET Files, focus : Files \cup {NoFile}]

ASSUME HandleAssumption ==
    /\ {NoHandle, InTable, Removed} \cap Handle = {}
    /\ NoHandle # InTable /\ NoHandle # Removed /\ InTable # Removed

VARIABLES
    handle,     \* _torrents: torrent -> Handle or NoHandle
    meta,       \* the session (or the resume record, when there is no handle) has the file list
    prio,       \* the files of priority above 0, in the session or the resume record
    pinned,     \* _pinned
    wkeys,      \* the keys of _wanted
    wanted,     \* the selector lists; a popped list keeps its content for a running scan
    applied,    \* _wanted_applied
    pinsFile, wantedFile,    \* pins.json and wanted.json
    pinsRead, wantedRead,    \* what a saver has loaded, and not yet saved
    elsewhere,  \* the registry that a request about another torrent has loaded
    lost,       \* history: a save of its record failed, or another save undid it
    th,         \* the threads
    raced,      \* history: two requests were at work on its priorities at once
    gone        \* history: its removal was requested, and nobody asked for it since

engine == <<pinned, wkeys, wanted, applied>>
reads  == <<pinsRead, wantedRead>>
files  == <<pinsFile, wantedFile, reads, elsewhere, lost>>
vars   == <<handle, meta, prio, engine, files, th, raced, gone>>

\* The Handle a request works on: the one in _torrents, one that add() has
\* replaced there, or one whose torrent has left the session.
Held == {NoHandle, InTable, Removed} \cup Handle

Thread ==
    [pc : {"idle", "apply", "want", "append", "discard", "scan", "mark", "pin",
           "savePin", "saveUnpin", "saveRemove", "unwant", "drop",
           "writePin", "writeUnpin", "writeRemove", "writeWant", "writeUnwant"},
     tor  : Torrents \cup {NoTorrent},
     spec : Specs \cup {NoSpec},
     todo : SUBSET Torrents,        \* _apply_pending_wanted: still to be visited
     hd   : Held,
     file : Files \cup {NoFile, Unfocus},    \* what becomes the focus, if anything
     list : SUBSET Files,           \* the priorities it is going to apply
     then : {"idle", "mark", "savePin", "saveUnpin", "saveRemove"}]

Idle == [pc |-> "idle", tor |-> NoTorrent, spec |-> NoSpec, todo |-> {},
         hd |-> NoHandle, file |-> NoFile, list |-> {}, then |-> "idle"]

TypeOK ==
    /\ handle \in [Torrents -> Handle \cup {NoHandle}]
    /\ meta \in [Torrents -> BOOLEAN]
    /\ prio \in [Torrents -> SUBSET Files]
    /\ pinned \in SUBSET Torrents
    /\ wkeys \in SUBSET Torrents
    /\ wanted \in [Torrents -> SUBSET Specs]
    /\ applied \in SUBSET Torrents
    /\ pinsFile \in SUBSET Torrents
    /\ wantedFile \in [Torrents -> SUBSET Specs]
    /\ pinsRead \in [Savers -> SUBSET Torrents]
    /\ wantedRead \in [Savers -> [Torrents -> SUBSET Specs]]
    /\ elsewhere \in {"idle", "pins", "wanted"}
    /\ lost \in SUBSET Torrents
    /\ th \in [Threads -> Thread]
    /\ \A x \in Threads : th[x].pc \notin {"idle", "scan"} => th[x].tor \in Torrents
    /\ raced \in SUBSET Torrents
    /\ gone \in SUBSET Torrents

Open(t) == handle[t] # NoHandle

NoneWanted == [t \in Torrents |-> {}]

Init ==
    /\ handle = [t \in Torrents |-> NoHandle]
    /\ meta = [t \in Torrents |-> FALSE]
    /\ prio = [t \in Torrents |-> Files]
    /\ pinned = {}
    /\ wkeys = {}
    /\ wanted = [t \in Torrents |-> {}]
    /\ applied = {}
    /\ pinsFile = {}
    /\ wantedFile = NoneWanted
    /\ pinsRead = [x \in Savers |-> {}]
    /\ wantedRead = [x \in Savers |-> NoneWanted]
    /\ elsewhere = "idle"
    /\ lost = {}
    /\ th = [x \in Threads |-> Idle]
    /\ raced = {}
    /\ gone = {}

Goto(x, p) == th' = [th EXCEPT ![x].pc = p]

----------------------------------------------------------------------------
(* Handle: the priorities follow from the pin, the wanted set and focus.   *)

Focused(h) == {h.focus} \cap Files

\* mutant: one file is wanted at a time
PrioritiesFocusOnly(h) ==
    IF h.focus \in Files THEN {h.focus}
    ELSE IF h.pinned /\ h.wanted = {} THEN Files ELSE h.wanted

\* _priorities: the files it gives a priority above 0
Priorities(h) ==
    (IF h.pinned /\ h.wanted = {} THEN Files ELSE h.wanted) \cup Focused(h)

\* the threads that have computed priorities of t and not yet applied them
Updating(t) == {x \in Threads : th[x].pc = "apply" /\ th[x].tor = t}

Overlap(t) == raced' = IF Updating(t) # {} THEN raced \cup {t} ELSE raced

\* Thread x has a list of priorities for t, to apply through the handle it holds;
\* it goes on at p.  Without metadata there is nothing to apply.
Update(x, t, list, file, p) ==
    /\ LET held == IF th[x].hd = NoHandle THEN InTable ELSE th[x].hd
       IN  th' = [th EXCEPT ![x] =
                    IF meta[t]
                    THEN [th[x] EXCEPT !.tor = t, !.hd = held, !.list = list, !.file = file,
                                       !.pc = "apply", !.then = p]
                    ELSE [th[x] EXCEPT !.tor = t, !.pc = p]]
    /\ Overlap(t)

\* reapply_priorities, want_file: the list follows from the handle h
Compute(x, t, h, p) == Update(x, t, Priorities(h), NoFile, p)

\* want_all_files: every file is fetched and the streaming focus forgotten; the
\* wanted set is left alone
Everything(x, t, p) == Update(x, t, Files, Unfocus, p)

\* prioritize_files, which raises, and is ignored, when the torrent has left the
\* session; then the file being played becomes the focus, or the focus is forgotten
Apply(x) ==
    LET t == th[x].tor
        f == th[x].file
    IN  /\ th[x].pc = "apply"
        /\ prio' = [prio EXCEPT ![t] = IF th[x].hd = Removed THEN @ ELSE th[x].list]
        /\ handle' = IF f # NoFile /\ th[x].hd = InTable
                     THEN [handle EXCEPT ![t].focus = IF f = Unfocus THEN NoFile ELSE f]
                     ELSE handle
        /\ th' = [th EXCEPT ![x] =
                     IF @.then = "idle" THEN Idle
                     ELSE [@ EXCEPT !.pc = th[x].then, !.list = {}, !.file = NoFile, !.then = "idle"]]
        /\ UNCHANGED <<meta, engine, files, raced, gone>>

Narrow(x, t, w) ==
    LET h == [handle[t] EXCEPT !.wanted = w]
    IN  /\ handle' = [handle EXCEPT ![t] = h]
        /\ Compute(x, t, h, "mark")
        /\ UNCHANGED prio

Resolved(t) == {Resolve[s] : s \in wanted[t]}

\* _apply_wanted: the whole torrent unless every selector narrows
ApplyWanted(x, t) ==
    IF Resolved(t) = {} \/ NoFile \in Resolved(t)
    THEN Everything(x, t, "mark") /\ UNCHANGED <<handle, prio>>
    ELSE Narrow(x, t, handle[t].wanted \cup Resolved(t))

\* what the threads hold once the handle of t has been replaced or removed
Holding(x, t) == th[x].hd = InTable /\ th[x].tor = t
Rehold(t, h) == [x \in Threads |-> IF Holding(x, t) THEN [th[x] EXCEPT !.hd = h] ELSE th[x]]
Expel(t) == [x \in Threads |-> IF th[x].hd # NoHandle /\ th[x].tor = t
                               THEN [th[x] EXCEPT !.hd = Removed] ELSE th[x]]

FreshHandle(t) == [pinned |-> t \in pinned, wanted |-> {}, focus |-> NoFile]

\* add: the torrent joins the session from its resume record, or without one;
\* one that is there already keeps its state, but gets a new Handle
Add(t) ==
    /\ handle' = [handle EXCEPT ![t] = FreshHandle(t)]
    /\ \/ UNCHANGED <<meta, prio>>
       \/ /\ ~Open(t)
          /\ meta' = [meta EXCEPT ![t] = FALSE]
          /\ prio' = [prio EXCEPT ![t] = Files]

\* get() or add(): a stream, a pin or /create reaches a torrent not in the session
LazyAdd(t) ==
    /\ ~Open(t)
    /\ Add(t)
    /\ gone' = gone \ {t}
    /\ UNCHANGED <<engine, files, th, raced>>

MetadataArrives(t) ==
    /\ Open(t)
    /\ ~meta[t]
    /\ meta' = [meta EXCEPT ![t] = TRUE]
    /\ UNCHANGED <<handle, prio, engine, files, th, raced, gone>>

\* focus_file: playing a file makes it wanted
Play(x, t, f) ==
    /\ "play" \in Events
    /\ th[x].pc = "idle"
    /\ Open(t)
    /\ meta[t]
    /\ handle[t].focus # f
    /\ LET h == [handle[t] EXCEPT !.wanted = @ \cup {f}]
       IN  /\ handle' = [handle EXCEPT ![t] = h]
           /\ th' = [th EXCEPT ![x] =
                [Idle EXCEPT !.pc = "apply", !.tor = t, !.hd = InTable, !.file = f,
                             !.list = Priorities([h EXCEPT !.focus = f])]]
    /\ Overlap(t)
    /\ gone' = gone \ {t}
    /\ UNCHANGED <<meta, prio, engine, files>>

----------------------------------------------------------------------------
(* POST /api/download: add the magnet, then want(t, s).                    *)

Download(x, t, s) ==
    /\ "download" \in Events
    /\ th[x].pc = "idle"
    /\ Add(t)
    /\ th' = [Rehold(t, handle[t]) EXCEPT ![x] = [Idle EXCEPT !.pc = "want", !.tor = t, !.spec = s]]
    /\ raced' = IF \E y \in Threads : Holding(y, t) THEN raced \cup {t} ELSE raced
    /\ gone' = gone \ {t}
    /\ UNCHANGED <<engine, files>>

\* _wanted.setdefault(ih, [])
WantKey(x) ==
    LET t == th[x].tor
    IN  /\ th[x].pc = "want"
        /\ wkeys' = wkeys \cup {t}
        /\ wanted' = [wanted EXCEPT ![t] = IF t \in wkeys THEN @ ELSE {}]
        /\ Goto(x, "append")
        /\ UNCHANGED <<handle, meta, prio, pinned, applied, files, raced, gone>>

\* append the selector, and load wanted.json to record it there.  The append
\* raises when the key was popped in between, and the request ends there.
WantAppend(x) ==
    LET t == th[x].tor
    IN  /\ th[x].pc = "append"
        /\ IF t \in wkeys
           THEN /\ wanted' = [wanted EXCEPT ![t] = @ \cup {th[x].spec}]
                /\ wantedRead' = [wantedRead EXCEPT ![x] = wantedFile]
                /\ Goto(x, "writeWant")
           ELSE /\ th' = [th EXCEPT ![x] = Idle]
                /\ UNCHANGED <<wanted, wantedRead>>
        /\ UNCHANGED <<handle, meta, prio, pinned, wkeys, applied,
                       pinsFile, wantedFile, pinsRead, elsewhere, lost, raced, gone>>

\* save: saver x, at work on torrent t, replaces wanted.json by w, made from what
\* it loaded; the records of other torrents that changed since are undone
WriteWanted(x, t, w) ==
    /\ wantedFile' = w
    /\ wantedRead' = [wantedRead EXCEPT ![x] = NoneWanted]
    /\ lost' = lost \cup {u \in Torrents \ {t} : w[u] # wantedFile[u]}
    /\ UNCHANGED <<pinsFile, pinsRead>>

WantSave(x) ==
    LET t == th[x].tor
    IN  /\ th[x].pc = "writeWant"
        /\ WriteWanted(x, t, [wantedRead[x] EXCEPT ![t] = @ \cup {th[x].spec}])
        /\ Goto(x, "discard")
        /\ UNCHANGED <<handle, meta, prio, engine, elsewhere, raced, gone>>

\* a new selector must be applied even if others were; then the scan
WantDiscard(x) ==
    /\ th[x].pc = "discard"
    /\ applied' = applied \ {th[x].tor}
    /\ th' = [th EXCEPT ![x] = [Idle EXCEPT !.pc = "scan", !.todo = wkeys]]
    /\ UNCHANGED <<handle, meta, prio, pinned, wkeys, wanted, files, raced, gone>>

----------------------------------------------------------------------------
(* _apply_pending_wanted, by a request, at startup or by the alerts thread *)

\* the alerts loop scans when it sees fewer applied torrents than wanted ones
AlertsScan ==
    /\ th[Alerts].pc = "idle"
    /\ Cardinality(applied) < Cardinality(wkeys)
    /\ th' = [th EXCEPT ![Alerts] = [Idle EXCEPT !.pc = "scan", !.todo = wkeys]]
    /\ UNCHANGED <<handle, meta, prio, engine, files, raced, gone>>

\* the next torrent of the snapshot is one to apply ...
ScanApply(x, t) ==
    /\ th[x].pc = "scan" /\ t \in th[x].todo
    /\ t \notin applied /\ Open(t) /\ meta[t]
    /\ ApplyWanted(x, t)
    /\ UNCHANGED <<meta, engine, files, gone>>

\* ... or one to skip
ScanSkip(x, t) ==
    /\ th[x].pc = "scan" /\ t \in th[x].todo
    /\ t \in applied \/ ~Open(t) \/ ~meta[t]
    /\ th' = [th EXCEPT ![x].todo = @ \ {t}]
    /\ UNCHANGED <<handle, meta, prio, engine, files, raced, gone>>

\* _wanted_applied.add(ih)
ScanMark(x) ==
    /\ th[x].pc = "mark"
    /\ applied' = applied \cup {th[x].tor}
    /\ th' = [th EXCEPT ![x] = [Idle EXCEPT !.pc = "scan", !.todo = th[x].todo \ {th[x].tor}]]
    /\ UNCHANGED <<handle, meta, prio, pinned, wkeys, wanted, files, raced, gone>>

ScanDone(x) ==
    /\ th[x].pc = "scan" /\ th[x].todo = {}
    /\ th' = [th EXCEPT ![x] = Idle]
    /\ UNCHANGED <<handle, meta, prio, engine, files, raced, gone>>

----------------------------------------------------------------------------
(* pin, unpin, and what removes a torrent.                                 *)

\* pin: take the handle, and look at the disk
PinGet(x, t) ==
    /\ "pin" \in Events
    /\ th[x].pc = "idle"
    /\ Open(t)
    /\ th' = [th EXCEPT ![x] = [Idle EXCEPT !.pc = "pin", !.tor = t, !.hd = InTable]]
    /\ gone' = gone \ {t}
    /\ UNCHANGED <<handle, meta, prio, engine, files, raced>>

\* the guard refuses, or the torrent has left the session and its status raises
PinRefused(x) ==
    /\ th[x].pc = "pin"
    /\ th' = [th EXCEPT ![x] = Idle]
    /\ UNCHANGED <<handle, meta, prio, engine, files, raced, gone>>

\* the handle thread x holds, when it is a handle
HandleOf(x) == IF th[x].hd = InTable THEN handle[th[x].tor] ELSE th[x].hd

\* changing the handle x holds changes that of the table only if it is there
Hold(x, h) == handle' = IF th[x].hd = InTable THEN [handle EXCEPT ![th[x].tor] = h] ELSE handle

\* mutant: keeping a title always fetches the whole of it
PinApplyWhole(x) ==
    LET t == th[x].tor
    IN  /\ th[x].pc = "pin" /\ th[x].hd # Removed
        /\ pinned' = pinned \cup {t}
        /\ Hold(x, [HandleOf(x) EXCEPT !.pinned = TRUE])
        /\ Everything(x, t, "savePin")
        /\ UNCHANGED <<meta, prio, wkeys, wanted, applied, files, gone>>

\* it fits: the whole torrent is to be fetched unless something was selected by now
PinApply(x) ==
    LET t == th[x].tor
        h == [HandleOf(x) EXCEPT !.pinned = TRUE]
    IN  /\ th[x].pc = "pin" /\ th[x].hd # Removed
        /\ pinned' = pinned \cup {t}
        /\ Hold(x, h)
        /\ IF h.wanted = {} THEN Everything(x, t, "savePin") ELSE Compute(x, t, h, "savePin")
        /\ UNCHANGED <<meta, prio, wkeys, wanted, applied, files, gone>>

\* load_pins, unless the name of the torrent, which has left the session, raises
PinLoad(x) ==
    /\ th[x].pc = "savePin"
    /\ IF th[x].hd = Removed
       THEN th' = [th EXCEPT ![x] = Idle] /\ UNCHANGED pinsRead
       ELSE Goto(x, "writePin") /\ pinsRead' = [pinsRead EXCEPT ![x] = pinsFile]
    /\ UNCHANGED <<handle, meta, prio, engine, pinsFile, wantedFile, wantedRead, elsewhere,
                   lost, raced, gone>>

\* save_pins, likewise
WritePins(x, t, p) ==
    /\ pinsFile' = p
    /\ pinsRead' = [pinsRead EXCEPT ![x] = {}]
    /\ lost' = lost \cup {u \in Torrents \ {t} : u \in p <=> u \notin pinsFile}
    /\ UNCHANGED <<wantedFile, wantedRead>>

PinSave(x) ==
    /\ th[x].pc = "writePin"
    /\ WritePins(x, th[x].tor, pinsRead[x] \cup {th[x].tor})
    /\ th' = [th EXCEPT ![x] = Idle]
    /\ UNCHANGED <<handle, meta, prio, engine, elsewhere, raced, gone>>

\* unpin: also forgets the selectors in memory, not those in wanted.json
Unpinned(x, t, p) ==
    /\ th[x].pc = "idle"
    /\ pinned' = pinned \ {t}
    /\ wkeys' = wkeys \ {t}
    /\ applied' = applied \ {t}
    /\ LET h == [handle[t] EXCEPT !.pinned = FALSE]
       IN  IF Open(t)
           THEN handle' = [handle EXCEPT ![t] = h] /\ Compute(x, t, h, p)
           ELSE /\ th' = [th EXCEPT ![x] = [Idle EXCEPT !.tor = t, !.pc = p]]
                /\ UNCHANGED <<handle, raced>>
    /\ UNCHANGED <<meta, prio, wanted, files>>

Unpin(x, t) ==
    /\ "unpin" \in Events
    /\ Unpinned(x, t, "saveUnpin")
    /\ UNCHANGED gone

\* POST /api/remove: unpin ...
Remove(x, t) ==
    /\ "delete" \in Events
    /\ Unpinned(x, t, "saveRemove")
    /\ gone' = IF \E y \in Clients \ {x} : th[y].tor = t THEN gone ELSE gone \cup {t}

UnpinLoad(x) ==
    /\ th[x].pc \in {"saveUnpin", "saveRemove"}
    /\ pinsRead' = [pinsRead EXCEPT ![x] = pinsFile]
    /\ Goto(x, IF th[x].pc = "saveUnpin" THEN "writeUnpin" ELSE "writeRemove")
    /\ UNCHANGED <<handle, meta, prio, engine, pinsFile, wantedFile, wantedRead, elsewhere,
                   lost, raced, gone>>

UnpinSave(x) ==
    /\ th[x].pc \in {"writeUnpin", "writeRemove"}
    /\ WritePins(x, th[x].tor, pinsRead[x] \ {th[x].tor})
    /\ th' = [th EXCEPT ![x] = IF @.pc = "writeUnpin" THEN Idle
                               ELSE [Idle EXCEPT !.pc = "unwant", !.tor = th[x].tor]]
    /\ UNCHANGED <<handle, meta, prio, engine, elsewhere, raced, gone>>

\* mutant: the selectors on disk are not forgotten
UnwantMemoryOnly(x) ==
    /\ th[x].pc = "unwant"
    /\ wkeys' = wkeys \ {th[x].tor}
    /\ applied' = applied \ {th[x].tor}
    /\ Goto(x, "drop")
    /\ UNCHANGED <<handle, meta, prio, pinned, wanted, files, raced, gone>>

\* ... unwant, in memory and, if wanted.json names the torrent, there ...
Unwant(x) ==
    /\ th[x].pc = "unwant"
    /\ wkeys' = wkeys \ {th[x].tor}
    /\ applied' = applied \ {th[x].tor}
    /\ wantedRead' = [wantedRead EXCEPT ![x] = wantedFile]
    /\ Goto(x, "writeUnwant")
    /\ UNCHANGED <<handle, meta, prio, pinned, wanted, pinsFile, wantedFile, pinsRead,
                   elsewhere, lost, raced, gone>>

UnwantSave(x) ==
    LET t == th[x].tor
    IN  /\ th[x].pc = "writeUnwant"
        /\ IF wantedRead[x][t] # {}
           THEN WriteWanted(x, t, [wantedRead[x] EXCEPT ![t] = {}])
           ELSE /\ wantedRead' = [wantedRead EXCEPT ![x] = NoneWanted]
                /\ UNCHANGED <<pinsFile, wantedFile, pinsRead, lost>>
        /\ Goto(x, "drop")
        /\ UNCHANGED <<handle, meta, prio, engine, elsewhere, raced, gone>>

\* A save that fails: wanted.save goes on without it, save_pins raises
SaveFails(x) ==
    LET t == th[x].tor
    IN  /\ th[x].pc \in {"writePin", "writeUnpin", "writeRemove", "writeWant", "writeUnwant"}
        /\ lost' = lost \cup {t}
        /\ pinsRead' = [pinsRead EXCEPT ![x] = {}]
        /\ wantedRead' = [wantedRead EXCEPT ![x] = NoneWanted]
        /\ CASE th[x].pc = "writeWant"   -> Goto(x, "discard")
             [] th[x].pc = "writeUnwant" -> Goto(x, "drop")
             [] OTHER                    -> th' = [th EXCEPT ![x] = Idle]
        /\ UNCHANGED <<handle, meta, prio, engine, pinsFile, wantedFile, elsewhere, raced, gone>>

\* A request about a torrent outside Torrents loads a registry ...
ElsewhereLoad ==
    /\ elsewhere = "idle"
    /\ \/ elsewhere' = "pins" /\ pinsRead' = [pinsRead EXCEPT ![Elsewhere] = pinsFile]
          /\ UNCHANGED wantedRead
       \/ elsewhere' = "wanted" /\ wantedRead' = [wantedRead EXCEPT ![Elsewhere] = wantedFile]
          /\ UNCHANGED pinsRead
    /\ UNCHANGED <<handle, meta, prio, engine, pinsFile, wantedFile, lost, th, raced, gone>>

\* ... and saves it, its own record apart as it was
ElsewhereSave ==
    /\ \/ elsewhere = "pins" /\ WritePins(Elsewhere, NoTorrent, pinsRead[Elsewhere])
       \/ elsewhere = "wanted" /\ WriteWanted(Elsewhere, NoTorrent, wantedRead[Elsewhere])
    /\ elsewhere' = "idle"
    /\ UNCHANGED <<handle, meta, prio, engine, th, raced, gone>>

\* ... and remove it from the session, its files and its resume record
RemoveDrop(x) ==
    LET t == th[x].tor
    IN  /\ th[x].pc = "drop"
        /\ handle' = [handle EXCEPT ![t] = NoHandle]
        /\ meta' = [meta EXCEPT ![t] = FALSE]
        /\ prio' = [prio EXCEPT ![t] = Files]
        /\ th' = [Expel(t) EXCEPT ![x] = Idle]
        /\ UNCHANGED <<engine, files, raced, gone>>

\* Engine.remove by /remove, /cache/remove or the evictor, which spares pins;
\* the resume record stays, or is deleted with the files
EngineRemove(t) ==
    /\ "remove" \in Events
    /\ Open(t)
    /\ handle' = [handle EXCEPT ![t] = NoHandle]
    /\ \/ UNCHANGED <<meta, prio>>
       \/ /\ meta' = [meta EXCEPT ![t] = FALSE]
          /\ prio' = [prio EXCEPT ![t] = Files]
    /\ th' = Expel(t)
    /\ UNCHANGED <<engine, files, raced, gone>>

\* The process dies and starts again: load_pins_into_session re-adds what the
\* two files name, and thread x goes on with the startup scan.
Restart(x) ==
    LET wk == {t \in Torrents : wantedFile[t] # {}}
    IN  /\ "restart" \in Events
        /\ pinned' = pinsFile
        /\ wkeys' = wk
        /\ wanted' = wantedFile
        /\ applied' = {}
        /\ handle' = [t \in Torrents |->
                        IF t \in pinsFile \cup wk
                        THEN [pinned |-> t \in pinsFile, wanted |-> {}, focus |-> NoFile]
                        ELSE NoHandle]
        /\ th' = [y \in Threads |-> IF y = x THEN [Idle EXCEPT !.pc = "scan", !.todo = wk] ELSE Idle]
        /\ raced' = {}
        /\ gone' = {t \in gone : \A y \in Clients : th[y].tor # t}   \* not a removal it cut short
        /\ pinsRead' = [y \in Savers |-> {}]
        /\ wantedRead' = [y \in Savers |-> NoneWanted]
        /\ elsewhere' = "idle"
        /\ UNCHANGED <<meta, prio, pinsFile, wantedFile, lost>>

----------------------------------------------------------------------------
RequestStep(x) ==
    \/ WantKey(x) \/ WantAppend(x) \/ WantSave(x) \/ WantDiscard(x)
    \/ PinRefused(x) \/ PinApply(x) \/ PinLoad(x) \/ PinSave(x)
    \/ UnpinLoad(x) \/ UnpinSave(x) \/ Unwant(x) \/ UnwantSave(x) \/ RemoveDrop(x)
    \/ SaveFails(x)

ScanStep(x) ==
    \/ \E t \in Torrents : ScanApply(x, t) \/ ScanSkip(x, t)
    \/ Apply(x) \/ ScanMark(x) \/ ScanDone(x)

Request(x) ==
    \E t \in Torrents :
        \/ \E s \in Specs : Download(x, t, s)
        \/ \E f \in Files : Play(x, t, f)
        \/ PinGet(x, t) \/ Unpin(x, t) \/ Remove(x, t)

Next ==
    \/ \E x \in Clients : Request(x) \/ RequestStep(x) \/ Restart(x)
    \/ AlertsScan
    \/ ElsewhereLoad \/ ElsewhereSave
    \/ \E x \in Threads : ScanStep(x)
    \/ \E t \in Torrents : LazyAdd(t) \/ MetadataArrives(t) \/ EngineRemove(t)

Spec == Init /\ [][Next]_vars

\* A request that runs ends, and the alerts loop wakes up twice a second.
Fairness ==
    /\ \A x \in Clients : WF_vars(RequestStep(x))
    /\ \A x \in Threads : WF_vars(ScanStep(x))
    /\ WF_vars(AlertsScan)

FairSpec == Spec /\ Fairness

----------------------------------------------------------------------------
(* What holds                                                              *)

\* A file somebody downloads or plays is being fetched, whatever was pinned,
\* unpinned, played or downloaded since through the same handle, as long as no
\* two threads changed the priorities of the torrent at once.
WantedIsFetched ==
    \A t \in Torrents \ raced :
        Open(t) /\ Updating(t) = {} => handle[t].wanted \subseteq prio[t]

\* Pinning "has no business changing WHAT is fetched": it adds no file to a
\* torrent of which some file was chosen by the time its priorities are applied,
\* as long as no two threads changed them at once.
PinWidens(x) ==
    LET t == th[x].tor
    IN  /\ th[x].then = "savePin" /\ th'[x].pc = "savePin"
        /\ th[x].hd = InTable /\ handle[t].wanted # {}
        /\ ~(prio'[t] \subseteq prio[t])

PinNeverWidens == [][ \A x \in Clients : PinWidens(x) => th[x].tor \in raced ]_vars

\* "forget the selectors too, or a restart resumes what was just removed":
\* nothing brings a removed title back until somebody asks for it again, unless
\* its record was lost: a save failed, or wrote back what it had loaded before.
StaysGone(t) ==
    (\A x \in Clients : th[x].tor # t) =>
        ~Open(t) /\ t \notin wkeys \cup pinned \cup pinsFile /\ wantedFile[t] = {}

RemovedStaysGone == \A t \in gone \ lost : StaysGone(t)

(* What the comments say and the code does not keep                        *)

\* The same without the exception: a save of its record that fails, or a request
\* about another torrent that saves a registry it loaded before the removal,
\* brings the removed title back.
RemovalIsFinal == \A t \in gone : StaysGone(t)

\* The same when a play is recorded while the pin applies its list.
PinNeverWidensAPlay == [][ \A x \in Clients : ~PinWidens(x) ]_vars

Quiet == \A x \in Threads : th[x].pc = "idle"

\* A pin keeps a torrent seeding, which the seed policy and the priorities
\* read from the flag of the handle.
PinnedIsSeeded ==
    Quiet => \A t \in pinned : Open(t) => handle[t].pinned

\* The file a player reads is being fetched.
PlayedIsFetched ==
    Quiet => \A t \in Torrents : Open(t) => Focused(handle[t]) \subseteq prio[t]

\* The choice "was recorded and then silently never applied" is what the guard
\* of the alerts loop is to prevent: a choice that can be applied is.
PendingIsApplied ==
    \A t \in Torrents :
        LET Pending == t \in wkeys \ applied /\ Open(t) /\ meta[t]
        IN  Pending ~> ~Pending

\* "a new selector must be applied even if others were": once nothing runs,
\* an applied torrent, all of whose selectors narrow, fetches what they name.
SelectorsApplied ==
    Quiet => \A t \in wkeys \cap applied :
        Open(t) /\ meta[t] /\ NoFile \notin Resolved(t) => Resolved(t) \subseteq prio[t]

\* "A selector that resolves to nothing ... means the whole torrent".
WholeDownloadStaysWhole ==
    Quiet => \A t \in wkeys \cap applied :
        Open(t) /\ meta[t] /\ NoFile \in Resolved(t) => prio[t] = Files

\* "A *pinned* torrent instead wants every file": playing one file of a title
\* pinned as a whole goes on fetching the others.
PinnedPlayKeepsWhole ==
    [][ \A x \in Clients :
          LET t == th[x].tor
          IN    /\ th[x].pc = "apply" /\ th[x].file \in Files /\ th'[x].pc = "idle"
                /\ t \in pinned \ raced /\ th[x].hd = InTable /\ handle[t].wanted = {th[x].file}
                /\ prio[t] = Files
             => prio'[t] = Files ]_vars

\* "Two files of ONE torrent can be wanted at the same time -- one person
\* downloading an episode while another streams a different one".
DownloadKeepsStreamedFile ==
    [][ \A t \in Torrents :
          Open(t) /\ handle'[t] # NoHandle => handle[t].wanted \subseteq handle'[t].wanted ]_vars

\* "Two independent registries": giving up a pin leaves the downloads alone.
UnpinKeepsDownloads ==
    Quiet => wkeys = {t \in Torrents : wantedFile[t] # {}}
=============================================================================
