------------------------------- MODULE EvictPass -------------------------------
(****************************************************************************)
(* One pass of the cache evictor (evict_once in stremiosrv/cache.py) while  *)
(* the server goes on: torrents are opened, learn their metadata, write,    *)
(* are pinned and unpinned, and the process restarts.  The pass lists what  *)
(* is there, then reads the engine and the registries one after another,    *)
(* then deletes; nothing keeps what it has read from changing meanwhile.    *)
(*                                                                          *)
(* A torrent has two entries in the cache: its data and its partfile.  All  *)
(* entries have size 1.  Modification times are left out: any entries may   *)
(* be within the grace, and of the others any may be the oldest.            *)
(****************************************************************************)
EXTENDS Naturals, FiniteSets

CONSTANTS
    Torrents,
    Budget,         \* what fits the cache
    Target          \* what a pass shrinks it to

Data(t)  == <<"data", t>>
Parts(t) == <<"parts", t>>
Entries  == {"data", "parts"} \X Torrents

VARIABLES
    disk,       \* the entries in the cache root
    loaded,     \* Engine._torrents
    meta,       \* the loaded torrents with metadata, and hence a name
    recent,     \* Engine._last_access within the grace
    pinned,     \* Engine._pinned
    pinsFile,   \* pins.json: the pin's name may be missing
    index,      \* .resume/index.json: the torrents whose name it knows
    ev,         \* the evictor
    kept        \* history: what has been protected ever since the pass began,
                \* out of the session ever since the pass stopped it, and
                \* what of its victim could not be deleted

engine == <<loaded, meta, recent, pinned>>
files  == <<pinsFile, index>>
vars   == <<disk, engine, files, ev, kept>>

Evictor ==
    [pc : {"idle", "recent", "pinned", "names", "pins", "index", "evict", "data", "parts"},
     items : SUBSET Entries,    \* the listing
     inUse : SUBSET Entries,
     keep  : SUBSET Torrents,   \* the hashes in pins.json
     names : SUBSET Torrents,   \* the torrents it can stop by name
     todo  : SUBSET Entries,    \* the victims
     cur   : Entries \cup {<<>>}]

Unkept == [pin |-> {}, served |-> {}, out |-> {}, stuck |-> {}]

Idle == [pc |-> "idle", items |-> {}, inUse |-> {}, keep |-> {}, names |-> {}, todo |-> {}, cur |-> <<>>]

TypeOK ==
    /\ disk \in SUBSET Entries
    /\ loaded \in SUBSET Torrents
    /\ meta \in SUBSET loaded /\ recent \in SUBSET loaded
    /\ pinned \in SUBSET Torrents
    /\ pinsFile \in [Torrents -> {"no", "unnamed", "named"}]
    /\ index \in SUBSET Torrents
    /\ ev \in Evictor
    /\ ev.pc \in {"data", "parts"} => ev.cur \in Entries
    /\ kept \in [pin : SUBSET Torrents, served : SUBSET Torrents, out : SUBSET Torrents, stuck : SUBSET Entries]

Init ==
    /\ disk = {}
    /\ loaded = {} /\ meta = {} /\ recent = {} /\ pinned = {}
    /\ pinsFile = [t \in Torrents |-> "no"]
    /\ index = {}
    /\ ev = Idle
    /\ kept = Unkept

\* the pins a pass can name, and the torrents it knows are being served
NamedPins == {t \in Torrents : pinsFile[t] = "named" \/ (pinsFile[t] = "unnamed" /\ t \in index)}
Served == recent \cap meta

\* what a step of the server leaves of the history
StillKept == kept' = [pin |-> kept.pin \cap NamedPins',
                      served |-> kept.served \cap Served',
                      out |-> kept.out \ loaded', stuck |-> kept.stuck]

----------------------------------------------------------------------------
(* The server                                                               *)

\* Engine.add or get: the torrent is served now; add replaces the handle.  The
\* resume record that knows its name brings its metadata along.
Open(t) ==
    /\ loaded' = loaded \cup {t}
    /\ meta' = IF t \notin loaded /\ t \in index THEN meta \cup {t} ELSE meta
    /\ recent' = recent \cup {t}
    /\ UNCHANGED <<disk, pinned, files, ev>>
    /\ StillKept

\* the metadata of a magnet arrives
Learn(t) ==
    /\ t \in loaded \ meta
    /\ meta' = meta \cup {t}
    /\ UNCHANGED <<disk, loaded, recent, pinned, files, ev>>
    /\ StillKept

\* libtorrent writes pieces to the data or to the partfile
Write(e) ==
    /\ e[2] \in meta
    /\ disk' = disk \cup {e}
    /\ UNCHANGED <<engine, files, ev, kept>>

\* the resume saver writes the record and the name index
SaveResume(t) ==
    /\ t \in meta
    /\ index' = index \cup {t}
    /\ UNCHANGED <<disk, engine, pinsFile, ev>>
    /\ StillKept

\* pin: first in memory, where it needs a handle ...
Pin(t) ==
    /\ t \notin pinned
    /\ pinned' = pinned \cup {t}
    /\ loaded' = loaded \cup {t}
    /\ meta' = IF t \notin loaded /\ t \in index THEN meta \cup {t} ELSE meta
    /\ recent' = recent \cup {t}
    /\ UNCHANGED <<disk, files, ev>>
    /\ StillKept

\* ... then in pins.json, with the name if it is known
SavePin(t) ==
    /\ t \in pinned \cap loaded
    /\ pinsFile' = [pinsFile EXCEPT ![t] = IF t \in meta THEN "named" ELSE "unnamed"]
    /\ UNCHANGED <<disk, engine, index, ev>>
    /\ StillKept

Unpin(t) ==
    /\ t \in pinned
    /\ pinned' = pinned \ {t}
    /\ UNCHANGED <<disk, loaded, meta, recent, files, ev, kept>>

SaveUnpin(t) ==
    /\ t \notin pinned
    /\ pinsFile[t] # "no"
    /\ pinsFile' = [pinsFile EXCEPT ![t] = "no"]
    /\ UNCHANGED <<disk, engine, index, ev>>
    /\ StillKept

\* Engine.remove, for a client
Remove(t) ==
    /\ t \in loaded
    /\ loaded' = loaded \ {t}
    /\ meta' = meta \ {t}
    /\ recent' = recent \ {t}
    /\ UNCHANGED <<disk, pinned, files, ev>>
    /\ StillKept

\* the grace of a torrent's last request passes
Forget(t) ==
    /\ t \in recent
    /\ recent' = recent \ {t}
    /\ UNCHANGED <<disk, loaded, meta, pinned, files, ev>>
    /\ StillKept

\* the process restarts: load_pins_into_session adds what pins.json names
Restart ==
    /\ pinned' = {t \in Torrents : pinsFile[t] # "no"}
    /\ loaded' = pinned'
    /\ meta' = pinned' \cap index
    /\ recent' = pinned'
    /\ ev' = Idle
    /\ UNCHANGED <<disk, files>>
    /\ StillKept

----------------------------------------------------------------------------
(* The pass                                                                 *)

Goto(p) == ev' = [ev EXCEPT !.pc = p]

\* scan_cache, and the entries modified within the grace
Scan ==
    /\ ev.pc = "idle"
    /\ \E fresh \in SUBSET disk :
          ev' = [Idle EXCEPT !.pc = "recent", !.items = disk, !.inUse = fresh]
    /\ kept' = [Unkept EXCEPT !.pin = NamedPins, !.served = Served]
    /\ UNCHANGED <<disk, engine, files>>

\* Engine.recent_names
ReadRecent ==
    /\ ev.pc = "recent"
    /\ ev' = [ev EXCEPT !.pc = "pinned", !.inUse = @ \cup {Data(t) : t \in Served}]
    /\ UNCHANGED <<disk, engine, files, kept>>

\* mutant: the pinned names take the place of those found before
ReadPinnedOnly ==
    /\ ev.pc = "pinned"
    /\ ev' = [ev EXCEPT !.pc = "names", !.inUse = {Data(t) : t \in pinned \cap meta}]
    /\ UNCHANGED <<disk, engine, files, kept>>

\* Engine.pinned_names
ReadPinned ==
    /\ ev.pc = "pinned"
    /\ ev' = [ev EXCEPT !.pc = "names", !.inUse = @ \cup {Data(t) : t \in pinned \cap meta}]
    /\ UNCHANGED <<disk, engine, files, kept>>

\* Engine.name_to_hash
ReadNames ==
    /\ ev.pc = "names"
    /\ ev' = [ev EXCEPT !.pc = "pins", !.names = meta]
    /\ UNCHANGED <<disk, engine, files, kept>>

\* the engine's tables change while the pass goes through them: it fails
PassFails ==
    /\ ev.pc \in {"recent", "pinned", "names"}
    /\ ev' = Idle
    /\ kept' = Unkept
    /\ UNCHANGED <<disk, engine, files>>

\* load_pins
ReadPins ==
    /\ ev.pc = "pins"
    /\ ev' = [ev EXCEPT !.pc = "index",
                        !.keep = {t \in Torrents : pinsFile[t] # "no"},
                        !.inUse = @ \cup {Data(t) : t \in {u \in Torrents : pinsFile[u] = "named"}}]
    /\ UNCHANGED <<disk, engine, files, kept>>

\* mutant: the name index is not read
InUseNoIndex ==
    ev.inUse \cup {Parts(t) : t \in ev.keep \cup {u \in ev.names : Data(u) \in ev.inUse}}

\* load_name_index, which knows the names of pins made before their metadata;
\* and a partfile is protected with its torrent
InUse ==
    LET data == ev.inUse \cup {Data(t) : t \in ev.keep \cap index}
    IN  data \cup {Parts(t) : t \in ev.keep \cup {u \in ev.names : Data(u) \in data}}

\* select_evictions: the oldest entries not in use, until the target is met
Victims(inUse) ==
    LET candidates == ev.items \ inUse
        excess == IF Cardinality(ev.items) > Budget THEN Cardinality(ev.items) - Target ELSE 0
    IN  {V \in SUBSET candidates : Cardinality(V) =
            IF Cardinality(candidates) < excess THEN Cardinality(candidates) ELSE excess}

Select ==
    /\ ev.pc = "index"
    /\ \E V \in Victims(InUse) :
          ev' = [ev EXCEPT !.pc = "evict", !.items = {}, !.inUse = {}, !.keep = {}, !.todo = V]
    /\ UNCHANGED <<disk, engine, files, kept>>

\* the next victim: Engine.remove, if its name is that of a torrent
Stop(e) ==
    LET t == e[2]
    IN  /\ ev.pc = "evict" /\ e \in ev.todo
        /\ ev' = [ev EXCEPT !.pc = "data", !.todo = @ \ {e}, !.cur = e]
        /\ IF e = Data(t) /\ t \in ev.names
           THEN /\ loaded' = loaded \ {t}
                /\ meta' = meta \ {t}
                /\ recent' = recent \ {t}
                /\ kept' = [kept EXCEPT !.out = {t}, !.stuck = {}]
           ELSE UNCHANGED <<loaded, meta, recent>> /\ kept' = [kept EXCEPT !.stuck = {}]
        /\ UNCHANGED <<disk, pinned, files>>

\* _remove: an entry that cannot be deleted stays, and nobody is told
Unlink(e) ==
    \E gone \in {{}, {e}} :
       /\ disk' = disk \ gone
       /\ kept' = [kept EXCEPT !.stuck = @ \cup ({e} \ gone)]

NextVictim == ev' = [ev EXCEPT !.pc = "evict", !.cur = <<>>]

\* mutant: the partfile is left behind
DeleteEntryOnly ==
    /\ ev.pc = "data"
    /\ Unlink(ev.cur)
    /\ NextVictim
    /\ UNCHANGED <<engine, files>>

\* the victim, then the partfile that belongs to it
DeleteEntry ==
    LET t == ev.cur[2]
    IN  /\ ev.pc = "data"
        /\ Unlink(ev.cur)
        /\ IF ev.cur = Data(t) /\ t \in ev.names THEN Goto("parts") ELSE NextVictim
        /\ UNCHANGED <<engine, files>>

DeleteParts ==
    /\ ev.pc = "parts"
    /\ Unlink(Parts(ev.cur[2]))
    /\ NextVictim
    /\ UNCHANGED <<engine, files>>

PassDone ==
    /\ ev.pc = "evict" /\ ev.todo = {}
    /\ ev' = Idle
    /\ kept' = Unkept
    /\ UNCHANGED <<disk, engine, files>>

----------------------------------------------------------------------------
Server ==
    \/ \E t \in Torrents :
          \/ Open(t) \/ Learn(t) \/ SaveResume(t) \/ Forget(t) \/ Remove(t)
          \/ Pin(t) \/ SavePin(t) \/ Unpin(t) \/ SaveUnpin(t)
    \/ \E e \in Entries : Write(e)
    \/ Restart

Pass ==
    \/ Scan \/ ReadRecent \/ ReadPinned \/ ReadNames \/ ReadPins \/ Select
    \/ \E e \in Entries : Stop(e)
    \/ DeleteEntry \/ DeleteParts \/ PassDone \/ PassFails

Next == Server \/ Pass

Spec == Init /\ [][Next]_vars

----------------------------------------------------------------------------
\* What the evictor deletes in a step.
Deleted == disk \ disk'

\* A pin that pins.json or the name index gives a name for, all through the
\* pass, loses neither its data nor its partfile (of a step, as the next two).
PinsAreSpared == \A e \in Deleted : e[2] \notin kept.pin

\* Nor does a torrent that has been known to be served all through the pass.
ServedAreSpared == \A e \in Deleted : e[2] \notin kept.served

\* A victim's partfile goes with it, whichever of the two can be deleted: when the
\* pass moves on from a torrent it has stopped, and that has not been opened
\* since, nothing of it is left but what could not be deleted.
NothingLeftBehind ==
    ev.cur # <<>> /\ ev'.pc = "evict"
      => \A t \in kept.out : ev.cur = Data(t) => disk' \cap {Data(t), Parts(t)} \subseteq kept'.stuck

----------------------------------------------------------------------------
(* What the comments say and the code does not keep                        *)

\* "Don't evict torrents served within this many seconds."
ServedIsNeverEvicted == [][\A e \in Deleted : e[2] \notin Served]_vars

\* "stop libtorrent before deleting its files": of a torrent whose name the
\* pass knew, no partfile is deleted while the torrent is in the session.
StoppedBeforeDeleted ==
    [][\A t \in ev.names \cap loaded : ev.cur = Parts(t) => Parts(t) \notin Deleted]_vars
=============================================================================
