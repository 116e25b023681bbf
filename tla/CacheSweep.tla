------------------------------ MODULE CacheSweep ------------------------------
(****************************************************************************)
(* The resume records of a cache root and the index of their names: the       *)
(* alerts thread writes them (torrent/engine.py), the evictor's daily sweep   *)
(* retires what nothing claims (stremiosrv/cache.py), and downloads, keeps    *)
(* and evictions go on meanwhile.  No lock covers any of it.  A record is     *)
(* old once it is over the retention; a sweep is short against that.          *)
(****************************************************************************)
EXTENDS Naturals, Functions

CONSTANTS
    Torrents,
    Names,          \* names in the cache root
    NameOf,         \* the name of each torrent: two may share one
    MaxEvents,      \* bound of what requests do
    Nothing

VARIABLES
    disk,           \* the names that have data in the root
    records,        \* .resume/<hash>.fastresume, by age
    temps,          \* .resume/<hash>.fastresume.tmp, by age
    index,          \* .resume/index.json
    pins, wanted,   \* pins.json, wanted.json
    alerts,         \* the thread that saves
    sweep,          \* the thread that retires
    events,         \* requests so far
    safe            \* history: the torrents each registry has claimed ever since the sweep began

files == <<disk, records, temps, index, pins, wanted>>
sweepVars == <<files, alerts, sweep, events, safe>>

Resting == [pc |-> "idle", tor |-> Nothing, idx |-> Nothing]
Asleep == [pc |-> "idle", todo |-> {}, disk |-> {}, claimed |-> {}, look |-> Nothing, idx |-> Nothing]

TypeOK ==
    /\ disk \subseteq Names /\ pins \subseteq Torrents /\ wanted \subseteq Torrents
    /\ records \in [Torrents -> {"none", "fresh", "old"}] /\ temps \in [Torrents -> {"none", "fresh", "old"}]
    /\ index \in [Names -> Torrents \cup {Nothing}]
    /\ safe \in [{"index", "pins", "wanted"} -> SUBSET Torrents]

\* what claims a record: data the index knows to be there, a keep, a wanted file
IndexedOn(names) == {t \in Torrents : NameOf[t] \in names /\ index[NameOf[t]] = t}
Claims == [index |-> IndexedOn(disk), pins |-> pins, wanted |-> wanted]
NoClaims == [r \in {"index", "pins", "wanted"} |-> {}]
StillSafe == safe' = [r \in DOMAIN safe |-> safe[r] \cap (Claims[r])']

Init ==
    /\ disk \in SUBSET Names /\ pins \in SUBSET Torrents /\ wanted = {}
    /\ records \in [Torrents -> {"none", "old"}] /\ temps = [t \in Torrents |-> "none"]
    /\ index \in [Names -> Torrents \cup {Nothing}]
    /\ \A n \in Names : index[n] # Nothing => NameOf[index[n]] = n
    /\ alerts = Resting /\ sweep = Asleep /\ events = 0 /\ safe = NoClaims

----------------------------------------------------------------------------
(* The alerts thread.                                                       *)

\* save_resume_data_alert: the record is written beside its place ...
WriteRecord(t) ==
    /\ alerts.pc = "idle"
    /\ events < MaxEvents /\ events' = events + 1
    /\ temps' = [temps EXCEPT ![t] = "fresh"]
    /\ alerts' = [alerts EXCEPT !.pc = "replace", !.tor = t]
    /\ UNCHANGED <<disk, records, index, pins, wanted, sweep, safe>>

\* ... put in place, unless the disk is full ...
ReplaceRecord ==
    /\ alerts.pc = "replace"
    /\ \/ /\ records' = [records EXCEPT ![alerts.tor] = "fresh"]
          /\ temps' = [temps EXCEPT ![alerts.tor] = "none"]
       \/ UNCHANGED <<records, temps>>
    /\ alerts' = [alerts EXCEPT !.pc = "load"]
    /\ UNCHANGED <<disk, index, pins, wanted, sweep, events, safe>>

\* ... and the index is loaded, changed and saved
LoadIndex ==
    /\ alerts.pc = "load"
    /\ alerts' = [alerts EXCEPT !.pc = "save", !.idx = index]
    /\ UNCHANGED <<files, sweep, events, safe>>

SaveIndex ==
    /\ alerts.pc = "save"
    /\ index' = [alerts.idx EXCEPT ![NameOf[alerts.tor]] = alerts.tor]
    /\ alerts' = Resting
    /\ UNCHANGED <<disk, records, temps, pins, wanted, sweep, events>>
    /\ StillSafe

----------------------------------------------------------------------------
(* The sweep.                                                               *)

\* sweep_resume lists the directory first
SweepList ==
    /\ sweep.pc = "idle"
    /\ sweep' = [sweep EXCEPT !.pc = "disk", !.todo = {t \in Torrents : records[t] # "none" \/ temps[t] # "none"}]
    /\ safe' = Claims
    /\ UNCHANGED <<files, alerts, events>>

\* claimed_hashes: the root, the index, the pins and the wanted files, one after another
ListDisk ==
    /\ sweep.pc = "disk"
    /\ sweep' = [sweep EXCEPT !.pc = "index", !.disk = disk]
    /\ UNCHANGED <<files, alerts, events, safe>>

ReadIndex ==
    /\ sweep.pc = "index"
    /\ sweep' = [sweep EXCEPT !.pc = "pins", !.claimed = IndexedOn(sweep.disk)]
    /\ UNCHANGED <<files, alerts, events, safe>>

ReadPins ==
    /\ sweep.pc = "pins"
    /\ sweep' = [sweep EXCEPT !.pc = "wanted", !.claimed = @ \cup pins]
    /\ UNCHANGED <<files, alerts, events, safe>>

ReadWanted ==
    /\ sweep.pc = "wanted"
    /\ sweep' = [sweep EXCEPT !.pc = "visit", !.claimed = @ \cup wanted]
    /\ UNCHANGED <<files, alerts, events, safe>>

\* the records that go: old, and of nothing that is claimed
Retired(t) == t \notin sweep.claimed /\ records[t] = "old"

\* a record is looked at ...
Look(t) ==
    /\ sweep.pc = "visit" /\ t \in sweep.todo
    /\ sweep' = [sweep EXCEPT !.todo = @ \ {t}, !.look = t, !.pc = IF Retired(t) THEN "remove" ELSE "visit"]
    /\ temps' = [temps EXCEPT ![t] = IF @ = "old" THEN "none" ELSE @]
    /\ UNCHANGED <<disk, records, index, pins, wanted, alerts, events, safe>>

\* ... and deleted by its name, whatever has been put there since
Remove ==
    /\ sweep.pc = "remove"
    /\ records' = [records EXCEPT ![sweep.look] = "none"]
    /\ sweep' = [sweep EXCEPT !.pc = "visit"]
    /\ UNCHANGED <<disk, temps, index, pins, wanted, alerts, events, safe>>

\* _prune_name_index, on the claims the sweep began with
PruneLoad ==
    /\ sweep.pc = "visit" /\ sweep.todo = {}
    /\ sweep' = [sweep EXCEPT !.pc = "prune", !.idx = index]
    /\ UNCHANGED <<files, alerts, events, safe>>

PruneList ==
    /\ sweep.pc = "prune"
    /\ sweep' = [sweep EXCEPT !.pc = "save", !.disk = disk]
    /\ UNCHANGED <<files, alerts, events, safe>>

\* mutant: only what is on the disk stays
PrunedToDisk ==
    [n \in Names |-> IF n \in sweep.disk THEN sweep.idx[n] ELSE Nothing]

Pruned ==
    [n \in Names |->
       IF sweep.idx[n] # Nothing
          /\ (n \in sweep.disk \/ sweep.idx[n] \in sweep.claimed \/ records[sweep.idx[n]] # "none")
       THEN sweep.idx[n] ELSE Nothing]

PruneSave ==
    /\ sweep.pc = "save"
    /\ index' = IF Pruned = sweep.idx THEN index ELSE Pruned
    /\ sweep' = Asleep
    /\ UNCHANGED <<disk, records, temps, pins, wanted, alerts, events>>
    /\ StillSafe

----------------------------------------------------------------------------
(* The rest of the server.                                                  *)

\* data arrives; a keep or a download is made or dropped
Request ==
    /\ events < MaxEvents /\ events' = events + 1
    /\ \/ \E n \in Names \ disk : disk' = disk \cup {n} /\ UNCHANGED <<pins, wanted>>
       \/ \E t \in Torrents : pins' \in {pins \cup {t}, pins \ {t}} /\ UNCHANGED <<disk, wanted>>
       \/ \E t \in Torrents : wanted' \in {wanted \cup {t}, wanted \ {t}} /\ UNCHANGED <<disk, pins>>
    /\ UNCHANGED <<records, temps, index, alerts, sweep>>
    /\ StillSafe

\* a removal deletes data, and then the record, whatever the sweep is at; so does an
\* eviction with data, between two sweeps
Removal ==
    /\ events < MaxEvents /\ events' = events + 1
    /\ \/ \E n \in disk : disk' = disk \ {n} /\ UNCHANGED records
       \/ \E t \in Torrents : records' = [records EXCEPT ![t] = "none"] /\ UNCHANGED disk
    /\ UNCHANGED <<temps, index, pins, wanted, alerts, sweep>>
    /\ StillSafe

Restart ==
    /\ events < MaxEvents /\ events' = events + 1
    /\ alerts' = Resting /\ sweep' = Asleep /\ safe' = NoClaims
    /\ UNCHANGED files

\* a year goes by
Age ==
    /\ events < MaxEvents /\ events' = events + 1
    /\ sweep.pc = "idle" /\ alerts.pc = "idle"
    /\ records' = [t \in Torrents |-> IF records[t] = "none" THEN "none" ELSE "old"]
    /\ temps' = [t \in Torrents |-> IF temps[t] = "none" THEN "none" ELSE "old"]
    /\ UNCHANGED <<disk, index, pins, wanted, alerts, sweep, safe>>

Next ==
    \/ \E t \in Torrents : WriteRecord(t) \/ Look(t)
    \/ ReplaceRecord \/ LoadIndex \/ SaveIndex
    \/ SweepList \/ ListDisk \/ ReadIndex \/ ReadPins \/ ReadWanted \/ Remove \/ PruneLoad \/ PruneList \/ PruneSave
    \/ Request \/ Removal \/ Restart \/ Age

Spec == Init /\ [][Next]_sweepVars

----------------------------------------------------------------------------
\* The sweep deletes no record of what a registry has claimed since it began, and no
\* entry of the index for it that it has read.
SweepSparesSafe ==
    \A t \in UNION Range(safe) :
      /\ sweep' # sweep /\ records[t] # "none" => records'[t] # "none"
      /\ sweep.pc = "save" /\ sweep'.pc = "idle" /\ sweep.idx[NameOf[t]] = t /\ index[NameOf[t]] = t
           => index'[NameOf[t]] = t
SweepSparesClaimed == [][SweepSparesSafe]_sweepVars

(* What the code does not keep:                                             *)

\* "nothing claims any more": what is claimed when its record is retired is not.
RetiredIsUnclaimed ==
    [][\A t \in UNION Range(Claims) : sweep' # sweep /\ records[t] # "none" => records'[t] # "none"]_sweepVars

\* An entry of the index that the alerts thread has saved is there until the sweep
\* finds it names nothing.
IndexKept ==
    [][\A n \in disk : index[n] # Nothing => index'[n] # Nothing]_sweepVars
=============================================================================
