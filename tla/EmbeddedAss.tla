----------------------------- MODULE EmbeddedAss -----------------------------
(****************************************************************************)
(* The styled subtitles of the file a TV plays (stremiosrv/api/               *)
(* embedded_ass.py): what tracks and fonts a file has is probed once and      *)
(* remembered for the last files, windows of a track are cut by ffmpeg, and   *)
(* fonts are dumped into a directory per file, of which the last are kept.    *)
(* A lock per file covers the probe and the dump; the directory of a file     *)
(* that is dropped goes without it.                                           *)
(****************************************************************************)
EXTENDS Naturals, Sequences, FiniteSets, SequencesExt

CONSTANTS
    Threads,        \* the routes' own threads
    Files,
    FoundKeep,      \* files whose tracks are remembered
    FontsKeep,      \* files whose fonts stay
    Work,           \* ffmpeg at once
    MaxAsks,        \* bound of the requests
    Nothing

VARIABLES
    found,          \* _found, the file used last at the end
    lock,           \* _file_locks
    working,        \* _WORK: the threads that have a place
    used,           \* _fonts_used, the file used last at the end
    ready,          \* _font_root_ready
    dir,            \* what the directory of a file holds
    done,           \* the files with a .done in their directory
    doubt,          \* history: those marked by a thread that was crossed
    th,             \* what each thread does
    asks            \* requests so far

assVars == <<found, lock, working, used, ready, dir, done, doubt, th, asks>>
memory == <<found, used, ready>>
store == <<dir, done, doubt>>

\* crossed: history, the directory has been given up since the thread found it,
\* or had been by the time it was marked
Idle == [pc |-> "idle", kind |-> "ask", file |-> Nothing, stale |-> <<>>, crossed |-> FALSE]

TypeOK ==
    /\ Range(found) \cup Range(used) \subseteq Files /\ working \subseteq Threads
    /\ lock \in [Files -> Threads \cup {Nothing}]
    /\ dir \in [Files -> {"absent", "empty", "part", "whole"}] /\ done \subseteq Files
    /\ Len(found) <= FoundKeep + 1 /\ Len(used) <= FontsKeep + 1

Init ==
    /\ found = <<>> /\ used = <<>> /\ ready = FALSE /\ working = {} /\ asks = 0
    /\ lock = [f \in Files |-> Nothing]
    /\ \E left \in {"absent", "part", "whole"} : dir = [f \in Files |-> left]
    /\ done \in {{}, IF \A f \in Files : dir[f] = "whole" THEN Files ELSE {}} /\ doubt = {}
    /\ th = [t \in Threads |-> Idle]

Go(t, pc) == th' = [th EXCEPT ![t].pc = pc]
End(t) == th' = [th EXCEPT ![t] = Idle]
Without(order, f) ==
    IF f \in Range(order) THEN RemoveAt(order, CHOOSE i \in DOMAIN order : order[i] = f) ELSE order
Touch(order, f) == Append(Without(order, f), f)
Unlock(f) == lock' = [lock EXCEPT ![f] = Nothing]

\* what follows the discovery of each route
After(kind) == CASE kind = "ask" -> "idle" [] kind = "window" -> "place" [] kind = "font" -> "root"
Answered(t) == IF th[t].kind = "ask" THEN End(t) ELSE Go(t, After(th[t].kind))

----------------------------------------------------------------------------
\* a request for a file that is played
Ask(t) ==
    /\ asks < MaxAsks /\ asks' = asks + 1
    /\ th[t].pc = "idle"
    /\ \E kind \in {"ask", "window", "font"}, f \in Files :
         th' = [th EXCEPT ![t] = [Idle EXCEPT !.pc = "look", !.kind = kind, !.file = f]]
    /\ UNCHANGED <<memory, lock, working, store>>

\* _discovery: a remembered file waits for nobody
Discovery(t) ==
    /\ th[t].pc = "look"
    /\ LET f == th[t].file IN
         IF f \in Range(found) THEN found' = Touch(found, f) /\ Answered(t)
         ELSE Go(t, "lock") /\ UNCHANGED found
    /\ UNCHANGED <<lock, working, used, ready, store, asks>>

\* the first to get the lock probes, the others find what it has found
FileLock(t) ==
    /\ th[t].pc = "lock"
    /\ LET f == th[t].file IN
         /\ lock[f] = Nothing
         /\ IF f \in Range(found)
            THEN found' = Touch(found, f) /\ Answered(t) /\ UNCHANGED lock
            ELSE lock' = [lock EXCEPT ![f] = t] /\ Go(t, "probe") /\ UNCHANGED found
    /\ UNCHANGED <<working, used, ready, store, asks>>

\* the head arrives, is no manifest, and is probed; or the request fails
Probe(t) ==
    /\ th[t].pc = "probe"
    /\ LET f == th[t].file IN
         /\ \/ /\ found' = LET order == Touch(found, f)
                           IN IF Len(order) > FoundKeep THEN Tail(order) ELSE order
               /\ Answered(t)
            \/ UNCHANGED found /\ End(t)
         /\ Unlock(f)
    /\ UNCHANGED <<working, used, ready, store, asks>>

\* _run: a place for the ffmpeg of a window or of a dump, or 503
Acquire(t) ==
    /\ th[t].pc \in {"place", "dump"}
    /\ Cardinality(working) < Work
    /\ working' = working \cup {t}
    /\ Go(t, IF th[t].pc = "place" THEN "cut" ELSE "write")
    /\ UNCHANGED <<memory, lock, store, asks>>

Busy(t) ==
    /\ th[t].pc \in {"place", "dump"}
    /\ Cardinality(working) = Work
    /\ IF th[t].pc = "dump" THEN Unlock(th[t].file) ELSE UNCHANGED lock
    /\ End(t)
    /\ UNCHANGED <<memory, working, store, asks>>

\* the window is cut, or not
CutWindow(t) ==
    /\ th[t].pc = "cut"
    /\ working' = working \ {t}
    /\ End(t)
    /\ UNCHANGED <<memory, lock, store, asks>>

\* _font_root: what another process has left is not trusted
FontRoot(t) ==
    /\ th[t].pc = "root"
    /\ ready' = TRUE
    /\ IF ready THEN UNCHANGED store ELSE dir' = [f \in Files |-> "absent"] /\ done' = {} /\ UNCHANGED doubt
    /\ Go(t, "fonts")
    /\ UNCHANGED <<found, used, lock, working, asks>>

\* a directory that is given up by another thread, now or before it is used
Dropped(f) == \E u \in Threads : f \in Range(th[u].stale)

\* the directory is made anew, to be filled under the lock of its file
Fill(t) ==
    /\ lock' = [lock EXCEPT ![th[t].file] = t]
    /\ dir' = [dir EXCEPT ![th[t].file] = "empty"]
    /\ UNCHANGED doubt

\* mutant: the directory is marked before it is filled
MarkFirst(t) ==
    /\ th[t].pc = "fonts" /\ lock[th[t].file] = Nothing
    /\ LET f == th[t].file IN
         /\ th' = [th EXCEPT ![t].pc = IF f \in done THEN "touch" ELSE "dump",
                             ![t].crossed = Dropped(f) \/ f \in done \cap doubt]
         /\ IF f \in done THEN UNCHANGED <<lock, store>> ELSE Fill(t) /\ done' = done \cup {f}
    /\ UNCHANGED <<memory, working, asks>>

\* _fonts_dir, under the lock of the file: its directory is marked as done, or made anew
FontsDir(t) ==
    /\ th[t].pc = "fonts" /\ lock[th[t].file] = Nothing
    /\ LET f == th[t].file IN
         /\ th' = [th EXCEPT ![t].pc = IF f \in done THEN "touch" ELSE "dump",
                             ![t].crossed = Dropped(f) \/ f \in done \cap doubt]
         /\ IF f \in done THEN UNCHANGED <<lock, store>> ELSE Fill(t) /\ UNCHANGED done
    /\ UNCHANGED <<memory, working, asks>>

\* ffmpeg dumps the fonts, some of them, or fails
Dump(t) ==
    /\ th[t].pc = "write"
    /\ LET f == th[t].file IN
         \/ /\ dir[f] # "absent"
            /\ dir' = [dir EXCEPT ![f] = "whole"]
            /\ Go(t, "check") /\ UNCHANGED lock
         \/ /\ \E left \in {dir[f], IF dir[f] = "absent" THEN "absent" ELSE "part"} : dir' = [dir EXCEPT ![f] = left]
            /\ End(t) /\ Unlock(f)
    /\ working' = working \ {t}
    /\ UNCHANGED <<memory, done, doubt, asks>>

\* all of them are there
Check(t) ==
    /\ th[t].pc = "check"
    /\ IF dir[th[t].file] = "whole" THEN Go(t, "mark") /\ UNCHANGED lock ELSE End(t) /\ Unlock(th[t].file)
    /\ UNCHANGED <<memory, working, store, asks>>

Mark(t) ==
    /\ th[t].pc = "mark"
    /\ LET f == th[t].file IN
         /\ IF dir[f] = "absent" THEN End(t) /\ UNCHANGED <<done, doubt>>
            ELSE Go(t, "touch") /\ done' = done \cup {f}
                 /\ doubt' = IF th[t].crossed THEN doubt \cup {f} ELSE doubt \ {f}
         /\ Unlock(f)
    /\ UNCHANGED <<memory, working, dir, asks>>

\* the file is the last used, and those over the limit are given up
TouchFonts(t) ==
    /\ th[t].pc = "touch"
    /\ LET order == Touch(used, th[t].file)
           over == IF Len(order) > FontsKeep THEN Len(order) - FontsKeep ELSE 0
           stale == SubSeq(order, 1, over)
       IN /\ used' = SubSeq(order, over + 1, Len(order))
          /\ th' = [u \in Threads |->
               IF u = t THEN [th[t] EXCEPT !.pc = "drop", !.stale = stale]
               ELSE [th[u] EXCEPT !.crossed = @ \/ th[u].file \in Range(stale)]]
    /\ UNCHANGED <<found, ready, lock, working, store, asks>>

\* rmtree of what was given up: its files, and then the directory if it is empty
DropFiles(t) ==
    /\ th[t].pc = "drop" /\ th[t].stale # <<>>
    /\ LET f == Head(th[t].stale) IN
         /\ dir' = [dir EXCEPT ![f] = IF @ = "absent" THEN @ ELSE "empty"]
         /\ done' = done \ {f}
    /\ Go(t, "rmdir")
    /\ UNCHANGED <<memory, lock, working, doubt, asks>>

DropDir(t) ==
    /\ th[t].pc = "rmdir"
    /\ LET f == Head(th[t].stale) IN
         dir' = [dir EXCEPT ![f] = IF @ = "empty" /\ f \notin done THEN "absent" ELSE @]
    /\ th' = [th EXCEPT ![t].pc = "drop", ![t].stale = Tail(@)]
    /\ UNCHANGED <<memory, lock, working, done, doubt, asks>>

\* the file is sent
Font(t) ==
    /\ th[t].pc = "drop" /\ th[t].stale = <<>>
    /\ End(t)
    /\ UNCHANGED <<memory, lock, working, store, asks>>

Next ==
    \E t \in Threads :
      \/ Ask(t) \/ Discovery(t) \/ FileLock(t) \/ Probe(t)
      \/ Acquire(t) \/ Busy(t) \/ CutWindow(t)
      \/ FontRoot(t) \/ FontsDir(t) \/ Dump(t) \/ Check(t) \/ Mark(t) \/ TouchFonts(t)
      \/ DropFiles(t) \/ DropDir(t) \/ Font(t)

Spec == Init /\ [][Next]_assVars

----------------------------------------------------------------------------
Sends(t) == th[t].pc = "drop" /\ th[t].stale = <<>>

\* A font that is sent is there, unless another thread has given up the fonts of
\* its file while this one fetched them, or while they were marked as dumped; at
\* most one probe or dump of a file runs at a time, and at most Work of ffmpeg,
\* whichever requests fail.
FontsAreThere ==
    /\ \A t \in Threads : Sends(t) /\ ~th[t].crossed => dir[th[t].file] = "whole"
    /\ \A t \in Threads : th[t].pc \in {"probe", "dump", "write", "check", "mark"} => lock[th[t].file] = t
    /\ working = {t \in Threads : th[t].pc \in {"cut", "write"}} /\ Cardinality(working) <= Work

(* What the code does not keep:                                             *)

\* A font that is sent is there.
SentIsThere == \A t \in Threads : Sends(t) => dir[th[t].file] = "whole"

\* A directory that is marked as done holds its fonts, or is being deleted.
DoneIsWhole ==
    \A f \in done : dir[f] = "whole" \/ ~ready \/ Dropped(f)
=============================================================================
