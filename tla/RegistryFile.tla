---------------------------- MODULE RegistryFile ----------------------------
(****************************************************************************)
(* A JSON registry under the cache root, changed by loading the whole file, *)
(* changing one entry, and writing the whole file back through a temporary  *)
(* file that os.replace moves into place.                                   *)
(*                                                                          *)
(* The library's labels.json and library-ui.json take a module lock around  *)
(* load and save, and name the temporary file after the thread              *)
(* (stremiosrv/library/labels.py, session.py): Guarded = TRUE.  pins.json   *)
(* and wanted.json do neither (stremiosrv/pins.py, wanted.py, and their     *)
(* callers in torrent/engine.py): Guarded = FALSE.                          *)
(*                                                                          *)
(* An open file descriptor follows the file: when somebody else's replace   *)
(* moves the temporary file a writer still has open, that writer goes on    *)
(* writing the registry itself.                                             *)
(****************************************************************************)
EXTENDS Naturals, FiniteSets

CONSTANTS
    Writers,        \* the threads that change the registry
    Keys, Values, NoValue,
    Torn,           \* file content that json.load refuses
    Missing,        \* no file
    Guarded

ASSUME RegistryAssumption ==
    /\ Keys # {}
    /\ NoValue \notin Values
    /\ Torn \notin [Keys -> Values \cup {NoValue}]
    /\ Missing \notin [Keys -> Values \cup {NoValue}]
    /\ Torn # Missing
    /\ Guarded \in BOOLEAN

Maps == [Keys -> Values \cup {NoValue}]
Empty == [k \in Keys |-> NoValue]

Ops == [kind : {"put", "learn", "amend"}, key : Keys, value : Values]
         \cup [kind : {"drop"}, key : Keys, value : {NoValue}]

\* one temporary name for everybody, or one for each writer
TmpNames == IF Guarded THEN Writers ELSE {"tmp"}
TmpOf(w) == IF Guarded THEN w ELSE "tmp"

VARIABLES
    file,       \* content of the registry
    tmp,        \* content of each temporary name
    lock,       \* the writers holding the module lock, when there is one
    pc,         \* where each writer is
    op,         \* the change it makes
    data,       \* what it loaded, and then what it is going to write
    fd,         \* what its open descriptor names: "tmp", "file" or "none"
    alone       \* history: the writers no other call has overlapped so far

vars == <<file, tmp, lock, pc, op, data, fd, alone>>

TypeOK ==
    /\ file \in Maps \cup {Torn, Missing}
    /\ tmp \in [TmpNames -> Maps \cup {Torn, Missing}]
    /\ lock \in SUBSET Writers
    /\ pc \in [Writers -> {"idle", "load", "open", "write", "replace"}]
    /\ op \in [Writers -> Ops]
    /\ data \in [Writers -> Maps]
    /\ fd \in [Writers -> {"none", "tmp", "file"}]
    /\ alone \in SUBSET Writers
    /\ \A w \in Writers : fd[w] = "none" <=> pc[w] # "write"

AnOp == CHOOSE o \in Ops : o.kind = "drop"

Init ==
    /\ file = Missing
    /\ tmp = [n \in TmpNames |-> Missing]
    /\ lock = {}
    /\ pc = [w \in Writers |-> "idle"]
    /\ op = [w \in Writers |-> AnOp]
    /\ data = [w \in Writers |-> Empty]
    /\ fd = [w \in Writers |-> "none"]
    /\ alone = {}

Goto(w, p) == pc' = [pc EXCEPT ![w] = p]

\* load: an absent or unreadable registry is an empty one
Loaded(content) == IF content \in {Torn, Missing} THEN Empty ELSE content

\* the call returns, and the lock is released
Return(w) ==
    /\ Goto(w, "idle")
    /\ lock' = lock \ {w}
    /\ op' = [op EXCEPT ![w] = AnOp]
    /\ data' = [data EXCEPT ![w] = Empty]
    /\ alone' = alone \ {w}

----------------------------------------------------------------------------
\* mutant: the lock is not waited for
CallUnlocked(w) ==
    /\ pc[w] = "idle"
    /\ \E o \in Ops : op' = [op EXCEPT ![w] = o]
    /\ lock' = lock \cup {w}
    /\ alone' = IF \A x \in Writers : pc[x] = "idle" THEN {w} ELSE {}
    /\ Goto(w, "load")
    /\ UNCHANGED <<file, tmp, data, fd>>

\* put, learn, add_file / touch_last_source, or drop is called
Call(w) ==
    /\ pc[w] = "idle"
    /\ Guarded => lock = {}
    /\ \E o \in Ops : op' = [op EXCEPT ![w] = o]
    /\ lock' = IF Guarded THEN {w} ELSE lock
    /\ alone' = IF \A x \in Writers : pc[x] = "idle" THEN {w} ELSE {}
    /\ Goto(w, "load")
    /\ UNCHANGED <<file, tmp, data, fd>>

\* what the call makes of the registry
Changed(o, m) == [m EXCEPT ![o.key] = o.value]

\* the calls that find nothing to do return without saving
Applies(o, m) ==
    /\ o.kind = "learn" => m[o.key] = NoValue
    /\ o.kind \in {"amend", "drop"} => m[o.key] # NoValue

Load(w) ==
    /\ pc[w] = "load"
    /\ LET m == Loaded(file)
       IN  IF Applies(op[w], m)
           THEN /\ data' = [data EXCEPT ![w] = Changed(op[w], m)]
                /\ Goto(w, "open")
                /\ UNCHANGED <<op, lock, alone>>
           ELSE Return(w)
    /\ UNCHANGED <<file, tmp, fd>>

\* mutant: what an earlier, failed writer left is written over, not truncated
OpenTmpKept(w) ==
    /\ pc[w] = "open"
    /\ tmp' = [tmp EXCEPT ![TmpOf(w)] = IF @ = Missing THEN Torn ELSE @]
    /\ fd' = [fd EXCEPT ![w] = "tmp"]
    /\ Goto(w, "write")
    /\ UNCHANGED <<file, lock, op, data, alone>>

\* open(tmp, "w") truncates, or creates, the temporary file
OpenTmp(w) ==
    /\ pc[w] = "open"
    /\ tmp' = [tmp EXCEPT ![TmpOf(w)] = Torn]
    /\ fd' = [fd EXCEPT ![w] = "tmp"]
    /\ Goto(w, "write")
    /\ UNCHANGED <<file, lock, op, data, alone>>

\* What a write through the descriptor leaves: the new content, but a shorter
\* one over a longer one leaves the tail of that.
Written(old, new) == IF old \in {Torn, new} THEN {new} ELSE {new, Torn}

\* json.dump and close
WriteTmp(w) ==
    /\ pc[w] = "write"
    /\ \/ /\ fd[w] = "tmp"
          /\ \E c \in Written(tmp[TmpOf(w)], data[w]) : tmp' = [tmp EXCEPT ![TmpOf(w)] = c]
          /\ UNCHANGED file
       \/ /\ fd[w] = "file"
          /\ file' \in Written(file, data[w])
          /\ UNCHANGED tmp
    /\ fd' = [fd EXCEPT ![w] = "none"]
    /\ Goto(w, "replace")
    /\ UNCHANGED <<lock, op, data, alone>>

\* os.replace(tmp, path), which raises when the temporary file is gone.  A
\* writer that still has it open writes the registry from now on, and one that
\* had the old registry open writes a file nobody sees.
Replace(w) ==
    /\ pc[w] = "replace"
    /\ IF tmp[TmpOf(w)] = Missing
       THEN UNCHANGED <<file, tmp, fd>>
       ELSE /\ file' = tmp[TmpOf(w)]
            /\ tmp' = [tmp EXCEPT ![TmpOf(w)] = Missing]
            /\ fd' = [x \in Writers |->
                        IF fd[x] = "tmp" /\ TmpOf(x) = TmpOf(w) THEN "file" ELSE fd[x]]
    /\ Return(w)

\* a write fails (no space left): the exception leaves the call
WriteFails(w) ==
    /\ pc[w] \in {"open", "write"}
    /\ fd' = [fd EXCEPT ![w] = "none"]
    /\ Return(w)
    /\ UNCHANGED <<file, tmp>>

\* the process dies; the files stay as they are
Crash ==
    /\ lock' = {}
    /\ pc' = [w \in Writers |-> "idle"]
    /\ op' = [w \in Writers |-> AnOp]
    /\ data' = [w \in Writers |-> Empty]
    /\ fd' = [w \in Writers |-> "none"]
    /\ alone' = {}
    /\ UNCHANGED <<file, tmp>>

Step(w) == Load(w) \/ OpenTmp(w) \/ WriteTmp(w) \/ Replace(w)

Next ==
    \/ \E w \in Writers : Call(w) \/ Step(w) \/ WriteFails(w)
    \/ Crash

Spec == Init /\ [][Next]_vars

----------------------------------------------------------------------------
\* The registry on disk is never unreadable: whatever is interrupted or fails,
\* a reader finds the result of a completed change.
NeverTorn == file # Torn

\* The abstract registry is what a reader of the file would load.
Abstract == INSTANCE AtomicRegistry WITH reg <- Loaded(file)

\* Every save is the effect of one call on the registry as it is then.
ImplementsAtomic == Abstract!Spec

\* With or without the lock, a call no other call overlaps records exactly its
\* own change, whatever earlier calls left half-done.
AloneIsAtomic ==
    [][ \A w \in alone : file' # file => file' = Changed(op[w], Loaded(file)) ]_vars

(* For the unguarded registries:                                            *)

\* A completed pin or download is on disk: no replace but the one of a call
\* for key k changes the entry of k.
NoLostUpdate ==
    [][ \A w \in Writers : \A k \in Keys :
          pc[w] = "replace" /\ pc'[w] = "idle" /\ op[w].key # k
            => Loaded(file)'[k] = Loaded(file)[k] ]_vars
=============================================================================
