-------------------------- MODULE RegistryFileProofs --------------------------
(****************************************************************************)
(* The registries of the library, which take the lock and name a temporary  *)
(* file for each thread, implement the atomic map of AtomicRegistry: for    *)
(* any writers, keys and values, with failing writes and crashes.           *)
(****************************************************************************)
EXTENDS RegistryFile, TLAPS

\* Only the holder of the lock is inside a call.
OneWriter == \A w \in Writers : pc[w] # "idle" => lock = {w}

\* From its load to its replace the writer's data is what its call makes of
\* the registry, which nobody else has changed.
DataIsChange ==
    \A w \in Writers : pc[w] \in {"open", "write", "replace"} =>
        Applies(op[w], Loaded(file)) /\ data[w] = Changed(op[w], Loaded(file))

\* Its temporary file is truncated when it is opened and complete when closed.
TmpFollows ==
    \A w \in Writers : /\ pc[w] = "write" => fd[w] = "tmp" /\ tmp[w] = Torn
                       /\ pc[w] = "replace" => tmp[w] = data[w]

IInv == Guarded = TRUE /\ TypeOK /\ OneWriter /\ DataIsChange /\ TmpFollows /\ NeverTorn

LEMMA Names == Guarded = TRUE => TmpNames = Writers /\ \A w : TmpOf(w) = w
  BY DEF TmpNames, TmpOf

LEMMA MapFacts ==
    /\ Empty \in Maps
    /\ AnOp \in Ops
    /\ Torn \notin Maps
    /\ Missing \notin Maps
  <1>1. Empty \in Maps
    BY DEF Empty, Maps
  <1>2. \E o \in Ops : o.kind = "drop"
    <2>1. PICK k \in Keys : TRUE
      BY RegistryAssumption
    <2>2. [kind |-> "drop", key |-> k, value |-> NoValue] \in Ops
      BY DEF Ops
    <2> QED BY <2>2
  <1>3. AnOp \in Ops
    BY <1>2 DEF AnOp
  <1> QED BY <1>1, <1>3, RegistryAssumption DEF Maps

LEMMA LoadedIsMap ==
    ASSUME NEW c \in Maps \cup {Torn, Missing}
    PROVE  Loaded(c) \in Maps
  BY MapFacts DEF Loaded

LEMMA ChangedIsMap ==
    ASSUME NEW o \in Ops, NEW m \in Maps
    PROVE  Changed(o, m) \in Maps
  <1>1. o.key \in Keys /\ o.value \in Values \cup {NoValue}
    BY DEF Ops
  <1> QED BY <1>1 DEF Changed, Maps

LEMMA InitInv == Guarded = TRUE /\ Init => IInv
  <1> SUFFICES ASSUME Guarded = TRUE, Init PROVE IInv
    OBVIOUS
  <1> USE DEF Init
  <1>1. TypeOK
    BY MapFacts DEF TypeOK
  <1>2. NeverTorn
    BY RegistryAssumption DEF NeverTorn
  <1> QED BY <1>1, <1>2 DEF IInv, OneWriter, DataIsChange, TmpFollows

LEMMA StepInv == IInv /\ [Next]_vars => IInv'
  <1> SUFFICES ASSUME IInv, [Next]_vars PROVE IInv'
    OBVIOUS
  <1>n. Guarded = TRUE /\ TmpNames = Writers /\ \A w : TmpOf(w) = w
    BY Names DEF IInv
  <1> USE <1>n
  <1>0. /\ TypeOK /\ OneWriter /\ DataIsChange /\ TmpFollows /\ NeverTorn
        /\ Loaded(file) \in Maps
    BY LoadedIsMap DEF IInv, TypeOK
  <1>1. ASSUME NEW w \in Writers, Call(w) PROVE IInv'
    <2>0. lock = {} /\ lock' = {w} /\ pc[w] = "idle"
      BY <1>1 DEF Call
    <2>1. \A x \in Writers : pc[x] = "idle"
      BY <2>0, <1>0 DEF OneWriter
    <2>2. pc' = [pc EXCEPT ![w] = "load"] /\ UNCHANGED <<file, tmp, data, fd>>
      BY <1>1 DEF Call, Goto
    <2>3. TypeOK'
      <3>1. op' \in [Writers -> Ops] /\ alone' \in SUBSET Writers
        BY <1>0, <1>1 DEF TypeOK, Call
      <3> QED BY <1>0, <2>0, <2>1, <2>2, <3>1 DEF TypeOK
    <2> QED BY <1>0, <2>0, <2>1, <2>2, <2>3
            DEF IInv, TypeOK, OneWriter, DataIsChange, TmpFollows, NeverTorn
  <1>2. ASSUME NEW w \in Writers, Return(w), UNCHANGED <<file, tmp>>, pc[w] # "idle",
               fd' = [fd EXCEPT ![w] = "none"]
        PROVE  IInv'
    <2>1. pc' = [pc EXCEPT ![w] = "idle"] /\ lock' = lock \ {w}
          /\ op' = [op EXCEPT ![w] = AnOp] /\ data' = [data EXCEPT ![w] = Empty]
          /\ alone' = alone \ {w}
      BY <1>2 DEF Return, Goto
    <2>2. TypeOK'
      BY <1>0, <1>2, <2>1, MapFacts DEF TypeOK
    <2>3. \A x \in Writers : pc'[x] = "idle"
      BY <1>0, <1>2, <2>1 DEF OneWriter, TypeOK
    <2> QED BY <1>0, <1>2, <2>2, <2>3 DEF IInv, OneWriter, DataIsChange, TmpFollows, NeverTorn
  <1>3. ASSUME NEW w \in Writers, Load(w) PROVE IInv'
    <2>0. pc[w] = "load" /\ UNCHANGED <<file, tmp, fd>>
      BY <1>3 DEF Load
    <2>1. CASE Applies(op[w], Loaded(file))
      <3>1. /\ data' = [data EXCEPT ![w] = Changed(op[w], Loaded(file))]
            /\ pc' = [pc EXCEPT ![w] = "open"]
            /\ UNCHANGED <<op, lock, alone>>
        BY <1>3, <2>1 DEF Load, Goto
      <3>2. Changed(op[w], Loaded(file)) \in Maps
        BY <1>0, ChangedIsMap DEF TypeOK
      <3>3. TypeOK'
        BY <1>0, <2>0, <3>1, <3>2 DEF TypeOK
      <3>4. DataIsChange'
        BY <1>0, <2>0, <2>1, <3>1 DEF DataIsChange, TypeOK
      <3> QED BY <1>0, <2>0, <3>1, <3>3, <3>4 DEF IInv, OneWriter, TmpFollows, NeverTorn, TypeOK
    <2>2. CASE ~Applies(op[w], Loaded(file))
      <3>1. Return(w)
        BY <1>3, <2>2 DEF Load
      <3>2. fd' = [fd EXCEPT ![w] = "none"]
        BY <1>0, <2>0 DEF TypeOK
      <3> QED BY <1>2, <2>0, <3>1, <3>2
    <2> QED BY <2>1, <2>2
  <1>4. ASSUME NEW w \in Writers, OpenTmp(w) PROVE IInv'
    <2>1. /\ pc[w] = "open" /\ pc' = [pc EXCEPT ![w] = "write"]
          /\ tmp' = [tmp EXCEPT ![w] = Torn] /\ fd' = [fd EXCEPT ![w] = "tmp"]
          /\ UNCHANGED <<file, lock, op, data, alone>>
      BY <1>4 DEF OpenTmp, Goto
    <2>2. TypeOK'
      BY <1>0, <2>1 DEF TypeOK
    <2>3. TmpFollows'
      BY <1>0, <2>1 DEF TmpFollows, TypeOK
    <2> QED BY <1>0, <2>1, <2>2, <2>3 DEF IInv, OneWriter, DataIsChange, NeverTorn, TypeOK
  <1>5. ASSUME NEW w \in Writers, WriteTmp(w) PROVE IInv'
    <2>0. pc[w] = "write" /\ fd[w] = "tmp" /\ tmp[w] = Torn
      BY <1>0, <1>5 DEF WriteTmp, TmpFollows
    <2>1. /\ tmp' = [tmp EXCEPT ![w] = data[w]] /\ fd' = [fd EXCEPT ![w] = "none"]
          /\ pc' = [pc EXCEPT ![w] = "replace"]
          /\ UNCHANGED <<file, lock, op, data, alone>>
      BY <1>5, <2>0 DEF WriteTmp, Goto, Written
    <2>2. TypeOK'
      BY <1>0, <2>1 DEF TypeOK
    <2>3. TmpFollows'
      BY <1>0, <2>1 DEF TmpFollows, TypeOK
    <2> QED BY <1>0, <2>0, <2>1, <2>2, <2>3 DEF IInv, OneWriter, DataIsChange, NeverTorn, TypeOK
  <1>6. ASSUME NEW w \in Writers, Replace(w) PROVE IInv'
    <2>0. pc[w] = "replace" /\ tmp[w] = data[w] /\ data[w] \in Maps
      BY <1>0, <1>6 DEF Replace, TmpFollows, TypeOK
    <2>1. /\ file' = data[w] /\ tmp' = [tmp EXCEPT ![w] = Missing]
          /\ fd' = [x \in Writers |-> IF fd[x] = "tmp" /\ TmpOf(x) = TmpOf(w) THEN "file" ELSE fd[x]]
          /\ Return(w)
      BY <1>6, <2>0, MapFacts DEF Replace
    <2>2. \A x \in Writers : x # w => pc[x] = "idle"
      BY <1>0, <2>0 DEF OneWriter
    <2>3. pc' = [pc EXCEPT ![w] = "idle"] /\ lock' = lock \ {w}
          /\ op' = [op EXCEPT ![w] = AnOp] /\ data' = [data EXCEPT ![w] = Empty]
          /\ alone' = alone \ {w}
      BY <2>1 DEF Return, Goto
    <2>4. \A x \in Writers : pc'[x] = "idle"
      BY <1>0, <2>2, <2>3 DEF TypeOK
    <2>5. \A x \in Writers : fd[x] = "none"
      BY <1>0, <2>0, <2>2 DEF TypeOK
    <2>6. fd' = fd
      BY <1>0, <2>1, <2>5 DEF TypeOK
    <2>7. TypeOK'
      BY <1>0, <2>0, <2>1, <2>3, <2>4, <2>5, <2>6, MapFacts DEF TypeOK
    <2>8. NeverTorn'
      BY <2>0, <2>1, MapFacts DEF NeverTorn
    <2> QED BY <2>4, <2>7, <2>8 DEF IInv, OneWriter, DataIsChange, TmpFollows
  <1>7. ASSUME NEW w \in Writers, WriteFails(w) PROVE IInv'
    <2>1. Return(w) /\ UNCHANGED <<file, tmp>> /\ pc[w] # "idle"
          /\ fd' = [fd EXCEPT ![w] = "none"]
      BY <1>7 DEF WriteFails
    <2> QED BY <1>2, <2>1
  <1>8. CASE Crash
    <2>1. TypeOK'
      BY <1>0, <1>8, MapFacts DEF TypeOK, Crash
    <2>2. (\A x \in Writers : pc'[x] = "idle") /\ file' = file
      BY <1>8 DEF Crash
    <2> QED BY <1>0, <2>1, <2>2 DEF IInv, OneWriter, DataIsChange, TmpFollows, NeverTorn
  <1>9. CASE UNCHANGED vars
    BY <1>0, <1>9 DEF vars, IInv, TypeOK, OneWriter, DataIsChange, TmpFollows, NeverTorn
  <1> QED BY <1>1, <1>3, <1>4, <1>5, <1>6, <1>7, <1>8, <1>9 DEF Next, Step

LEMMA InvHolds == Guarded = TRUE /\ Spec => []IInv
  <1>1. Guarded = TRUE /\ Init => IInv
    BY InitInv
  <1>2. IInv /\ [Next]_vars => IInv'
    BY StepInv
  <1> QED BY <1>1, <1>2, PTL DEF Spec

\* Every variable keeps its type, and no descriptor outlives its write.
THEOREM TypeCorrect == Guarded = TRUE /\ Spec => []TypeOK
  <1>1. IInv => TypeOK
    BY DEF IInv
  <1> QED BY <1>1, InvHolds, PTL

\* The registry under its name is never half a file.
THEOREM FileNeverTorn == Guarded = TRUE /\ Spec => []NeverTorn
  <1>1. IInv => NeverTorn
    BY DEF IInv
  <1> QED BY <1>1, InvHolds, PTL

\* The initial state is the empty map.
LEMMA InitRefines == Init => Abstract!Init
  BY DEF Init, Loaded, Empty, Abstract!Init

\* A replace is one operation of the map, and no other step changes it.
LEMMA StepRefines == IInv /\ [Next]_vars => [Abstract!Next]_(Loaded(file))
  <1> SUFFICES ASSUME IInv, [Next]_vars
               PROVE  Abstract!Next \/ Loaded(file)' = Loaded(file)
    OBVIOUS
  <1>0. Guarded = TRUE /\ TypeOK /\ DataIsChange /\ TmpFollows
    BY DEF IInv
  <1>1. ASSUME NEW w \in Writers, Replace(w) PROVE Abstract!Next \/ Loaded(file)' = Loaded(file)
    <2> DEFINE m == Loaded(file)
               o == op[w]
    <2>0. pc[w] = "replace" /\ tmp[w] = data[w] /\ data[w] \in Maps
          /\ Applies(o, m) /\ data[w] = Changed(o, m) /\ o \in Ops
      BY <1>0, <1>1 DEF Replace, TmpFollows, TypeOK, DataIsChange
    <2>1. file' = data[w]
      BY <1>0, <1>1, <2>0, MapFacts, Names DEF Replace
    <2>2. Loaded(file)' = [m EXCEPT ![o.key] = o.value]
      BY <2>0, <2>1, MapFacts DEF Loaded, Changed
    <2>3. o.key \in Keys
      BY <2>0 DEF Ops
    <2>4. CASE o.kind = "put"
      <3>1. o.value \in Values
        BY <2>0, <2>4 DEF Ops
      <3>2. Abstract!Put(o.key, o.value)
        BY <2>2 DEF Abstract!Put
      <3> QED BY <2>3, <3>1, <3>2 DEF Abstract!Next
    <2>5. CASE o.kind = "learn"
      <3>1. o.value \in Values
        BY <2>0, <2>5 DEF Ops
      <3>2. Abstract!Learn(o.key, o.value)
        BY <2>0, <2>2, <2>5 DEF Abstract!Learn, Applies
      <3> QED BY <2>3, <3>1, <3>2 DEF Abstract!Next
    <2>6. CASE o.kind = "amend"
      <3>1. o.value \in Values
        BY <2>0, <2>6 DEF Ops
      <3>2. Abstract!Amend(o.key, o.value)
        BY <2>0, <2>2, <2>6 DEF Abstract!Amend, Applies
      <3> QED BY <2>3, <3>1, <3>2 DEF Abstract!Next
    <2>7. CASE o.kind = "drop"
      <3>1. o.value = NoValue
        BY <2>0, <2>7 DEF Ops
      <3>2. Abstract!Drop(o.key)
        BY <2>2, <3>1 DEF Abstract!Drop
      <3> QED BY <2>3, <3>2 DEF Abstract!Next
    <2> QED BY <2>0, <2>4, <2>5, <2>6, <2>7 DEF Ops
  <1>2. ASSUME NEW w \in Writers, WriteTmp(w) PROVE file' = file
    BY <1>0, <1>2 DEF WriteTmp, TmpFollows
  <1>3. CASE \A w \in Writers : ~Replace(w)
    <2>1. file' = file
      BY <1>2, <1>3 DEF Next, Step, Call, Load, OpenTmp, WriteFails, Crash, vars
    <2> QED BY <2>1
  <1> QED BY <1>1, <1>3

\* The load, the change and the save of the library's registries are, to every
\* reader of the file, one atomic change of a map.
THEOREM GuardedIsAtomic == Guarded = TRUE /\ Spec => ImplementsAtomic
  <1>1. Init => Abstract!Init
    BY InitRefines
  <1>2. IInv /\ [Next]_vars => [Abstract!Next]_(Loaded(file))
    BY StepRefines
  <1> QED BY <1>1, <1>2, InvHolds, PTL DEF Spec, ImplementsAtomic, Abstract!Spec
=============================================================================
