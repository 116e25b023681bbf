--------------------------- MODULE TorrentPartsProofs ---------------------------
(* Proofs about the parts of TorrentParts, for any parameters: each part has  *)
(* its own, and a step of the whole is a step of one part.                    *)
EXTENDS TorrentParts, Integers, TLAPS

\* A behaviour of the whole begins as one of the part that runs, ...
LEMMA PartsBegin ==
    ASSUME Init
    PROVE  /\ part = "play" => PW!Init
           /\ part = "evict" => EP!Init
           /\ part = "claim" => EC!Init
           /\ part = "sweep" => CS!Init
  BY DEF Init

\* ... and its steps are steps of that part.
LEMMA PartsStep ==
    ASSUME [Next]_allVars
    PROVE  /\ part' = part
           /\ part = "play" => [PW!Next]_playVars
           /\ part = "evict" => [EP!Next]_evictVars
           /\ part = "claim" => [EC!Next]_claimVars
           /\ part = "sweep" => [CS!Next]_sweepVars
  <1>1. CASE UNCHANGED allVars
    BY <1>1 DEF allVars
  <1>2. CASE Next
    BY <1>2 DEF Next, Play, Evict, Claim, Sweep
  <1> QED  BY <1>1, <1>2

----------------------------------------------------------------------------
(* What streams wait for and read (PlaybackWindow).                         *)

\* what the parameters are: files with room on disk one of which ends last, and
\* ranges that begin in the file
PlayParameters ==
    /\ Viewers \cap Extractors = {}
    /\ PieceLength \in Nat \ {0} /\ Chunk \in Nat \ {0} /\ Window \in Nat
    /\ Size \in [PW!Files -> Nat] /\ Offset \in [PW!Files -> Nat]
    /\ \E f \in PW!Files : Size[f] > 0 /\ \A g \in PW!Files : Offset[g] + Size[g] <= Offset[f] + Size[f]
    /\ Played \subseteq PW!Files /\ PW!NoFile \notin PW!Files
    /\ Headers \subseteq [kind : {"none", "suffix", "open", "closed"}, a : Nat, b : Nat]

Stages == {"closed", "refocus", "reset", "open", "slide", "wait", "sent", "close"}
Streaming == {"refocus", "reset", "open", "slide", "wait", "sent"}

StreamRecord == [pc : Stages, f : PW!Files \cup {PW!NoFile}, pos : Nat, end : Int, slid : Int, drop : SUBSET PW!Pieces]

StreamsTyped ==
    /\ st \in [PW!Streams -> StreamRecord]
    /\ have \subseteq PW!Pieces /\ due \subseteq PW!Pieces /\ boosted \subseteq PW!Pieces
    /\ focused \in Played \cup {PW!NoFile}

\* A stream reads a file of the torrent within its bounds, and has rushed the
\* pieces before slid; its first is not rushed before it is counted.
Within(r) ==
    st[r].pc \in Streaming =>
        /\ st[r].f \in PW!Files
        /\ st[r].end < Size[st[r].f]
        /\ st[r].slid >= PW!At(r) - 1
        /\ st[r].pc \in {"refocus", "reset", "open"} => st[r].slid = PW!At(r) - 1
        /\ st[r].pc = "wait" => st[r].pos <= st[r].end /\ st[r].slid >= PW!Far(r)

\* What a viewer has rushed is there or has a deadline, unless a later request
\* has dropped it.
Rushed(r) ==
    r \in Viewers \ lost /\ st[r].pc \in Streaming =>
        \A p \in PW!Pieces : PW!At(r) <= p /\ p <= st[r].slid => p \in have \cup due

PlayIInv ==
    /\ StreamsTyped
    /\ \A r \in PW!Streams : Within(r)
    /\ \A r \in PW!Streams : Rushed(r)

----------------------------------------------------------------------------
LEMMA DivFacts ==
    ASSUME NEW a \in Nat, NEW d \in Nat \ {0}
    PROVE  /\ a \div d \in Nat
           /\ (a \div d) * d <= a /\ a < (a \div d + 1) * d
OBVIOUS

LEMMA DivBelow ==
    ASSUME NEW a \in Nat, NEW d \in Nat \ {0}, NEW k \in Int, a < (k + 1) * d
    PROVE  a \div d <= k
<1>1. PICK q \in Nat : q = a \div d
  BY DivFacts
<1>2. q * d <= a
  BY <1>1, DivFacts
<1>3. CASE q >= k + 1
  <2>1. q * d >= (k + 1) * d
    BY <1>3
  <2>. QED BY <1>2, <2>1
<1>. QED BY <1>1, <1>3

LEMMA DivMonotone ==
    ASSUME NEW a \in Nat, NEW b \in Nat, NEW d \in Nat \ {0}, a <= b
    PROVE  a \div d <= b \div d
<1>1. b < (b \div d + 1) * d /\ b \div d \in Nat
  BY DivFacts
<1>. QED BY <1>1, DivBelow

LEMMA MaxIsGreatest ==
    ASSUME NEW S \in SUBSET Int, NEW x \in S, \A y \in S : y <= x
    PROVE  PW!Max(S) = x
<1>1. \E m \in S : \A y \in S : m >= y
  OBVIOUS
<1>2. PICK m \in S : m = PW!Max(S) /\ \A y \in S : m >= y
  BY <1>1 DEF PW!Max
<1>3. m \in Int /\ x \in Int /\ m >= x /\ m <= x
  BY <1>2
<1>. QED BY <1>2, <1>3

LEMMA MinIsLeast ==
    ASSUME NEW S \in SUBSET Int, NEW x \in S, \A y \in S : x <= y
    PROVE  PW!Min(S) = x
<1>1. \E m \in S : \A y \in S : m <= y
  OBVIOUS
<1>2. PICK m \in S : m = PW!Min(S) /\ \A y \in S : m <= y
  BY <1>1 DEF PW!Min
<1>3. m \in Int /\ x \in Int /\ m >= x /\ m <= x
  BY <1>2
<1>. QED BY <1>2, <1>3

LEMMA MinOfTwo ==
    ASSUME NEW a \in Int, NEW b \in Int
    PROVE  PW!Min({a, b}) = IF a <= b THEN a ELSE b
<1>1. CASE a <= b
  BY <1>1, MinIsLeast, {a, b} \subseteq Int
<1>2. CASE b < a
  <2>1. b \in {a, b} /\ \A y \in {a, b} : b <= y
    BY <1>2
  <2>2. {a, b} \in SUBSET Int
    OBVIOUS
  <2>3. PW!Min({a, b}) = b
    BY <2>1, <2>2, MinIsLeast
  <2>. QED BY <1>2, <2>3
<1>. QED BY <1>1, <1>2

LEMMA MinOfThree ==
    ASSUME NEW a \in Int, NEW b \in Int, NEW c \in Int
    PROVE  PW!Min({a, b, c}) \in {a, b, c} /\ PW!Min({a, b, c}) <= a /\ PW!Min({a, b, c}) <= b /\ PW!Min({a, b, c}) <= c
<1>1. \E m \in {a, b, c} : \A y \in {a, b, c} : m <= y
  <2>1. CASE a <= b /\ a <= c
    BY <2>1
  <2>2. CASE b <= a /\ b <= c
    BY <2>2
  <2>3. CASE c <= a /\ c <= b
    BY <2>3
  <2>. QED BY <2>1, <2>2, <2>3
<1>. QED BY <1>1 DEF PW!Min

LEMMA MaxOfTwo ==
    ASSUME NEW a \in Int, NEW b \in Int
    PROVE  PW!Max({a, b}) = IF a >= b THEN a ELSE b
<1>1. CASE a >= b
  <2>1. a \in {a, b} /\ \A y \in {a, b} : y <= a
    BY <1>1
  <2>. QED BY <1>1, <2>1, MaxIsGreatest, {a, b} \in SUBSET Int
<1>2. CASE a < b
  <2>1. b \in {a, b} /\ \A y \in {a, b} : y <= b
    BY <1>2
  <2>. QED BY <1>2, <2>1, MaxIsGreatest, {a, b} \in SUBSET Int
<1>. QED BY <1>1, <1>2

----------------------------------------------------------------------------
\* The torrent's last byte, and its pieces.
LEMMA Torrent ==
    ASSUME PlayParameters
    PROVE  /\ PW!LastByte \in Nat
           /\ \A f \in PW!Files : Offset[f] + Size[f] - 1 <= PW!LastByte
           /\ PW!LastByte \div PieceLength \in Nat
           /\ PW!Pieces = 0..(PW!LastByte \div PieceLength)
           /\ PW!Max(PW!Pieces) = PW!LastByte \div PieceLength
<1>1. PICK f \in PW!Files : Size[f] > 0 /\ \A g \in PW!Files : Offset[g] + Size[g] <= Offset[f] + Size[f]
  BY DEF PlayParameters
<1>2. Size \in [PW!Files -> Nat] /\ Offset \in [PW!Files -> Nat] /\ PieceLength \in Nat \ {0}
  BY DEF PlayParameters
<1>. DEFINE S == {Offset[g] + Size[g] : g \in PW!Files}
<1>4. S \in SUBSET Int /\ Offset[f] + Size[f] \in S /\ \A y \in S : y <= Offset[f] + Size[f]
  BY <1>1, <1>2
<1>5. PW!LastByte = Offset[f] + Size[f] - 1
  <2>1. PW!Max(S) = Offset[f] + Size[f]
    <3>. HIDE DEF S
    <3>. QED BY <1>4, MaxIsGreatest
  <2>2. PW!LastByte = PW!Max(S) - 1
    BY DEF PW!LastByte
  <2>3. Offset[f] \in Int /\ Size[f] \in Int
    BY <1>2
  <2>. QED BY ONLY <2>1, <2>2, <2>3
<1>6. PW!LastByte \in Nat
  BY <1>1, <1>2, <1>5
<1>7. PICK n \in Nat : n = PW!LastByte \div PieceLength
  BY <1>2, <1>6, DivFacts
<1>8. 0 \div PieceLength = 0
  BY <1>2
<1>9. PW!Pieces = 0..n
  BY <1>7, <1>8 DEF PW!Pieces, PW!PiecesForRange
<1>10. PW!Max(0..n) = n
  <2>1. 0..n \in SUBSET Int /\ n \in 0..n /\ \A y \in 0..n : y <= n
    BY <1>7
  <2>. QED BY <2>1, MaxIsGreatest
<1>. QED BY <1>1, <1>2, <1>5, <1>6, <1>7, <1>9, <1>10

\* Where a stream reads is a piece of the torrent until the range is out.
LEMMA AtIsAPiece ==
    ASSUME PlayParameters, StreamsTyped, NEW r \in PW!Streams, st[r].f \in PW!Files
    PROVE  /\ PW!At(r) \in Nat
           /\ (PW!At(r)) * PieceLength <= Offset[st[r].f] + st[r].pos
           /\ Offset[st[r].f] + st[r].pos < (PW!At(r) + 1) * PieceLength
           /\ PW!Far(r) \in Int /\ PW!Far(r) <= PW!Max(PW!Pieces)
           /\ st[r].pos < Size[st[r].f] => PW!At(r) \in PW!Pieces /\ PW!At(r) <= PW!Far(r)
<1>1. PICK a \in Nat : a = Offset[st[r].f] + st[r].pos
  BY DEF PlayParameters, StreamsTyped, StreamRecord
<1>2. PieceLength \in Nat \ {0} /\ Window \in Nat
  BY DEF PlayParameters
<1>3. PW!At(r) = a \div PieceLength
  BY <1>1 DEF PW!At
<1>4. PICK k \in Nat : k = PW!At(r)
  BY <1>2, <1>3, DivFacts
<1>5. k * PieceLength <= a /\ a < (k + 1) * PieceLength
  BY <1>2, <1>3, <1>4, DivFacts
<1>6. PICK n \in Nat : n = PW!Max(PW!Pieces) /\ n = PW!LastByte \div PieceLength /\ PW!Pieces = 0..n
  BY Torrent
<1>7. PW!Far(r) = IF k + Window <= n THEN k + Window ELSE n
  BY <1>2, <1>4, <1>6, MinOfTwo DEF PW!Far
<1>8. ASSUME st[r].pos < Size[st[r].f] PROVE k <= n
  <2>1. a <= PW!LastByte /\ PW!LastByte \in Nat
    <3>1. Offset[st[r].f] \in Nat /\ Size[st[r].f] \in Nat /\ st[r].pos \in Nat
      BY DEF StreamsTyped, PlayParameters, StreamRecord
    <3>2. Offset[st[r].f] + Size[st[r].f] - 1 <= PW!LastByte /\ PW!LastByte \in Nat
      BY Torrent
    <3>. QED BY ONLY <1>1, <1>8, <3>1, <3>2
  <2>. QED BY <1>2, <1>3, <1>4, <1>6, <2>1, DivMonotone
<1>. QED BY <1>1, <1>2, <1>4, <1>5, <1>6, <1>7, <1>8

\* A range begins in the file or at its end, and ends in it.
LEMMA RangeWithin ==
    ASSUME PlayParameters, NEW h \in Headers, NEW f \in PW!Files
    PROVE  /\ PW!ParseRange(h, Size[f])[1] \in Nat
           /\ PW!ParseRange(h, Size[f])[2] \in Int /\ PW!ParseRange(h, Size[f])[2] < Size[f]
<1>1. PICK n \in Nat : n = Size[f]
  BY DEF PlayParameters
<1>2. h.kind \in {"none", "suffix", "open", "closed"} /\ h.a \in Nat /\ h.b \in Nat
  BY DEF PlayParameters
<1>3. PW!Max({0, n - h.a}) \in Nat
  BY <1>1, <1>2, MaxOfTwo
<1>4. PW!Min({h.b, n - 1}) \in Int /\ PW!Min({h.b, n - 1}) < n
  BY <1>1, <1>2, MinOfTwo
<1>. QED BY <1>1, <1>2, <1>3, <1>4 DEF PW!ParseRange

\* A request begins with nothing rushed.
LEMMA ReaderBegins ==
    ASSUME PlayParameters, StreamsTyped, NEW r \in PW!Streams, NEW f \in PW!Files, NEW h \in Headers, NEW pc \in Stages,
           PW!Reader(r, f, PW!ParseRange(h, Size[f]), pc)
    PROVE  /\ st' \in [PW!Streams -> StreamRecord]
           /\ \A s \in PW!Streams \ {r} : st'[s] = st[s]
           /\ st'[r].pc = pc /\ st'[r].f = f /\ st'[r].end < Size[f]
           /\ PW!At(r)' \in Nat /\ st'[r].slid = PW!At(r)' - 1
<1>1. PICK a \in Nat, z \in Int : a = PW!ParseRange(h, Size[f])[1] /\ z = PW!ParseRange(h, Size[f])[2] /\ z < Size[f]
  BY RangeWithin
<1>2. PICK k \in Nat : k = (Offset[f] + a) \div PieceLength
  <2>1. Offset[f] + a \in Nat /\ PieceLength \in Nat \ {0}
    BY <1>1 DEF PlayParameters
  <2>. QED BY <2>1, DivFacts
<1>3. st' = [st EXCEPT ![r] = [pc |-> pc, f |-> f, pos |-> a, end |-> z, slid |-> k - 1, drop |-> {}]]
  BY <1>1, <1>2 DEF PW!Reader
<1>4. st'[r] = [pc |-> pc, f |-> f, pos |-> a, end |-> z, slid |-> k - 1, drop |-> {}]
  BY <1>3 DEF StreamsTyped
<1>5. PW!At(r)' = k
  BY <1>2, <1>4 DEF PW!At
<1>. QED BY <1>1, <1>2, <1>3, <1>4, <1>5 DEF StreamsTyped, StreamRecord

\* A chunk ends in its piece and in its range.
LEMMA ChunkWithin ==
    ASSUME PlayParameters, StreamsTyped, NEW r \in PW!Streams, st[r].f \in PW!Files, st[r].pos <= st[r].end
    PROVE  /\ PW!ChunkLength(r) \in Nat \ {0}
           /\ Offset[st[r].f] + st[r].pos + PW!ChunkLength(r) <= (PW!At(r) + 1) * PieceLength
<1>1. PICK k \in Nat, o \in Nat, p \in Nat, e \in Int, d \in Nat \ {0} :
          /\ k = PW!At(r) /\ o = Offset[st[r].f] /\ p = st[r].pos /\ e = st[r].end /\ d = PieceLength
          /\ o + p < (k + 1) * d
  <2>1. Offset[st[r].f] \in Nat /\ st[r].pos \in Nat /\ st[r].end \in Int /\ PieceLength \in Nat \ {0}
    BY DEF PlayParameters, StreamsTyped, StreamRecord
  <2>. QED BY <2>1, AtIsAPiece
<1>2. PICK m \in Nat : m = (k + 1) * d
  BY <1>1
<1>3. PW!ChunkLength(r) = PW!Min({Chunk, e - p + 1, m - 1 - o - p + 1})
  BY <1>1, <1>2 DEF PW!ChunkLength
<1>4. PICK h \in Nat \ {0}, x \in Nat \ {0}, y \in Nat \ {0} :
          h = Chunk /\ x = e - p + 1 /\ y = m - 1 - o - p + 1 /\ o + p + y = m
  <2>1. Chunk \in Nat \ {0}
    BY DEF PlayParameters
  <2>2. e - p + 1 \in Nat \ {0} /\ m - 1 - o - p + 1 \in Nat \ {0} /\ o + p + (m - 1 - o - p + 1) = m
    BY <1>1, <1>2
  <2>. QED BY <2>1, <2>2
<1>5. PICK c : c = PW!Min({h, x, y})
  OBVIOUS
<1>6. c \in {h, x, y} /\ c <= y
  <2>1. h \in Int /\ x \in Int /\ y \in Int
    BY <1>4
  <2>. QED BY ONLY <1>5, <2>1, MinOfThree
<1>. QED BY <1>1, <1>2, <1>3, <1>4, <1>5, <1>6

\* Bytes up to the end of the piece of the first: the last is in it too.
LEMMA ChunkArithmetic ==
    ASSUME NEW x \in Nat, NEW c \in Nat \ {0}, NEW d \in Nat \ {0}, NEW k \in Nat,
           k = x \div d, x + c <= (k + 1) * d
    PROVE  (x + c) \div d \in {k, k + 1} /\ (x + c - 1) \div d = k
<1>1. PICK y \in Nat, z \in Nat : y = x + c /\ z = x + c - 1 /\ x <= y /\ x <= z /\ z < (k + 1) * d
  BY (k + 1) * d \in Nat
<1>2. y < (k + 1 + 1) * d
  BY <1>1
<1>3. k <= y \div d /\ y \div d <= k + 1 /\ y \div d \in Nat
  BY <1>1, <1>2, DivMonotone, DivBelow, DivFacts
<1>4. k <= z \div d /\ z \div d <= k /\ z \div d \in Nat
  BY <1>1, DivMonotone, DivBelow, DivFacts
<1>. QED BY <1>1, <1>3, <1>4

\* What a read of a chunk moves: the place by no more than to the next piece.
LEMMA ReadMoves ==
    ASSUME PlayParameters, StreamsTyped, NEW r \in PW!Streams, st[r].f \in PW!Files, st[r].pos <= st[r].end, PW!ReadChunk(r)
    PROVE  /\ st' \in [PW!Streams -> StreamRecord]
           /\ \A s \in PW!Streams \ {r} : st'[s] = st[s]
           /\ st'[r] = [st[r] EXCEPT !.pc = "sent", !.pos = st[r].pos + PW!ChunkLength(r)]
           /\ PW!At(r)' \in {PW!At(r), PW!At(r) + 1}
           /\ PW!PiecesForRange(Offset[st[r].f] + st[r].pos, Offset[st[r].f] + st'[r].pos - 1) = {PW!At(r)}
<1>1. PICK c \in Nat \ {0}, k \in Nat, o \in Nat, p \in Nat, d \in Nat \ {0} :
          /\ c = PW!ChunkLength(r) /\ k = PW!At(r) /\ o = Offset[st[r].f] /\ p = st[r].pos /\ d = PieceLength
          /\ o + p < (k + 1) * d /\ k * d <= o + p
          /\ o + p + c <= (k + 1) * d
          /\ k = (o + p) \div d
  <2>1. Offset[st[r].f] \in Nat /\ st[r].pos \in Nat /\ PieceLength \in Nat \ {0}
    BY DEF PlayParameters, StreamsTyped, StreamRecord
  <2>2. PW!At(r) = (Offset[st[r].f] + st[r].pos) \div PieceLength
    BY DEF PW!At
  <2>. QED BY <2>1, <2>2, AtIsAPiece, ChunkWithin
<1>2. st' = [st EXCEPT ![r].pc = "sent", ![r].pos = p + c]
  BY <1>1 DEF PW!ReadChunk
<1>3. st'[r] = [st[r] EXCEPT !.pc = "sent", !.pos = p + c]
  BY <1>2 DEF StreamsTyped
<1>4. st'[r].f = st[r].f /\ st'[r].pos = p + c
  <2>1. st[r] \in StreamRecord
    BY DEF StreamsTyped
  <2>. QED BY <1>3, <2>1
<1>6. PICK x \in Nat : x = o + p /\ k = x \div d /\ x + c <= (k + 1) * d
  BY <1>1
<1>7. (x + c) \div d \in {k, k + 1} /\ (x + c - 1) \div d = k
  BY ONLY <1>6, c \in Nat \ {0}, d \in Nat \ {0}, k \in Nat, x \in Nat, ChunkArithmetic
<1>5. PW!At(r)' = (x + c) \div d
  <2>1. Offset[st'[r].f] + st'[r].pos = x + c
    BY <1>1, <1>4, <1>6
  <2>. QED BY <1>1, <2>1 DEF PW!At
<1>8. PW!PiecesForRange(Offset[st[r].f] + st[r].pos, Offset[st[r].f] + st'[r].pos - 1) = {k}
  <2>1. PW!PiecesForRange(Offset[st[r].f] + st[r].pos, Offset[st[r].f] + st'[r].pos - 1) = k..k
    <3>1. Offset[st[r].f] + st'[r].pos - 1 = x + c - 1 /\ Offset[st[r].f] + st[r].pos = x
      <4>1. Offset[st[r].f] = o /\ st[r].pos = p
        BY <1>1
      <4>2. o + (p + c) - 1 = x + c - 1 /\ o + p = x
        BY ONLY <1>6, c \in Nat, o \in Nat, p \in Nat, x \in Nat
      <4>. QED BY <1>4, <4>1, <4>2
    <3>. QED BY <1>1, <1>6, <1>7, <3>1 DEF PW!PiecesForRange
  <2>. QED BY <1>1, <2>1
<1>9. st' \in [PW!Streams -> StreamRecord]
  <2>1. "sent" \in Stages /\ p + c \in Nat
    BY <1>1 DEF Stages
  <2>. QED BY <1>2, <2>1 DEF StreamsTyped, StreamRecord
<1>. QED BY <1>1, <1>2, <1>3, <1>5, <1>7, <1>8, <1>9 DEF StreamsTyped

----------------------------------------------------------------------------
\* Where a stream reads is told by its record.
LEMMA SameRecord ==
    ASSUME NEW r \in PW!Streams, st'[r].f = st[r].f, st'[r].pos = st[r].pos
    PROVE  PW!At(r)' = PW!At(r) /\ PW!Far(r)' = PW!Far(r)
<1>1. PW!At(r)' = PW!At(r)
  BY DEF PW!At
<1>. QED BY <1>1 DEF PW!Far

\* A step of one stream: what it leaves of the others.
LEMMA OneMoves ==
    ASSUME PlayIInv, NEW r \in PW!Streams,
           st' \in [PW!Streams -> StreamRecord], \A s \in PW!Streams \ {r} : st'[s] = st[s],
           have' = have, due \subseteq due', due' \subseteq PW!Pieces, boosted' \subseteq PW!Pieces,
           focused' \in Played \cup {PW!NoFile}, lost \ {r} \subseteq lost',
           Within(r)', Rushed(r)'
    PROVE  PlayIInv'
<1>1. ASSUME NEW s \in PW!Streams \ {r} PROVE Within(s)' /\ Rushed(s)'
  <2>1. PW!At(s)' = PW!At(s) /\ PW!Far(s)' = PW!Far(s) /\ st'[s] = st[s]
    BY SameRecord
  <2>2. Within(s) /\ Rushed(s)
    BY DEF PlayIInv
  <2>. QED BY <2>1, <2>2 DEF Within, Rushed
<1>2. StreamsTyped'
  BY DEF PlayIInv, StreamsTyped
<1>. QED BY <1>1, <1>2 DEF PlayIInv

\* One field of a stream's record, and the place it reads.
LEMMA PcMoves ==
    ASSUME StreamsTyped, NEW r \in PW!Streams, NEW pc \in Stages, st' = [st EXCEPT ![r].pc = pc]
    PROVE  /\ st' \in [PW!Streams -> StreamRecord] /\ \A s \in PW!Streams \ {r} : st'[s] = st[s]
           /\ st'[r].pc = pc /\ st'[r].f = st[r].f /\ st'[r].pos = st[r].pos
           /\ st'[r].end = st[r].end /\ st'[r].slid = st[r].slid
           /\ PW!At(r)' = PW!At(r) /\ PW!Far(r)' = PW!Far(r)
<1>1. st[r] \in StreamRecord
  BY DEF StreamsTyped
<1>2. st' \in [PW!Streams -> StreamRecord] /\ \A s \in PW!Streams \ {r} : st'[s] = st[s]
  BY <1>1 DEF StreamsTyped, StreamRecord
<1>3. st'[r] = [st[r] EXCEPT !.pc = pc]
  BY DEF StreamsTyped
<1>4. /\ st'[r].pc = pc /\ st'[r].f = st[r].f /\ st'[r].pos = st[r].pos
      /\ st'[r].end = st[r].end /\ st'[r].slid = st[r].slid
  BY <1>1, <1>3 DEF StreamRecord
<1>. QED BY <1>2, <1>4, SameRecord

\* A step that leaves the streams alone.
LEMMA NoneMoves ==
    ASSUME PlayIInv, st' = st, have \cup due \subseteq have' \cup due', have' \subseteq PW!Pieces, due' \subseteq PW!Pieces,
           boosted' = boosted, focused' = focused, lost' = lost
    PROVE  PlayIInv'
<1>1. ASSUME NEW s \in PW!Streams PROVE Within(s)' /\ Rushed(s)'
  <2>1. PW!At(s)' = PW!At(s) /\ PW!Far(s)' = PW!Far(s)
    BY SameRecord
  <2>2. Within(s) /\ Rushed(s)
    BY DEF PlayIInv
  <2>. QED BY <2>1, <2>2 DEF Within, Rushed
<1>2. StreamsTyped'
  BY DEF PlayIInv, StreamsTyped
<1>. QED BY <1>1, <1>2 DEF PlayIInv

\* A request of a viewer or of the extractor begins.
LEMMA BeginKeeps ==
    ASSUME PlayParameters, PlayIInv, NEW r \in PW!Streams, (r \in Viewers /\ PW!Serve(r)) \/ (r \in Extractors /\ PW!Extract(r))
    PROVE  PlayIInv'
<1>1. PICK f \in Played, h \in Headers, pc \in {"refocus", "slide"} :
          PW!Reader(r, f, PW!ParseRange(h, Size[f]), pc) /\ focused' \in Played \cup {PW!NoFile}
  <2>1. CASE PW!Serve(r)
    BY <2>1 DEF PW!Serve, PlayIInv, StreamsTyped
  <2>2. CASE PW!Extract(r)
    <3>1. focused \in Played
      BY <2>2 DEF PW!Extract, PlayIInv, StreamsTyped
    <3>. QED BY <2>2, <3>1 DEF PW!Extract, PW!fileVars
  <2>. QED BY <2>1, <2>2
<1>2. UNCHANGED <<have, due, boosted>> /\ lost' = lost \ {r}
  BY DEF PW!Serve, PW!Extract, PW!pieceVars, PW!fileVars
<1>3. f \in PW!Files /\ pc \in Stages
  BY DEF PlayParameters, Stages
<1>4. /\ st' \in [PW!Streams -> StreamRecord] /\ \A s \in PW!Streams \ {r} : st'[s] = st[s]
      /\ st'[r].pc = pc /\ st'[r].f = f /\ st'[r].end < Size[f]
      /\ PW!At(r)' \in Nat /\ st'[r].slid = PW!At(r)' - 1
  BY <1>1, <1>3, ReaderBegins DEF PlayIInv
<1>5. PICK k \in Nat : k = PW!At(r)' /\ st'[r].slid = k - 1
  BY <1>4
<1>6. Within(r)'
  BY <1>3, <1>4, <1>5 DEF Within
<1>7. Rushed(r)'
  <2>1. PW!Pieces \subseteq Int
    BY Torrent
  <2>2. ASSUME NEW p \in PW!Pieces, PW!At(r)' <= p, p <= st'[r].slid PROVE FALSE
    <3>1. p \in Int /\ k <= p /\ p <= k - 1
      BY <1>5, <2>1, <2>2
    <3>. QED BY <1>5, <3>1
  <2>. QED BY <2>2 DEF Rushed
<1>8. due \subseteq PW!Pieces /\ boosted \subseteq PW!Pieces
  BY DEF PlayIInv, StreamsTyped
<1>. QED BY <1>1, <1>2, <1>4, <1>6, <1>7, <1>8, OneMoves

\* A stream goes on without touching the pieces.
LEMMA PcKeeps ==
    ASSUME PlayIInv, NEW r \in PW!Streams, PW!Open(r) \/ PW!StartWait(r) \/ PW!ClientReads(r) \/ PW!EndStream(r) \/ PW!Disconnect(r)
    PROVE  PlayIInv'
<1>1. PICK pc \in {"slide", "wait", "close"} :
          /\ st' = [st EXCEPT ![r].pc = pc]
          /\ pc = "slide" => st[r].pc \in {"open", "sent"}
          /\ pc = "wait" => st[r].pc = "slide" /\ st[r].pos <= st[r].end /\ st[r].slid >= PW!Far(r)
  BY DEF PW!Open, PW!StartWait, PW!ClientReads, PW!EndStream, PW!Disconnect, PW!Goto
<1>2. UNCHANGED <<have, due, boosted, focused, lost>>
  BY DEF PW!Open, PW!StartWait, PW!ClientReads, PW!EndStream, PW!Disconnect, PW!pieceVars, PW!fileVars
<1>3. /\ st' \in [PW!Streams -> StreamRecord] /\ \A s \in PW!Streams \ {r} : st'[s] = st[s]
      /\ st'[r].pc = pc /\ st'[r].f = st[r].f /\ st'[r].pos = st[r].pos
      /\ st'[r].end = st[r].end /\ st'[r].slid = st[r].slid
      /\ PW!At(r)' = PW!At(r) /\ PW!Far(r)' = PW!Far(r)
  BY <1>1, PcMoves DEF PlayIInv, Stages
<1>4. Within(r) /\ Rushed(r) /\ StreamsTyped
  BY DEF PlayIInv
<1>5. Within(r)'
  BY <1>1, <1>3, <1>4 DEF Within, Streaming
<1>6. Rushed(r)'
  BY <1>1, <1>2, <1>3, <1>4 DEF Rushed, Streaming
<1>. QED BY <1>2, <1>3, <1>4, <1>5, <1>6, OneMoves DEF StreamsTyped

LEMMA CloseKeeps ==
    ASSUME PlayIInv, NEW r \in PW!Streams, PW!Close(r)
    PROVE  PlayIInv'
<1>1. st' = [st EXCEPT ![r] = PW!Closed] /\ UNCHANGED <<have, due, boosted, focused, lost>>
  BY DEF PW!Close
<1>2. PW!Closed \in StreamRecord /\ PW!Closed.pc \notin Streaming
  BY DEF PW!Closed, StreamRecord, Stages, Streaming
<1>3. /\ st' \in [PW!Streams -> StreamRecord] /\ \A s \in PW!Streams \ {r} : st'[s] = st[s]
      /\ st'[r].pc \notin Streaming
  BY <1>1, <1>2 DEF PlayIInv, StreamsTyped
<1>4. Within(r)' /\ Rushed(r)'
  BY <1>3 DEF Within, Rushed
<1>. QED BY <1>1, <1>3, <1>4, OneMoves DEF PlayIInv, StreamsTyped

\* The rushed pieces are taken, by a stream that has rushed none itself.
LEMMA RefocusKeeps ==
    ASSUME PlayIInv, NEW r \in PW!Streams, PW!Refocus(r)
    PROVE  PlayIInv'
<1>1. /\ st[r].pc = "refocus" /\ st' = [st EXCEPT ![r].pc = "reset", ![r].drop = boosted]
      /\ boosted' = {} /\ UNCHANGED <<have, due, focused, lost>>
  BY DEF PW!Refocus, PW!fileVars
<1>2. st[r] \in StreamRecord /\ boosted \subseteq PW!Pieces /\ due \subseteq PW!Pieces /\ focused \in Played \cup {PW!NoFile}
  BY DEF PlayIInv, StreamsTyped
<1>3. st' \in [PW!Streams -> StreamRecord] /\ \A s \in PW!Streams \ {r} : st'[s] = st[s]
  BY <1>1, <1>2 DEF PlayIInv, StreamsTyped, StreamRecord, Stages
<1>4. st'[r] = [st[r] EXCEPT !.pc = "reset", !.drop = boosted]
  BY <1>1 DEF PlayIInv, StreamsTyped
<1>5. /\ st'[r].pc = "reset" /\ st'[r].f = st[r].f /\ st'[r].pos = st[r].pos
      /\ st'[r].end = st[r].end /\ st'[r].slid = st[r].slid
  BY <1>2, <1>4 DEF StreamRecord
<1>6. PW!At(r)' = PW!At(r) /\ PW!Far(r)' = PW!Far(r)
  BY <1>5, SameRecord
<1>7. Within(r) /\ Rushed(r)
  BY DEF PlayIInv
<1>8. Within(r)' /\ Rushed(r)'
  BY <1>1, <1>5, <1>6, <1>7 DEF Within, Rushed, Streaming
<1>. QED BY <1>1, <1>2, <1>3, <1>8, OneMoves

\* And put back to normal: who has rushed some goes into lost.
LEMMA ResetKeeps ==
    ASSUME PlayParameters, PlayIInv, NEW r \in PW!Streams, PW!ResetDeadlines(r)
    PROVE  PlayIInv'
<1>1. /\ st[r].pc = "reset" /\ st' = [st EXCEPT ![r].pc = "open", ![r].drop = {}]
      /\ due' \subseteq due /\ lost' = lost \cup {s \in PW!Streams \ {r} : st[s].pc \in {"slide", "wait", "sent"}}
      /\ UNCHANGED <<have, boosted, focused>>
  BY DEF PW!ResetDeadlines, PW!fileVars
<1>2. st[r] \in StreamRecord
  BY DEF PlayIInv, StreamsTyped
<1>3. st' \in [PW!Streams -> StreamRecord] /\ \A s \in PW!Streams \ {r} : st'[s] = st[s]
  BY <1>1, <1>2 DEF PlayIInv, StreamsTyped, StreamRecord, Stages
<1>4. st'[r] = [st[r] EXCEPT !.pc = "open", !.drop = {}]
  BY <1>1 DEF PlayIInv, StreamsTyped
<1>5. /\ st'[r].pc = "open" /\ st'[r].f = st[r].f /\ st'[r].pos = st[r].pos
      /\ st'[r].end = st[r].end /\ st'[r].slid = st[r].slid
  BY <1>2, <1>4 DEF StreamRecord
<1>6. ASSUME NEW s \in PW!Streams PROVE Within(s)' /\ Rushed(s)'
  <2>1. /\ st'[s].f = st[s].f /\ st'[s].pos = st[s].pos
        /\ st'[s].end = st[s].end /\ st'[s].slid = st[s].slid
        /\ st'[s].pc = IF s = r THEN "open" ELSE st[s].pc
    BY <1>3, <1>5
  <2>2. PW!At(s)' = PW!At(s) /\ PW!Far(s)' = PW!Far(s)
    BY <2>1, SameRecord
  <2>3. Within(s)
    BY DEF PlayIInv
  <2>4. Within(s)'
    BY <1>1, <2>1, <2>2, <2>3 DEF Within, Streaming
  <2>5. ASSUME s \notin lost', st'[s].pc \in Streaming
        PROVE  \A p \in PW!Pieces : ~ (PW!At(s)' <= p /\ p <= st'[s].slid)
    <3>1. st'[s].pc \in {"refocus", "reset", "open"}
      BY <1>1, <2>1, <2>5 DEF Streaming
    <3>2. st'[s].slid = PW!At(s)' - 1 /\ st'[s].f \in PW!Files
      BY <2>4, <2>5, <3>1 DEF Within
    <3>3. PW!At(s)' \in Nat
      BY <2>1, <2>2, <3>2, AtIsAPiece DEF PlayIInv
    <3>4. PW!Pieces \subseteq Int
      BY Torrent
    <3>5. PICK k \in Nat, n \in Int : k = PW!At(s)' /\ n = st'[s].slid /\ n = k - 1
      BY <3>2, <3>3
    <3>6. ASSUME NEW p \in PW!Pieces, PW!At(s)' <= p, p <= st'[s].slid PROVE FALSE
      <4>1. p \in Int /\ k <= p /\ p <= n
        BY <3>4, <3>5, <3>6
      <4>. QED BY <3>5, <4>1
    <3>. QED BY <3>6
  <2>. QED BY <2>4, <2>5 DEF Rushed
<1>7. StreamsTyped'
  BY <1>1, <1>3 DEF PlayIInv, StreamsTyped
<1>. QED BY <1>6, <1>7 DEF PlayIInv

\* One more piece is rushed.
LEMMA BoostKeeps ==
    ASSUME PlayParameters, PlayIInv, NEW r \in PW!Streams, PW!BoostPiece(r)
    PROVE  PlayIInv'
<1>1. /\ st[r].pc = "slide" /\ st[r].pos <= st[r].end /\ st[r].slid < PW!Far(r)
      /\ st' = [st EXCEPT ![r].slid = st[r].slid + 1]
      /\ UNCHANGED <<have, focused, lost>>
  BY DEF PW!BoostPiece, PW!fileVars
<1>2. st[r] \in StreamRecord /\ StreamsTyped /\ Within(r) /\ Rushed(r)
  BY DEF PlayIInv, StreamsTyped
<1>3. st[r].f \in PW!Files /\ st[r].end < Size[st[r].f] /\ st[r].slid >= PW!At(r) - 1
  BY <1>1, <1>2 DEF Within, Streaming
<1>4. PW!At(r) \in Nat /\ PW!Far(r) \in Int /\ PW!Far(r) <= PW!Max(PW!Pieces)
  BY <1>2, <1>3, AtIsAPiece
<1>5. PICK n \in Nat : PW!Pieces = 0..n /\ PW!Max(PW!Pieces) = n
  BY Torrent
<1>6. PICK p \in Nat, k \in Nat : p = st[r].slid + 1 /\ k = PW!At(r) /\ p \in PW!Pieces /\ k <= p
  <2>1. st[r].slid \in Int
    BY <1>2 DEF StreamRecord
  <2>. QED BY <1>1, <1>3, <1>4, <1>5, <2>1
<1>7. st' \in [PW!Streams -> StreamRecord] /\ \A s \in PW!Streams \ {r} : st'[s] = st[s]
  BY <1>1, <1>2, <1>6 DEF StreamsTyped, StreamRecord
<1>8. st'[r] = [st[r] EXCEPT !.slid = p]
  BY <1>1, <1>2, <1>6 DEF StreamsTyped
<1>9. /\ st'[r].pc = "slide" /\ st'[r].f = st[r].f /\ st'[r].pos = st[r].pos
      /\ st'[r].end = st[r].end /\ st'[r].slid = p
  BY <1>1, <1>2, <1>8 DEF StreamRecord
<1>10. PW!At(r)' = k /\ PW!Far(r)' = PW!Far(r)
  BY <1>6, <1>9, SameRecord
<1>11. /\ due \subseteq due' /\ due' \subseteq due \cup {p} /\ boosted' \subseteq boosted \cup {p}
       /\ r \in Viewers => p \in have \cup due'
  <2>1. CASE r \in Extractors /\ p \in boosted
    BY <1>6, <2>1 DEF PW!BoostPiece, PlayParameters
  <2>2. CASE ~ (r \in Extractors /\ p \in boosted)
    BY <1>6, <2>2 DEF PW!BoostPiece
  <2>. QED BY <2>1, <2>2
<1>12. Within(r)'
  BY <1>3, <1>6, <1>9, <1>10 DEF Within
<1>13. Rushed(r)'
  <2>1. SUFFICES ASSUME r \in Viewers \ lost, NEW q \in PW!Pieces, k <= q, q <= p PROVE q \in have' \cup due'
    BY <1>1, <1>9, <1>10 DEF Rushed
  <2>2. q \in Nat /\ st[r].slid = p - 1
    BY <1>2, <1>5, <1>6 DEF StreamRecord
  <2>3. CASE q = p
    BY <1>1, <1>11, <2>1, <2>3
  <2>4. CASE q <= p - 1
    BY <1>1, <1>2, <1>6, <1>11, <2>1, <2>2, <2>4 DEF Rushed, Streaming
  <2>. QED BY <2>1, <2>2, <2>3, <2>4
<1>14. due' \subseteq PW!Pieces /\ boosted' \subseteq PW!Pieces /\ focused' \in Played \cup {PW!NoFile}
  BY <1>1, <1>2, <1>6, <1>11 DEF StreamsTyped
<1>. QED BY <1>1, <1>7, <1>11, <1>12, <1>13, <1>14, OneMoves

\* A chunk goes out: the stream has rushed the piece it comes to, or is next to
\* rush it.
LEMMA ChunkKeeps ==
    ASSUME PlayParameters, PlayIInv, NEW r \in PW!Streams, PW!ReadChunk(r)
    PROVE  PlayIInv'
<1>1. st[r].pc = "wait" /\ UNCHANGED <<have, due, boosted, focused, lost>>
  BY DEF PW!ReadChunk, PW!pieceVars
<1>2. st[r] \in StreamRecord /\ StreamsTyped /\ Within(r) /\ Rushed(r)
  BY DEF PlayIInv, StreamsTyped
<1>3. /\ st[r].f \in PW!Files /\ st[r].end < Size[st[r].f] /\ st[r].pos <= st[r].end
      /\ st[r].slid >= PW!Far(r)
  BY <1>1, <1>2 DEF Within, Streaming
<1>4. /\ st' \in [PW!Streams -> StreamRecord] /\ \A s \in PW!Streams \ {r} : st'[s] = st[s]
      /\ st'[r] = [st[r] EXCEPT !.pc = "sent", !.pos = st[r].pos + PW!ChunkLength(r)]
      /\ PW!At(r)' \in {PW!At(r), PW!At(r) + 1}
  BY <1>2, <1>3, ReadMoves
<1>5. /\ st'[r].pc = "sent" /\ st'[r].f = st[r].f /\ st'[r].end = st[r].end /\ st'[r].slid = st[r].slid
  BY <1>2, <1>4 DEF StreamRecord
<1>6. PICK k \in Nat, far \in Int : k = PW!At(r) /\ far = PW!Far(r) /\ k <= far
  <2>1. st[r].pos < Size[st[r].f]
    <3>1. st[r].pos \in Int /\ st[r].end \in Int /\ Size[st[r].f] \in Int
      BY <1>2, <1>3 DEF StreamRecord, PlayParameters
    <3>. QED BY <1>3, <3>1
  <2>. QED BY <1>2, <1>3, <2>1, AtIsAPiece
<1>7. PICK m \in Nat, n \in Int : m = PW!At(r)' /\ n = st[r].slid /\ k <= m /\ m <= k + 1 /\ n >= k
  <2>1. st[r].slid \in Int
    BY <1>2 DEF StreamRecord
  <2>. QED BY <1>3, <1>4, <1>6, <2>1
<1>8. Within(r)'
  BY <1>3, <1>5, <1>7 DEF Within
<1>9. Rushed(r)'
  <2>1. SUFFICES ASSUME r \in Viewers \ lost, NEW q \in PW!Pieces, m <= q, q <= n PROVE q \in have \cup due
    BY <1>1, <1>5, <1>7 DEF Rushed
  <2>2. q \in Int
    BY Torrent
  <2>. QED BY <1>1, <1>2, <1>6, <1>7, <2>1, <2>2 DEF Rushed, Streaming
<1>. QED BY <1>1, <1>2, <1>4, <1>8, <1>9, OneMoves DEF StreamsTyped

\* A piece that arrives, and the policy loops.
LEMMA LoopsKeep ==
    ASSUME PlayIInv, (\E p \in PW!Pieces : PW!PieceArrives(p)) \/ PW!AdaptiveTick \/ PW!Prefetch
    PROVE  PlayIInv'
<1>1. StreamsTyped
  BY DEF PlayIInv
<1>2. ASSUME NEW p \in PW!Pieces, PW!PieceArrives(p) PROVE PlayIInv'
  <2>1. have' = have \cup {p} /\ due' = due \ {p} /\ UNCHANGED <<boosted, focused, st, lost>>
    BY <1>2 DEF PW!PieceArrives, PW!fileVars
  <2>2. have' \subseteq PW!Pieces /\ due' \subseteq PW!Pieces
    BY <1>1, <2>1 DEF StreamsTyped
  <2>. QED BY <2>1, <2>2, NoneMoves
<1>3. CASE PW!AdaptiveTick \/ PW!Prefetch
  <2>1. UNCHANGED <<have, due, boosted, focused, st, lost>>
    BY <1>3 DEF PW!AdaptiveTick, PW!Prefetch, PW!PrefetchDecide, PW!PrefetchCheck, PW!PrefetchArm, PW!pieceVars, PW!fileVars
  <2>. QED BY <1>1, <2>1, NoneMoves DEF StreamsTyped
<1>. QED BY <1>2, <1>3

LEMMA PlayBegins ==
    ASSUME PW!Init
    PROVE  PlayIInv
<1>1. PW!Closed \in StreamRecord /\ PW!Closed.pc = "closed"
  BY DEF PW!Closed, StreamRecord, Stages
<1>2. st = [r \in PW!Streams |-> PW!Closed] /\ have = {} /\ due = {} /\ boosted = {} /\ focused = PW!NoFile
  BY DEF PW!Init
<1>3. StreamsTyped
  BY <1>1, <1>2 DEF StreamsTyped
<1>4. ASSUME NEW r \in PW!Streams PROVE Within(r) /\ Rushed(r)
  BY <1>1, <1>2 DEF Within, Rushed, Streaming
<1>. QED BY <1>2, <1>3, <1>4 DEF PlayIInv

LEMMA PlayKeeps ==
    ASSUME PlayParameters, PlayIInv, [PW!Next]_playVars
    PROVE  PlayIInv'
<1>1. ASSUME NEW r \in Viewers, PW!Serve(r) PROVE PlayIInv'
  BY <1>1, BeginKeeps DEF PW!Streams
<1>2. ASSUME NEW r \in Extractors, PW!Extract(r) PROVE PlayIInv'
  BY <1>2, BeginKeeps DEF PW!Streams
<1>3. ASSUME NEW r \in PW!Streams, PW!Step(r) \/ PW!ClientReads(r) \/ PW!Disconnect(r) PROVE PlayIInv'
  BY <1>3, RefocusKeeps, ResetKeeps, BoostKeeps, PcKeeps, ChunkKeeps, CloseKeeps DEF PW!Step
<1>4. CASE UNCHANGED playVars
  <2>1. UNCHANGED <<have, due, boosted, focused, st, lost>>
    BY <1>4 DEF playVars, PW!pieceVars, PW!fileVars
  <2>. QED BY <2>1, NoneMoves DEF PlayIInv, StreamsTyped
<1>. QED BY <1>1, <1>2, <1>3, <1>4, LoopsKeep DEF PW!Next

\* A piece a viewer waits for has a deadline or is there.
LEMMA WaitedFacts ==
    ASSUME PlayParameters, PlayIInv
    PROVE  PW!WaitedIsRushed
<1>. SUFFICES ASSUME NEW r \in Viewers \ lost, st[r].pc = "wait" PROVE PW!At(r) \in have \cup due
  BY DEF PW!WaitedIsRushed
<1>1. r \in PW!Streams /\ st[r] \in StreamRecord /\ StreamsTyped /\ Within(r) /\ Rushed(r)
  BY DEF PlayIInv, StreamsTyped, PW!Streams
<1>2. /\ st[r].f \in PW!Files /\ st[r].end < Size[st[r].f] /\ st[r].pos <= st[r].end
      /\ st[r].slid >= PW!Far(r)
  BY <1>1 DEF Within, Streaming
<1>3. st[r].pos < Size[st[r].f]
  <2>1. st[r].pos \in Int /\ st[r].end \in Int /\ Size[st[r].f] \in Int
    BY <1>1, <1>2 DEF StreamRecord, PlayParameters
  <2>. QED BY <1>2, <2>1
<1>4. PW!At(r) \in PW!Pieces /\ PW!At(r) \in Nat /\ PW!Far(r) \in Int /\ PW!At(r) <= PW!Far(r)
  BY <1>1, <1>2, <1>3, AtIsAPiece
<1>5. PW!At(r) <= PW!At(r) /\ PW!At(r) <= st[r].slid
  <2>1. st[r].slid \in Int
    BY <1>1 DEF StreamRecord
  <2>. QED BY <1>2, <1>4, <2>1
<1>. QED BY <1>1, <1>4, <1>5 DEF Rushed, Streaming

\* Only the read of a chunk takes a stream from waiting to its client.
LEMMA WaitedReads ==
    ASSUME PlayIInv, [PW!Next]_playVars, NEW r \in PW!Streams, st[r].pc = "wait", st'[r].pc = "sent"
    PROVE  PW!ReadChunk(r)
<1>1. ASSUME NEW s \in PW!Streams, PW!Step(s) \/ PW!ClientReads(s) \/ PW!Disconnect(s) PROVE \A q \in PW!Streams \ {s} : st'[q] = st[q]
  BY <1>1 DEF PW!Step, PW!Refocus, PW!ResetDeadlines, PW!Open, PW!BoostPiece, PW!StartWait, PW!ReadChunk, PW!ClientReads, PW!EndStream, PW!Disconnect, PW!Close, PW!Goto, PlayIInv, StreamsTyped
<1>2. ASSUME NEW s \in Viewers, PW!Serve(s) PROVE FALSE
  <2>1. st[s].pc = "closed" /\ \A q \in PW!Streams \ {s} : st'[q] = st[q]
    BY <1>2 DEF PW!Serve, PW!Reader, PlayIInv, StreamsTyped
  <2>. QED BY <2>1
<1>3. ASSUME NEW s \in Extractors, PW!Extract(s) PROVE FALSE
  <2>1. st[s].pc = "closed" /\ \A q \in PW!Streams \ {s} : st'[q] = st[q]
    BY <1>3 DEF PW!Extract, PW!Reader, PlayIInv, StreamsTyped
  <2>. QED BY <2>1
<1>4. ASSUME (\E p \in PW!Pieces : PW!PieceArrives(p)) \/ PW!AdaptiveTick \/ PW!Prefetch \/ UNCHANGED playVars
      PROVE  FALSE
  BY <1>4 DEF PW!PieceArrives, PW!AdaptiveTick, PW!Prefetch, PW!PrefetchDecide, PW!PrefetchCheck, PW!PrefetchArm, playVars
<1>5. ASSUME PW!Step(r) \/ PW!ClientReads(r) \/ PW!Disconnect(r) PROVE PW!ReadChunk(r)
  BY <1>5 DEF PW!Step, PW!Refocus, PW!ResetDeadlines, PW!Open, PW!BoostPiece, PW!StartWait, PW!ClientReads, PW!EndStream, PW!Disconnect, PW!Close, PW!Goto, PlayIInv, StreamsTyped, PW!Closed, StreamRecord
<1>6. PICK s \in PW!Streams : PW!Step(s) \/ PW!ClientReads(s) \/ PW!Disconnect(s)
  BY <1>2, <1>3, <1>4 DEF PW!Next
<1>7. s = r
  BY <1>1, <1>6
<1>. QED BY <1>5, <1>6, <1>7

LEMMA ReadsVerified ==
    ASSUME PlayParameters, PlayIInv, [PW!Next]_playVars, NEW r \in PW!Streams, st[r].pc = "wait", st'[r].pc = "sent"
    PROVE  PW!PiecesForRange(Offset[st[r].f] + st[r].pos, Offset[st[r].f] + st'[r].pos - 1) \subseteq have
<1>1. PW!ReadChunk(r)
  BY WaitedReads
<1>2. PW!At(r) \in have
  BY <1>1 DEF PW!ReadChunk
<1>3. StreamsTyped /\ st[r].f \in PW!Files /\ st[r].pos <= st[r].end
  BY DEF PlayIInv, Within, Streaming
<1>. QED BY <1>1, <1>2, <1>3, ReadMoves

----------------------------------------------------------------------------
PlayInv == part = "play" => PlayIInv

LEMMA PlayInvHolds ==
    ASSUME PlayParameters
    PROVE  Spec => []PlayInv
<1>1. Init => PlayInv
  BY PartsBegin, PlayBegins DEF PlayInv
<1>2. PlayInv /\ [Next]_allVars => PlayInv'
  BY PartsStep, PlayKeeps DEF PlayInv
<1>. QED BY <1>1, <1>2, PTL DEF Spec

\* What a viewer waits for has a deadline or is there, unless the seek of another
\* has dropped its window: for any torrent, ranges, window and chunk, however the
\* requests, the pieces that arrive and the policy loops interleave.
THEOREM WaitedHasDeadline ==
    ASSUME PlayParameters
    PROVE  Spec => []WaitedIsRushed
<1>1. PlayInv => WaitedIsRushed
  BY WaitedFacts DEF PlayInv, WaitedIsRushed
<1>. QED BY PlayInvHolds, <1>1, PTL

\* A byte a stream sends comes from pieces that were on disk, wherever files and
\* ranges begin and end (FileStream in stream/fileserver.py).
THEOREM OnlyVerifiedIsSent ==
    ASSUME PlayParameters
    PROVE  Spec => OnlyVerifiedBytes
<1>1. PlayInv /\ [Next]_allVars => [part = "play" => PW!OnlyVerifiedBytes]_playVars
  <2>. SUFFICES ASSUME PlayIInv, [PW!Next]_playVars PROVE PW!OnlyVerifiedBytes
    BY PartsStep DEF PlayInv
  <2>. QED BY ReadsVerified DEF PW!OnlyVerifiedBytes
<1>. QED BY PlayInvHolds, <1>1, PTL DEF Spec, OnlyVerifiedBytes

----------------------------------------------------------------------------
(* What a pass of the evictor leaves alone, and what it takes (EvictPass).   *)
(* Of what has been protected ever since the pass began, the pass knows      *)
(* after each of its reads what that read could tell it, and so it is never  *)
(* among the victims.                                                        *)

\* the pass has not chosen its victims
Reading == {"idle", "recent", "pinned", "names", "pins", "index"}

\* the history has its fields, and is true
History == [pin : SUBSET Torrents, served : SUBSET Torrents, out : SUBSET Torrents, stuck : SUBSET EP!Entries]
HistoryHolds == kept.pin \subseteq EP!NamedPins /\ kept.served \subseteq EP!Served

\* what the reads have told of the pins, and of the torrents that are served
PinsSeen ==
    ev.pc = "index" => \A t \in kept.pin : t \in ev.keep /\ (EP!Data(t) \in ev.inUse \/ t \in nameIndex)

ServedSeen ==
    /\ ev.pc \in {"pinned", "names", "pins", "index"} => \A t \in kept.served : EP!Data(t) \in ev.inUse
    /\ ev.pc \in {"pins", "index"} => kept.served \subseteq ev.names

\* none of their entries is a victim
Protected == kept.pin \cup kept.served

NotVictims ==
    /\ \A t \in Protected : {EP!Data(t), EP!Parts(t)} \cap (ev.todo \cup {ev.cur}) = {}
    /\ ev.pc \in Reading => ev.todo = {} /\ ev.cur = <<>>
    /\ ev.pc = "data" => ev.cur \in EP!Entries
    /\ ev.pc = "parts" => \E t \in Torrents : ev.cur = EP!Data(t)

EvictIInv == EP!TypeOK /\ HistoryHolds /\ PinsSeen /\ ServedSeen /\ NotVictims

\* What the pass has stopped is out of the session, and its name was known; while
\* its partfile is next, its data is gone or could not be deleted.
Stopped ==
    /\ kept.out \cap loaded = {}
    /\ ev.pc \in Reading \ {"idle"} => kept.out = {}
    /\ ev.pc \in {"evict", "data", "parts"} => kept.out \subseteq ev.names
    /\ ev.pc = "parts" => ev.cur \notin cached \/ ev.cur \in kept.stuck \/ ev.cur[2] \notin kept.out
    /\ ev.pc = "evict" => ev.cur = <<>>

----------------------------------------------------------------------------
\* An entry is the data or the partfile of one torrent, and not of another.
LEMMA EntryFacts ==
    /\ \A t \in Torrents : EP!Data(t) \in EP!Entries /\ EP!Parts(t) \in EP!Entries
    /\ \A e \in EP!Entries : e[2] \in Torrents /\ (e = EP!Data(e[2]) \/ e = EP!Parts(e[2]))
    /\ \A t : EP!Data(t)[2] = t /\ EP!Parts(t)[2] = t /\ EP!Data(t) # <<>> /\ EP!Parts(t) # <<>>
    /\ \A t, u : (EP!Data(t) = EP!Data(u) => t = u) /\ (EP!Parts(t) = EP!Parts(u) => t = u) /\ EP!Data(t) # EP!Parts(u)
BY DEF EP!Entries, EP!Data, EP!Parts

\* The victims are listed entries that are not in use.
LEMMA VictimsAreFree ==
    ASSUME NEW inUse, NEW V \in EP!Victims(inUse)
    PROVE  V \subseteq ev.items \ inUse
BY DEF EP!Victims

\* An entry is deleted, or noted as one that could not be.
LEMMA UnlinkFacts ==
    ASSUME EP!TypeOK, NEW e \in EP!Entries, EP!Unlink(e)
    PROVE  /\ cached' \subseteq cached /\ cached \subseteq cached' \cup {e}
           /\ e \in cached' => e \in kept'.stuck
           /\ kept.stuck \subseteq kept'.stuck
           /\ kept' \in History /\ kept'.pin = kept.pin /\ kept'.served = kept.served /\ kept'.out = kept.out
<1>1. PICK gone \in {{}, {e}} : cached' = cached \ gone /\ kept' = [kept EXCEPT !.stuck = kept.stuck \cup ({e} \ gone)]
  BY DEF EP!Unlink
<1>2. kept \in History
  BY DEF EP!TypeOK, History
<1>. QED BY <1>1, <1>2 DEF History

\* What the server does leaves the pass alone or ends it, deletes nothing, takes
\* nothing out of the name index, and keeps the history true.
LEMMA ServerStep ==
    ASSUME EP!TypeOK, HistoryHolds, EP!Server
    PROVE  /\ ev' = ev \/ ev' = EP!Idle
           /\ cached \subseteq cached' /\ nameIndex \subseteq nameIndex'
           /\ kept'.pin \subseteq kept.pin /\ kept'.served \subseteq kept.served
           /\ HistoryHolds'
<1>1. CASE \E e \in EP!Entries : EP!Write(e)
  <2>1. UNCHANGED <<EP!engine, EP!files, ev, kept>> /\ cached \subseteq cached'
    BY <1>1 DEF EP!Write
  <2>. QED BY <2>1 DEF HistoryHolds, EP!NamedPins, EP!Served, EP!engine, EP!files
<1>2. CASE \E t \in Torrents : EP!Unpin(t)
  <2>1. UNCHANGED <<cached, loaded, meta, recent, EP!files, ev, kept>>
    BY <1>2 DEF EP!Unpin
  <2>. QED BY <2>1 DEF HistoryHolds, EP!NamedPins, EP!Served, EP!files
<1>3. ASSUME EP!StillKept, ev' = ev \/ ev' = EP!Idle, cached' = cached, nameIndex \subseteq nameIndex'
      PROVE  /\ ev' = ev \/ ev' = EP!Idle
             /\ cached \subseteq cached' /\ nameIndex \subseteq nameIndex'
             /\ kept'.pin \subseteq kept.pin /\ kept'.served \subseteq kept.served
             /\ HistoryHolds'
  BY <1>3 DEF EP!StillKept, HistoryHolds
<1>4. CASE EP!Restart
  BY <1>3, <1>4 DEF EP!Restart, EP!files
<1>5. CASE \E t \in Torrents : \/ EP!Open(t) \/ EP!Learn(t) \/ EP!SaveResume(t) \/ EP!Forget(t) \/ EP!Remove(t)
                               \/ EP!Pin(t) \/ EP!SavePin(t) \/ EP!SaveUnpin(t)
  BY <1>3, <1>5 DEF EP!Open, EP!Learn, EP!SaveResume, EP!Forget, EP!Remove, EP!Pin, EP!SavePin, EP!SaveUnpin, EP!engine, EP!files
<1>. QED BY <1>1, <1>2, <1>4, <1>5 DEF EP!Server

\* The types are those of TypeOK.
LEMMA EvictTypeStep == EP!TypeOK /\ [EP!Next]_evictVars => EP!TypeOK'
<1>. SUFFICES ASSUME EP!TypeOK, [EP!Next]_evictVars PROVE EP!TypeOK'
  OBVIOUS
<1>. USE DEF EP!TypeOK, EP!Evictor, History
<1>1. CASE EP!Server
  <2>1. ASSUME kept \in History, EP!StillKept
        PROVE  kept' \in History
    BY <2>1 DEF EP!StillKept
  <2>2. ASSUME NEW t \in Torrents, EP!Open(t) PROVE EP!TypeOK'
    BY <2>1, <2>2 DEF EP!Open, EP!files
  <2>3. ASSUME NEW t \in Torrents, EP!Learn(t) PROVE EP!TypeOK'
    BY <2>1, <2>3 DEF EP!Learn, EP!files
  <2>4. ASSUME NEW t \in Torrents, EP!SaveResume(t) PROVE EP!TypeOK'
    BY <2>1, <2>4 DEF EP!SaveResume, EP!engine
  <2>5. ASSUME NEW t \in Torrents, EP!Forget(t) PROVE EP!TypeOK'
    BY <2>1, <2>5 DEF EP!Forget, EP!files
  <2>6. ASSUME NEW t \in Torrents, EP!Remove(t) PROVE EP!TypeOK'
    BY <2>1, <2>6 DEF EP!Remove, EP!files
  <2>7. ASSUME NEW t \in Torrents, EP!Pin(t) PROVE EP!TypeOK'
    BY <2>1, <2>7 DEF EP!Pin, EP!files
  <2>8. ASSUME NEW t \in Torrents, EP!SavePin(t) PROVE EP!TypeOK'
    BY <2>1, <2>8 DEF EP!SavePin, EP!engine
  <2>9. ASSUME NEW t \in Torrents, EP!Unpin(t) PROVE EP!TypeOK'
    BY <2>9 DEF EP!Unpin, EP!files
  <2>10. ASSUME NEW t \in Torrents, EP!SaveUnpin(t) PROVE EP!TypeOK'
    BY <2>1, <2>10 DEF EP!SaveUnpin, EP!engine
  <2>11. ASSUME NEW e \in EP!Entries, EP!Write(e) PROVE EP!TypeOK'
    BY <2>11 DEF EP!Write, EP!engine, EP!files
  <2>12. CASE EP!Restart
    BY <2>1, <2>12 DEF EP!Restart, EP!files, EP!Idle
  <2>. QED BY <1>1, <2>2, <2>3, <2>4, <2>5, <2>6, <2>7, <2>8, <2>9, <2>10, <2>11, <2>12 DEF EP!Server
<1>2. CASE EP!Scan
  <2>1. PICK fresh \in SUBSET cached : ev' = [EP!Idle EXCEPT !.pc = "recent", !.items = cached, !.inUse = fresh]
    BY <1>2 DEF EP!Scan
  <2>2. ev' \in EP!Evictor /\ ev'.pc = "recent"
    BY <2>1 DEF EP!Idle
  <2>3. kept' = [pin |-> EP!NamedPins, served |-> EP!Served, out |-> {}, stuck |-> {}]
    BY <1>2 DEF EP!Scan, EP!Unkept
  <2>4. EP!NamedPins \in SUBSET Torrents /\ EP!Served \in SUBSET Torrents
    BY DEF EP!NamedPins, EP!Served
  <2>5. UNCHANGED <<cached, EP!engine, EP!files>>
    BY <1>2 DEF EP!Scan
  <2>. QED BY <2>2, <2>3, <2>4, <2>5 DEF EP!engine, EP!files
<1>3. CASE EP!ReadRecent
  <2>1. {EP!Data(t) : t \in EP!Served} \subseteq EP!Entries
    BY EntryFacts DEF EP!Served
  <2>. QED BY <1>3, <2>1 DEF EP!ReadRecent, EP!engine, EP!files
<1>4. CASE EP!ReadPinned
  <2>1. {EP!Data(t) : t \in pinned \cap meta} \subseteq EP!Entries
    BY EntryFacts
  <2>. QED BY <1>4, <2>1 DEF EP!ReadPinned, EP!engine, EP!files
<1>5. CASE EP!ReadNames
  BY <1>5 DEF EP!ReadNames, EP!engine, EP!files
<1>6. CASE EP!PassFails
  BY <1>6 DEF EP!PassFails, EP!Idle, EP!Unkept, EP!engine, EP!files
<1>7. CASE EP!ReadPins
  <2>1. {EP!Data(t) : t \in {u \in Torrents : pinsFile[u] = "named"}} \subseteq EP!Entries
    BY EntryFacts
  <2>. QED BY <1>7, <2>1 DEF EP!ReadPins, EP!engine, EP!files
<1>8. CASE EP!Select
  <2>1. PICK V \in EP!Victims(EP!InUse) :
            ev' = [ev EXCEPT !.pc = "evict", !.items = {}, !.inUse = {}, !.keep = {}, !.todo = V]
    BY <1>8 DEF EP!Select
  <2>2. V \subseteq EP!Entries
    BY <2>1, VictimsAreFree
  <2>. QED BY <1>8, <2>1, <2>2 DEF EP!Select, EP!engine, EP!files
<1>9. ASSUME NEW e \in EP!Entries, EP!Stop(e) PROVE EP!TypeOK'
  <2>1. ev' \in EP!Evictor /\ ev'.cur \in EP!Entries
    BY <1>9 DEF EP!Stop
  <2>2. CASE e = EP!Data(e[2]) /\ e[2] \in ev.names
    <3>1. kept' = [kept EXCEPT !.out = {e[2]}, !.stuck = {}] /\ e[2] \in Torrents
      BY <1>9, <2>2 DEF EP!Stop
    <3>. QED BY <1>9, <2>1, <2>2, <3>1 DEF EP!Stop, EP!files
  <2>3. CASE ~(e = EP!Data(e[2]) /\ e[2] \in ev.names)
    BY <1>9, <2>1, <2>3 DEF EP!Stop, EP!files
  <2>. QED BY <2>2, <2>3
<1>10. CASE EP!DeleteEntry
  <2>1. ev.cur \in EP!Entries
    BY <1>10 DEF EP!DeleteEntry
  <2>2. cached' \in SUBSET EP!Entries /\ kept' \in History
    BY <1>10, <2>1, UnlinkFacts DEF EP!DeleteEntry
  <2>3. ev' \in EP!Evictor /\ (ev'.pc \in {"data", "parts"} => ev'.cur \in EP!Entries)
    <3>1. \/ ev' = [ev EXCEPT !.pc = "parts"]
          \/ ev' = [ev EXCEPT !.pc = "evict", !.cur = <<>>]
      BY <1>10 DEF EP!DeleteEntry, EP!Goto, EP!NextVictim
    <3>. QED BY <2>1, <3>1
  <2>. QED BY <1>10, <2>2, <2>3 DEF EP!DeleteEntry, EP!engine, EP!files
<1>11. CASE EP!DeleteParts
  <2>1. EP!Parts(ev.cur[2]) \in EP!Entries
    BY <1>11, EntryFacts DEF EP!DeleteParts
  <2>2. cached' \in SUBSET EP!Entries /\ kept' \in History
    BY <1>11, <2>1, UnlinkFacts DEF EP!DeleteParts
  <2>. QED BY <1>11, <2>2 DEF EP!DeleteParts, EP!NextVictim, EP!engine, EP!files
<1>12. CASE EP!PassDone
  BY <1>12 DEF EP!PassDone, EP!Idle, EP!Unkept, EP!engine, EP!files
<1>13. CASE UNCHANGED evictVars
  BY <1>13 DEF evictVars, EP!engine, EP!files
<1>. QED BY <1>1, <1>2, <1>3, <1>4, <1>5, <1>6, <1>7, <1>8, <1>9, <1>10, <1>11, <1>12, <1>13 DEF EP!Next, EP!Pass

\* The invariant is inductive.
LEMMA EvictBegins == EP!Init => EvictIInv
<1>1. EP!Init => EP!TypeOK
  BY DEF EP!Init, EP!TypeOK, EP!Idle, EP!Unkept, EP!Evictor
<1>. QED BY <1>1 DEF EP!Init, EvictIInv, HistoryHolds, PinsSeen, ServedSeen, NotVictims, Protected, EP!Idle, EP!Unkept

LEMMA EvictKeeps == EvictIInv /\ [EP!Next]_evictVars => EvictIInv'
<1>. SUFFICES ASSUME EvictIInv, [EP!Next]_evictVars PROVE EvictIInv'
  OBVIOUS
<1>1. EP!TypeOK /\ EP!TypeOK'
  BY EvictTypeStep DEF EvictIInv
<1>. SUFFICES HistoryHolds' /\ PinsSeen' /\ ServedSeen' /\ NotVictims'
  BY <1>1 DEF EvictIInv
<1>. USE DEF EvictIInv
<1>2. CASE EP!Server
  <2>1. /\ ev' = ev \/ ev' = EP!Idle
        /\ nameIndex \subseteq nameIndex'
        /\ kept'.pin \subseteq kept.pin /\ kept'.served \subseteq kept.served
        /\ HistoryHolds'
    BY <1>1, <1>2, ServerStep
  <2>2. CASE ev' = ev
    BY <2>1, <2>2 DEF PinsSeen, ServedSeen, NotVictims, Protected
  <2>3. CASE ev' = EP!Idle
    BY <2>3, <2>1, EntryFacts DEF EP!Idle, PinsSeen, ServedSeen, NotVictims, Protected
  <2>. QED BY <2>1, <2>2, <2>3
\* a step of the pass that leaves the server's state and the history alone
<1>3. ASSUME UNCHANGED <<EP!engine, EP!files, kept.pin, kept.served>> PROVE HistoryHolds'
  BY <1>3 DEF HistoryHolds, EP!NamedPins, EP!Served, EP!engine, EP!files
<1>4. CASE EP!Scan
  <2>1. HistoryHolds'
    BY <1>4 DEF EP!Scan, HistoryHolds, EP!Unkept, EP!NamedPins, EP!Served, EP!engine, EP!files
  <2>2. ev'.pc = "recent" /\ ev'.todo = {} /\ ev'.cur = <<>>
    BY <1>4 DEF EP!Scan, EP!Idle
  <2>. QED BY <2>1, <2>2, EntryFacts DEF PinsSeen, ServedSeen, NotVictims, Reading
<1>5. ASSUME ev.pc \in Reading, ev'.pc \in Reading, ev'.todo = ev.todo, ev'.cur = ev.cur,
             kept' = kept
      PROVE  NotVictims'
  BY <1>5 DEF NotVictims, Protected, Reading
<1>6. CASE EP!ReadRecent
  <2>1. ServedSeen'
    BY <1>1, <1>6 DEF EP!ReadRecent, ServedSeen, HistoryHolds, EP!Evictor, EP!TypeOK
  <2>2. NotVictims'
    BY <1>1, <1>5, <1>6 DEF EP!ReadRecent, Reading, EP!Evictor, EP!TypeOK
  <2>. QED BY <1>1, <1>3, <1>6, <2>1, <2>2 DEF EP!ReadRecent, PinsSeen, EP!Evictor, EP!TypeOK
<1>7. CASE EP!ReadPinned
  <2>1. ServedSeen'
    BY <1>1, <1>7 DEF EP!ReadPinned, ServedSeen, EP!Evictor, EP!TypeOK
  <2>2. NotVictims'
    BY <1>1, <1>5, <1>7 DEF EP!ReadPinned, Reading, EP!Evictor, EP!TypeOK
  <2>. QED BY <1>1, <1>3, <1>7, <2>1, <2>2 DEF EP!ReadPinned, PinsSeen, EP!Evictor, EP!TypeOK
<1>8. CASE EP!ReadNames
  <2>1. ServedSeen'
    BY <1>1, <1>8 DEF EP!ReadNames, ServedSeen, HistoryHolds, EP!Served, EP!Evictor, EP!TypeOK
  <2>2. NotVictims'
    BY <1>1, <1>5, <1>8 DEF EP!ReadNames, Reading, EP!Evictor, EP!TypeOK
  <2>. QED BY <1>1, <1>3, <1>8, <2>1, <2>2 DEF EP!ReadNames, PinsSeen, EP!Evictor, EP!TypeOK
<1>9. CASE EP!ReadPins
  <2>1. ServedSeen'
    BY <1>1, <1>9 DEF EP!ReadPins, ServedSeen, EP!Evictor, EP!TypeOK
  <2>2. NotVictims'
    BY <1>1, <1>5, <1>9 DEF EP!ReadPins, Reading, EP!Evictor, EP!TypeOK
  <2>3. ASSUME NEW t \in kept.pin
        PROVE  t \in ev'.keep /\ (EP!Data(t) \in ev'.inUse \/ t \in nameIndex)
    <3>1. t \in Torrents /\ (pinsFile[t] = "named" \/ (pinsFile[t] = "unnamed" /\ t \in nameIndex))
      BY DEF HistoryHolds, EP!NamedPins
    <3>. QED BY <1>1, <1>9, <3>1 DEF EP!ReadPins, EP!Evictor, EP!TypeOK
  <2>. QED BY <1>3, <1>9, <2>1, <2>2, <2>3 DEF EP!ReadPins, PinsSeen, EP!files
<1>10. CASE EP!Select
  <2>1. PICK V \in EP!Victims(EP!InUse) :
            ev' = [ev EXCEPT !.pc = "evict", !.items = {}, !.inUse = {}, !.keep = {}, !.todo = V]
    BY <1>10 DEF EP!Select
  <2>2. ev.pc = "index" /\ UNCHANGED <<EP!engine, EP!files, kept>>
    BY <1>10 DEF EP!Select
  <2>3. V \cap EP!InUse = {}
    BY VictimsAreFree
  <2>4. ev'.pc = "evict" /\ ev'.todo = V /\ ev'.cur = <<>>
    BY <1>1, <2>1, <2>2 DEF NotVictims, Reading, EP!Evictor, EP!TypeOK
  <2>5. ASSUME NEW t \in Protected PROVE EP!Data(t) \in EP!InUse /\ EP!Parts(t) \in EP!InUse
    <3>1. CASE t \in kept.pin
      BY <2>2, <3>1 DEF PinsSeen, EP!InUse
    <3>2. CASE t \in kept.served
      BY <2>2, <3>2 DEF ServedSeen, EP!InUse
    <3>. QED BY <3>1, <3>2 DEF Protected
  <2>6. NotVictims'
    BY <2>2, <2>3, <2>4, <2>5, EntryFacts DEF NotVictims, Protected, Reading
  <2>. QED BY <1>3, <2>2, <2>4, <2>6 DEF PinsSeen, ServedSeen
<1>11. ASSUME NEW e \in EP!Entries, EP!Stop(e) PROVE HistoryHolds' /\ PinsSeen' /\ ServedSeen' /\ NotVictims'
  <2>1. ev'.pc = "data" /\ ev'.todo = ev.todo \ {e} /\ ev'.cur = e /\ e \in ev.todo
    <3>1. ev \in EP!Evictor
      BY <1>1 DEF EP!TypeOK
    <3>2. ev' = [ev EXCEPT !.pc = "data", !.todo = ev.todo \ {e}, !.cur = e] /\ e \in ev.todo
      BY <1>11 DEF EP!Stop
    <3>. QED BY <3>1, <3>2 DEF EP!Evictor
  <2>2. kept'.pin = kept.pin /\ kept'.served = kept.served
    BY <1>1, <1>11 DEF EP!Stop, EP!TypeOK
  <2>3. HistoryHolds'
    <3>1. CASE e = EP!Data(e[2]) /\ e[2] \in ev.names
      <4>1. e[2] \notin kept.served
        BY <1>1, <2>1, <3>1 DEF NotVictims, Protected
      <4>2. recent' = recent \ {e[2]} /\ meta' = meta \ {e[2]} /\ UNCHANGED EP!files
        BY <1>11, <3>1 DEF EP!Stop
      <4>. QED BY <2>2, <4>1, <4>2 DEF HistoryHolds, EP!NamedPins, EP!Served, EP!files
    <3>2. CASE ~(e = EP!Data(e[2]) /\ e[2] \in ev.names)
      BY <1>11, <2>2, <3>2 DEF EP!Stop, HistoryHolds, EP!NamedPins, EP!Served, EP!files
    <3>. QED BY <3>1, <3>2
  <2>. QED BY <2>1, <2>2, <2>3 DEF PinsSeen, ServedSeen, NotVictims, Protected, Reading
<1>12. CASE EP!DeleteEntry
  <2>1. /\ ev'.todo = ev.todo
        /\ \/ ev'.pc = "parts" /\ ev'.cur = ev.cur /\ ev.cur = EP!Data(ev.cur[2])
           \/ ev'.pc = "evict" /\ ev'.cur = <<>>
    <3>1. ev \in EP!Evictor
      BY <1>1 DEF EP!TypeOK
    <3>2. CASE ev.cur = EP!Data(ev.cur[2]) /\ ev.cur[2] \in ev.names
      <4>1. ev' = [ev EXCEPT !.pc = "parts"]
        BY <1>12, <3>2 DEF EP!DeleteEntry, EP!Goto
      <4>. QED BY <3>1, <3>2, <4>1 DEF EP!Evictor
    <3>3. CASE ~(ev.cur = EP!Data(ev.cur[2]) /\ ev.cur[2] \in ev.names)
      <4>1. ev' = [ev EXCEPT !.pc = "evict", !.cur = <<>>]
        BY <1>12, <3>3 DEF EP!DeleteEntry, EP!NextVictim
      <4>. QED BY <3>1, <4>1 DEF EP!Evictor
    <3>. QED BY <3>2, <3>3
  <2>2. ev.pc = "data" /\ ev.cur \in EP!Entries /\ UNCHANGED <<EP!engine, EP!files>>
    BY <1>12 DEF EP!DeleteEntry, NotVictims
  <2>4. kept'.pin = kept.pin /\ kept'.served = kept.served
    BY <1>1, <1>12, <2>2, UnlinkFacts DEF EP!DeleteEntry
  <2>5. Protected' = Protected
    BY <2>4 DEF Protected
  <2>6. ASSUME NEW t \in Protected PROVE {EP!Data(t), EP!Parts(t)} \cap (ev'.todo \cup {ev'.cur}) = {}
    <3>1. {EP!Data(t), EP!Parts(t)} \cap (ev.todo \cup {ev.cur}) = {}
      BY DEF NotVictims
    <3>. QED BY <2>1, <3>1, EntryFacts
  <2>7. ev'.pc = "parts" => \E t \in Torrents : ev'.cur = EP!Data(t)
    BY <2>1, <2>2, EntryFacts
  <2>3. NotVictims'
    BY <2>1, <2>5, <2>6, <2>7 DEF NotVictims, Reading
  <2>. QED BY <1>3, <2>1, <2>2, <2>3, <2>4 DEF PinsSeen, ServedSeen
<1>13. CASE EP!DeleteParts
  <2>1. ev'.todo = ev.todo /\ ev'.pc = "evict" /\ ev'.cur = <<>>
    BY <1>1, <1>13 DEF EP!DeleteParts, EP!NextVictim, EP!Evictor, EP!TypeOK
  <2>2. UNCHANGED <<EP!engine, EP!files>> /\ kept'.pin = kept.pin /\ kept'.served = kept.served
    <3>1. EP!Parts(ev.cur[2]) \in EP!Entries
      BY <1>1, <1>13, EntryFacts DEF EP!DeleteParts, EP!TypeOK
    <3>. QED BY <1>1, <1>13, <3>1, UnlinkFacts DEF EP!DeleteParts
  <2>3. NotVictims'
    BY <2>1, <2>2, EntryFacts DEF NotVictims, Protected, Reading
  <2>. QED BY <1>3, <2>1, <2>2, <2>3 DEF PinsSeen, ServedSeen
<1>14. CASE EP!PassFails \/ EP!PassDone
  BY <1>14, EntryFacts DEF EP!PassFails, EP!PassDone, EP!Idle, EP!Unkept, HistoryHolds, PinsSeen, ServedSeen, NotVictims, Protected
<1>15. CASE UNCHANGED evictVars
  <2>1. UNCHANGED <<EP!engine, EP!files, ev, kept>>
    BY <1>15 DEF evictVars, EP!engine, EP!files
  <2>. QED BY <1>3, <2>1 DEF EP!files, PinsSeen, ServedSeen, NotVictims, Protected
<1>. QED BY <1>2, <1>4, <1>6, <1>7, <1>8, <1>9, <1>10, <1>11, <1>12, <1>13, <1>14, <1>15 DEF EP!Next, EP!Pass

\* The evictor deletes entries that are not protected.
LEMMA DeletedAreVictims ==
    ASSUME EvictIInv, [EP!Next]_evictVars, NEW e \in EP!Deleted
    PROVE  e[2] \notin Protected
<1>1. EP!TypeOK /\ NotVictims /\ HistoryHolds
  BY DEF EvictIInv
<1>2. CASE EP!DeleteEntry
  <2>1. e = ev.cur /\ e \in EP!Entries
    BY <1>1, <1>2, UnlinkFacts DEF EP!DeleteEntry, EP!Deleted, NotVictims
  <2>. QED BY <1>1, <2>1, EntryFacts DEF NotVictims
<1>3. CASE EP!DeleteParts
  <2>1. e = EP!Parts(ev.cur[2]) /\ ev.pc = "parts"
    <3>1. EP!Parts(ev.cur[2]) \in EP!Entries /\ EP!Unlink(EP!Parts(ev.cur[2])) /\ ev.pc = "parts"
      BY <1>1, <1>3, EntryFacts DEF EP!DeleteParts, EP!TypeOK
    <3>. QED BY <1>1, <3>1, UnlinkFacts DEF EP!Deleted
  <2>2. PICK t \in Torrents : ev.cur = EP!Data(t)
    BY <1>1, <2>1 DEF NotVictims
  <2>. QED BY <1>1, <2>1, <2>2, EntryFacts DEF NotVictims
<1>4. CASE EP!Server
  BY <1>1, <1>4, ServerStep DEF EP!Deleted
<1>5. ASSUME cached' = cached PROVE FALSE
  BY <1>5 DEF EP!Deleted
<1>6. CASE UNCHANGED evictVars
  BY <1>5, <1>6 DEF evictVars
<1>7. CASE \/ EP!Scan \/ EP!ReadRecent \/ EP!ReadPinned \/ EP!ReadNames \/ EP!ReadPins \/ EP!Select
           \/ (\E v \in EP!Entries : EP!Stop(v)) \/ EP!PassDone \/ EP!PassFails
  BY <1>5, <1>7 DEF EP!Scan, EP!ReadRecent, EP!ReadPinned, EP!ReadNames, EP!ReadPins, EP!Select, EP!Stop, EP!PassDone, EP!PassFails
<1>. QED BY <1>2, <1>3, <1>4, <1>6, <1>7 DEF EP!Next, EP!Pass

----------------------------------------------------------------------------
\* What the server does while torrents are out of the session.
LEMMA ServerStopped ==
    ASSUME EP!TypeOK, Stopped, EP!Server
    PROVE  Stopped'
<1>1. ASSUME NEW e \in EP!Entries, EP!Write(e) PROVE Stopped'
  <2>1. UNCHANGED <<loaded, ev, kept>> /\ e[2] \in loaded /\ cached' = cached \cup {e}
    BY <1>1 DEF EP!Write, EP!engine, EP!TypeOK
  <2>2. e[2] \notin kept.out
    BY <2>1 DEF Stopped
  <2>. QED BY <2>1, <2>2 DEF Stopped
<1>2. ASSUME NEW t \in Torrents, EP!Unpin(t) PROVE Stopped'
  <2>1. UNCHANGED <<loaded, ev, kept, cached>>
    BY <1>2 DEF EP!Unpin
  <2>. QED BY <2>1 DEF Stopped
<1>3. ASSUME EP!StillKept, ev' = ev, cached' = cached PROVE Stopped'
  <2>1. kept'.out = kept.out \ loaded' /\ kept'.stuck = kept.stuck
    BY <1>3 DEF EP!StillKept
  <2>. QED BY <1>3, <2>1 DEF Stopped
<1>4. CASE EP!Restart
  <2>1. kept'.out = kept.out \ loaded' /\ ev'.pc = "idle"
    BY <1>4 DEF EP!Restart, EP!StillKept, EP!Idle
  <2>. QED BY <2>1 DEF Stopped
<1>5. CASE \E t \in Torrents : \/ EP!Open(t) \/ EP!Learn(t) \/ EP!SaveResume(t) \/ EP!Forget(t) \/ EP!Remove(t)
                               \/ EP!Pin(t) \/ EP!SavePin(t) \/ EP!SaveUnpin(t)
  BY <1>3, <1>5 DEF EP!Open, EP!Learn, EP!SaveResume, EP!Forget, EP!Remove, EP!Pin, EP!SavePin, EP!SaveUnpin
<1>. QED BY <1>1, <1>2, <1>4, <1>5 DEF EP!Server

LEMMA StoppedKeeps == EvictIInv /\ Stopped /\ [EP!Next]_evictVars => Stopped'
<1>. SUFFICES ASSUME EvictIInv, Stopped, [EP!Next]_evictVars PROVE Stopped'
  OBVIOUS
<1>1. EP!TypeOK /\ NotVictims /\ ev \in EP!Evictor
  BY DEF EvictIInv, EP!TypeOK
\* a step of the pass that leaves the session, the history and the disk alone
<1>2. ASSUME UNCHANGED <<loaded, kept, cached>>, ev.pc \in Reading \ {"idle"}, ev'.pc \in Reading
      PROVE  Stopped'
  <2>1. kept.out = {}
    BY <1>2 DEF Stopped
  <2>. QED BY <1>2, <2>1 DEF Stopped, Reading
<1>3. CASE EP!Server
  BY <1>1, <1>3, ServerStopped
<1>4. ASSUME kept'.out = {}, ev'.pc \in Reading PROVE Stopped'
  BY <1>4 DEF Stopped, Reading
<1>11. CASE EP!Scan
  <2>1. PICK fresh : ev' = [EP!Idle EXCEPT !.pc = "recent", !.items = cached, !.inUse = fresh]
    BY <1>11 DEF EP!Scan
  <2>2. kept' = [EP!Unkept EXCEPT !.pin = EP!NamedPins, !.served = EP!Served]
    BY <1>11 DEF EP!Scan
  <2>3. ev'.pc = "recent" /\ kept'.out = {}
    BY <2>1, <2>2 DEF EP!Idle, EP!Unkept
  <2>. QED BY <1>4, <2>3 DEF Reading
<1>12. CASE EP!PassDone \/ EP!PassFails
  BY <1>4, <1>12 DEF EP!PassDone, EP!PassFails, EP!Unkept, EP!Idle, Reading
<1>5. CASE EP!ReadRecent \/ EP!ReadPinned \/ EP!ReadNames \/ EP!ReadPins
  <2>1. ev.pc \in Reading \ {"idle"} /\ ev'.pc \in Reading
    BY <1>1, <1>5 DEF EP!ReadRecent, EP!ReadPinned, EP!ReadNames, EP!ReadPins, Reading, EP!Evictor
  <2>. QED BY <1>2, <1>5, <2>1 DEF EP!ReadRecent, EP!ReadPinned, EP!ReadNames, EP!ReadPins, EP!engine
<1>6. CASE EP!Select
  <2>1. PICK V : ev' = [ev EXCEPT !.pc = "evict", !.items = {}, !.inUse = {}, !.keep = {}, !.todo = V]
    BY <1>6 DEF EP!Select
  <2>2. ev.pc = "index" /\ UNCHANGED <<loaded, kept>>
    BY <1>6 DEF EP!Select, EP!engine
  <2>3. ev'.pc = "evict" /\ ev'.cur = <<>> /\ kept.out = {}
    BY <1>1, <2>1, <2>2 DEF EP!Evictor, NotVictims, Stopped, Reading
  <2>. QED BY <2>2, <2>3 DEF Stopped, Reading
<1>7. ASSUME NEW e \in EP!Entries, EP!Stop(e) PROVE Stopped'
  <2>1. ev' = [ev EXCEPT !.pc = "data", !.todo = ev.todo \ {e}, !.cur = e] /\ ev.pc = "evict"
    BY <1>7 DEF EP!Stop
  <2>2. ev'.pc = "data" /\ ev'.names = ev.names
    BY <1>1, <2>1 DEF EP!Evictor
  <2>3. CASE e = EP!Data(e[2]) /\ e[2] \in ev.names
    <3>1. kept'.out = {e[2]} /\ loaded' = loaded \ {e[2]}
      BY <1>1, <1>7, <2>3 DEF EP!Stop, EP!TypeOK
    <3>. QED BY <2>2, <2>3, <3>1 DEF Stopped, Reading
  <2>4. CASE ~(e = EP!Data(e[2]) /\ e[2] \in ev.names)
    <3>1. UNCHANGED <<loaded, kept.out>>
      BY <1>1, <1>7, <2>4 DEF EP!Stop, EP!TypeOK
    <3>. QED BY <2>1, <2>2, <3>1 DEF Stopped, Reading
  <2>. QED BY <2>3, <2>4
<1>8. CASE EP!DeleteEntry
  <2>1. ev.pc = "data" /\ ev.cur \in EP!Entries /\ EP!Unlink(ev.cur) /\ loaded' = loaded
    BY <1>1, <1>8 DEF EP!DeleteEntry, EP!engine, NotVictims
  <2>2. kept'.out = kept.out /\ (ev.cur \in cached' => ev.cur \in kept'.stuck)
    BY <1>1, <2>1, UnlinkFacts
  <2>3. CASE ev.cur = EP!Data(ev.cur[2]) /\ ev.cur[2] \in ev.names
    <3>1. ev' = [ev EXCEPT !.pc = "parts"]
      BY <1>8, <2>3 DEF EP!DeleteEntry, EP!Goto
    <3>2. ev'.pc = "parts" /\ ev'.cur = ev.cur /\ ev'.names = ev.names
      BY <1>1, <3>1 DEF EP!Evictor
    <3>. QED BY <2>1, <2>2, <3>2 DEF Stopped, Reading
  <2>4. CASE ~(ev.cur = EP!Data(ev.cur[2]) /\ ev.cur[2] \in ev.names)
    <3>1. ev' = [ev EXCEPT !.pc = "evict", !.cur = <<>>]
      BY <1>8, <2>4 DEF EP!DeleteEntry, EP!NextVictim
    <3>2. ev'.pc = "evict" /\ ev'.cur = <<>> /\ ev'.names = ev.names
      BY <1>1, <3>1 DEF EP!Evictor
    <3>. QED BY <2>1, <2>2, <3>2 DEF Stopped, Reading
  <2>. QED BY <2>3, <2>4
<1>9. CASE EP!DeleteParts
  <2>1. /\ ev.pc = "parts" /\ loaded' = loaded /\ ev' = [ev EXCEPT !.pc = "evict", !.cur = <<>>]
        /\ EP!Parts(ev.cur[2]) \in EP!Entries /\ EP!Unlink(EP!Parts(ev.cur[2]))
    BY <1>1, <1>9, EntryFacts DEF EP!DeleteParts, EP!NextVictim, EP!engine, EP!TypeOK
  <2>2. ev'.pc = "evict" /\ ev'.cur = <<>> /\ ev'.names = ev.names
    BY <1>1, <2>1 DEF EP!Evictor
  <2>3. kept'.out = kept.out
    BY <1>1, <2>1, UnlinkFacts
  <2>. QED BY <2>1, <2>2, <2>3 DEF Stopped, Reading
<1>10. CASE UNCHANGED evictVars
  <2>1. UNCHANGED <<ev, kept, cached, loaded>>
    BY <1>10 DEF evictVars, EP!engine
  <2>. QED BY <2>1 DEF Stopped
<1>. QED BY <1>3, <1>5, <1>6, <1>7, <1>8, <1>9, <1>10, <1>11, <1>12 DEF EP!Next, EP!Pass

\* When the pass moves on from a torrent it has stopped, both its entries are gone,
\* or it could not delete them.
LEMMA BothAreGone ==
    ASSUME EvictIInv, Stopped, [EP!Next]_evictVars, ev.cur # <<>>, ev'.pc = "evict", NEW t \in kept.out, ev.cur = EP!Data(t)
    PROVE  cached' \cap {EP!Data(t), EP!Parts(t)} \subseteq kept'.stuck
<1>1. EP!TypeOK /\ NotVictims /\ ev \in EP!Evictor
  BY DEF EvictIInv, EP!TypeOK
<1>2. ev.pc \in {"data", "parts"}
  BY <1>1 DEF EP!Evictor, NotVictims, Stopped, Reading
<1>3. ev.cur[2] = t
  BY EntryFacts
<1>4. CASE EP!DeleteEntry
  <2>1. t \in ev.names
    BY <1>2 DEF Stopped
  <2>2. ev' = [ev EXCEPT !.pc = "parts"]
    BY <1>3, <1>4, <2>1 DEF EP!DeleteEntry, EP!Goto
  <2>. QED BY <1>1, <2>2 DEF EP!Evictor
<1>5. CASE EP!DeleteParts
  <2>1. EP!Unlink(EP!Parts(t)) /\ EP!Parts(t) \in EP!Entries /\ ev.pc = "parts"
    BY <1>1, <1>3, <1>5, EntryFacts DEF EP!DeleteParts, EP!TypeOK
  <2>2. EP!Data(t) \notin cached \/ EP!Data(t) \in kept.stuck
    BY <1>3, <2>1 DEF Stopped
  <2>. QED BY <1>1, <2>1, <2>2, UnlinkFacts
<1>6. CASE EP!Server
  <2>1. ev' = ev \/ ev' = EP!Idle
    BY <1>1, <1>6, ServerStep DEF EvictIInv
  <2>. QED BY <1>2, <2>1 DEF EP!Idle
<1>7. CASE UNCHANGED evictVars
  BY <1>2, <1>7 DEF evictVars
<1>8. CASE \/ EP!Scan \/ EP!ReadRecent \/ EP!ReadPinned \/ EP!ReadNames \/ EP!ReadPins \/ EP!Select
           \/ (\E v \in EP!Entries : EP!Stop(v)) \/ EP!PassDone \/ EP!PassFails
  BY <1>2, <1>8 DEF EP!Scan, EP!ReadRecent, EP!ReadPinned, EP!ReadNames, EP!ReadPins, EP!Select, EP!Stop, EP!PassDone, EP!PassFails
<1>. QED BY <1>4, <1>5, <1>6, <1>7, <1>8 DEF EP!Next, EP!Pass

----------------------------------------------------------------------------
EvictInv == part = "evict" => EvictIInv /\ Stopped

LEMMA EvictInvHolds == Spec => []EvictInv
<1>1. Init => EvictInv
  <2>1. EP!Init => Stopped
    BY DEF EP!Init, Stopped, EP!Unkept, EP!Idle
  <2>. QED BY <2>1, PartsBegin, EvictBegins DEF EvictInv
<1>2. EvictInv /\ [Next]_allVars => EvictInv'
  BY PartsStep, EvictKeeps, StoppedKeeps DEF EvictInv
<1>. QED BY <1>1, <1>2, PTL DEF Spec

\* A pin that has a name all through a pass of evict_once loses nothing to it,
\* whatever the server does between the pass's reads.
THEOREM PinsSpared == Spec => PinsAreSpared
<1>1. EvictInv /\ [Next]_allVars => [part = "evict" => EP!PinsAreSpared]_evictVars
  <2>. SUFFICES ASSUME EvictIInv, [EP!Next]_evictVars PROVE EP!PinsAreSpared
    BY PartsStep DEF EvictInv
  <2>. QED BY DeletedAreVictims DEF Protected, EP!PinsAreSpared
<1>. QED BY EvictInvHolds, <1>1, PTL DEF Spec, PinsAreSpared

\* Nor does a torrent that is being served all through it.
THEOREM ServedSpared == Spec => ServedAreSpared
<1>1. EvictInv /\ [Next]_allVars => [part = "evict" => EP!ServedAreSpared]_evictVars
  <2>. SUFFICES ASSUME EvictIInv, [EP!Next]_evictVars PROVE EP!ServedAreSpared
    BY PartsStep DEF EvictInv
  <2>. QED BY DeletedAreVictims DEF Protected, EP!ServedAreSpared
<1>. QED BY EvictInvHolds, <1>1, PTL DEF Spec, ServedAreSpared

\* When the pass moves on from a torrent it stopped, nothing is left of its data and
\* its partfile but what could not be deleted, unless the torrent was opened again
\* meanwhile: a failure with the one does not keep the pass from the other.
THEOREM NothingIsLeft == Spec => NothingLeftBehind
<1>1. EvictInv /\ [Next]_allVars => [part = "evict" => EP!NothingLeftBehind]_evictVars
  <2>. SUFFICES ASSUME EvictIInv, Stopped, [EP!Next]_evictVars PROVE EP!NothingLeftBehind
    BY PartsStep DEF EvictInv
  <2>. QED BY BothAreGone DEF EP!NothingLeftBehind
<1>. QED BY EvictInvHolds, <1>1, PTL DEF Spec, NothingLeftBehind

----------------------------------------------------------------------------
(* Which of two servers evicts (EvictorClaim).                              *)

\* what the parameters of the loop are: times, and a mark that is no claim
ClaimParameters ==
    /\ Interval \in Nat /\ StaleAfter \in Nat /\ ClaimUntil \in Nat
    /\ Nothing \notin [host : Servers, heartbeat : Nat]

MaybeClaim == [host : Servers, heartbeat : Nat] \cup {Nothing}
LoopPcs == {"dead", "sleep", "judge", "write", "pass"}
Loops == [pc : LoopPcs, wake : Nat, saw : MaybeClaim, beat : Nat, met : SUBSET Servers]

\* the types, as the proofs need them
ClaimTyped ==
    /\ claimTime \in Nat
    /\ claim \in MaybeClaim
    /\ loop \in [Servers -> Loops]
    /\ muddled \in BOOLEAN

\* A server that has met nobody is the only one between reading and writing.
Alone ==
    \A s, u \in Servers : s # u /\ EC!Claiming(s) /\ loop[s].met = {} => ~EC!Claiming(u)

\* The claim of a pass that met nobody and has not outlived it.
Claimed(s) == [host |-> s, heartbeat |-> loop[s].beat]
Sole(s) == loop[s].pc = "pass" /\ loop[s].met = {} /\ claimTime <= loop[s].beat + StaleAfter

\* Such a claim stands, and whoever has read since has read it: nobody is about to write.
Stands ==
    ~muddled =>
      \A s \in Servers : Sole(s) =>
        /\ claim = Claimed(s)
        /\ \A u \in Servers \ {s} : loop[u].pc # "write" /\ (loop[u].pc = "judge" => loop[u].saw = Claimed(s))

ClaimIInv == ClaimTyped /\ Alone /\ Stands

----------------------------------------------------------------------------
\* The loop a server falls asleep in, and the one of a dead process, are loops.
LEMMA AsleepTyped ==
    ASSUME ClaimParameters, claimTime \in Nat
    PROVE  /\ EC!Asleep \in Loops /\ [EC!Asleep EXCEPT !.pc = "dead"] \in Loops
           /\ EC!Asleep.pc = "sleep" /\ [EC!Asleep EXCEPT !.pc = "dead"].pc = "dead"
  BY DEF ClaimParameters, EC!Asleep, Loops, LoopPcs, MaybeClaim

\* A server that leaves the claim alone and only stops passing, or falls asleep,
\* disturbs nothing: EndPass, Die, Start and the rival's case of EvictorMayRun.
LEMMA QuietKeeps ==
    ASSUME ClaimParameters, ClaimIInv, NEW s \in Servers, NEW l \in Loops,
           l.pc \in {"sleep", "dead"}, EC!Go(s, l), UNCHANGED <<claimTime, claim, muddled>>
    PROVE  ClaimIInv'
  <1>1. \A u \in Servers : loop'[u] = IF u = s THEN l ELSE loop[u]
    BY DEF EC!Go, ClaimIInv, ClaimTyped
  <1>2. ClaimTyped'
    BY DEF ClaimIInv, ClaimTyped, EC!Go
  <1>3. Alone'
    BY <1>1 DEF ClaimIInv, Alone, EC!Claiming
  <1>4. Stands'
    BY <1>1 DEF ClaimIInv, Stands, Sole, Claimed
  <1> QED  BY <1>2, <1>3, <1>4 DEF ClaimIInv

\* The reader meets everybody who is between reading and writing, and they meet it.
LEMMA ReadKeeps ==
    ASSUME ClaimParameters, ClaimIInv, NEW s \in Servers, EC!ReadOwner(s)
    PROVE  ClaimIInv'
  <1> DEFINE others == {t \in Servers \ {s} : EC!Claiming(t)}
             read == [loop[s] EXCEPT !.pc = "judge", !.saw = claim, !.met = others]
             met(t) == [loop[t] EXCEPT !.met = @ \cup {s}]
  <1>1. /\ loop[s].pc = "sleep" /\ UNCHANGED <<claimTime, claim, muddled>>
        /\ loop' = [t \in Servers |-> IF t = s THEN read ELSE IF t \in others THEN met(t) ELSE loop[t]]
    BY DEF EC!ReadOwner
  <1>2. \A t \in Servers : loop[t] \in Loops
    BY DEF ClaimIInv, ClaimTyped
  <1>3. read \in Loops /\ \A t \in Servers : met(t) \in Loops
    <2>1. others \in SUBSET Servers /\ claim \in MaybeClaim
      BY DEF ClaimIInv, ClaimTyped
    <2>2. read \in Loops
      <3>1. PICK l \in Loops : l = loop[s]
        BY <1>2
      <3>2. PICK o \in SUBSET Servers : o = others
        BY <2>1
      <3>3. PICK c \in MaybeClaim : c = claim
        BY <2>1
      <3>4. [l EXCEPT !.pc = "judge", !.saw = c, !.met = o] \in Loops
        BY DEF Loops, LoopPcs
      <3> QED  BY <3>1, <3>2, <3>3, <3>4
    <2>3. \A t \in Servers : met(t) \in Loops
      BY <1>2 DEF Loops
    <2> QED  BY <2>2, <2>3
  <1>4. ClaimTyped'
    BY <1>1, <1>2, <1>3 DEF ClaimIInv, ClaimTyped
  <1>5. /\ read.pc = "judge" /\ read.saw = claim /\ read.met = others
        /\ \A t \in Servers : /\ met(t).pc = loop[t].pc /\ met(t).saw = loop[t].saw
                              /\ met(t).beat = loop[t].beat /\ met(t).met # {}
    BY <1>2 DEF Loops
  <1> HIDE DEF read, met
  <1>6. Alone'
    <2> SUFFICES ASSUME NEW t \in Servers, NEW u \in Servers, t # u,
                        EC!Claiming(t)', loop'[t].met = {}, EC!Claiming(u)'
                 PROVE  FALSE
      BY DEF Alone
    <2>1. CASE t = s
      <3>1. u \notin others
        BY <2>1, <1>1, <1>5
      <3>2. EC!Claiming(u)
        BY <2>1, <3>1, <1>1 DEF EC!Claiming
      <3> QED  BY <2>1, <3>1, <3>2
    <2>2. CASE t # s
      <3>1. t \notin others
        BY <2>2, <1>1, <1>5
      <3>2. EC!Claiming(t)
        BY <2>2, <3>1, <1>1 DEF EC!Claiming
      <3> QED  BY <2>2, <3>1, <3>2
    <2> QED  BY <2>1, <2>2
  <1>7. Stands'
    <2> SUFFICES ASSUME ~muddled, NEW t \in Servers, Sole(t)'
                 PROVE  /\ claim = Claimed(t)'
                        /\ \A u \in Servers \ {t} : loop'[u].pc # "write" /\ (loop'[u].pc = "judge" => loop'[u].saw = Claimed(t)')
      BY <1>1 DEF Stands
    <2>1. t # s /\ t \notin others
      BY <1>1, <1>5 DEF Sole, EC!Claiming
    <2>2. loop'[t] = loop[t]
      BY <2>1, <1>1
    <2>3. Sole(t) /\ Claimed(t)' = Claimed(t)
      BY <2>2, <1>1 DEF Sole, Claimed
    <2>4. /\ claim = Claimed(t)
          /\ \A u \in Servers \ {t} : loop[u].pc # "write" /\ (loop[u].pc = "judge" => loop[u].saw = Claimed(t))
      BY <2>3 DEF ClaimIInv, Stands
    <2>5. \A u \in Servers \ {t} : loop'[u].pc # "write" /\ (loop'[u].pc = "judge" => loop'[u].saw = Claimed(t)')
      BY <2>3, <2>4, <1>1, <1>5
    <2> QED  BY <2>3, <2>4, <2>5
  <1> QED  BY <1>4, <1>6, <1>7 DEF ClaimIInv

\* Who judges the claim of a pass that stands finds a rival; who goes on has read another.
LEMMA JudgeKeeps ==
    ASSUME ClaimParameters, ClaimIInv, NEW s \in Servers, EC!EvictorMayRun(s)
    PROVE  ClaimIInv'
  <1>1. CASE EC!Rival(s)
    BY <1>1, AsleepTyped, QuietKeeps DEF EC!EvictorMayRun, ClaimIInv, ClaimTyped
  <1>2. CASE ~EC!Rival(s)
    <2>a. loop[s] \in Loops /\ claimTime \in Nat
      BY DEF ClaimIInv, ClaimTyped
    <2>b. PICK on : on = [loop[s] EXCEPT !.pc = "write", !.beat = claimTime]
      OBVIOUS
    <2>1. loop[s].pc = "judge" /\ loop' = [loop EXCEPT ![s] = on] /\ UNCHANGED <<claimTime, claim, muddled>>
      BY <1>2, <2>b DEF EC!EvictorMayRun, EC!Go
    <2>2. on \in Loops /\ on.pc = "write" /\ on.met = loop[s].met
      BY <2>a, <2>b DEF Loops, LoopPcs
    <2>3. \A u \in Servers : loop'[u] = IF u = s THEN on ELSE loop[u]
      BY <2>1 DEF ClaimIInv, ClaimTyped
    <2>4. ClaimTyped'
      BY <2>1, <2>2 DEF ClaimIInv, ClaimTyped
    <2>5. Alone'
      BY <2>1, <2>2, <2>3 DEF ClaimIInv, Alone, EC!Claiming
    <2>6. \A t \in Servers : ~muddled /\ Sole(t) => t = s
      <3> SUFFICES ASSUME NEW t \in Servers, ~muddled, Sole(t), t # s
                   PROVE  FALSE
        OBVIOUS
      <3>1. loop[s].saw = Claimed(t)
        BY <2>1 DEF ClaimIInv, Stands
      <3>2. Claimed(t) \in [host : Servers, heartbeat : Nat]
        BY DEF Claimed, ClaimIInv, ClaimTyped, Loops
      <3>3. loop[t].beat \in Nat /\ claimTime \in Nat /\ claimTime <= loop[t].beat + StaleAfter
        BY DEF Sole, ClaimIInv, ClaimTyped, Loops
      <3>4. claimTime - loop[t].beat <= StaleAfter
        BY <3>3 DEF ClaimParameters
      <3> QED  BY <1>2, <3>1, <3>2, <3>4 DEF EC!Rival, Claimed, ClaimParameters
    <2>7. Stands'
      BY <2>1, <2>2, <2>3, <2>6 DEF Stands, Sole
    <2> QED  BY <2>4, <2>5, <2>7 DEF ClaimIInv
  <1> QED  BY <1>1, <1>2

\* A server that has met nobody writes alone, and nobody has read before it.
LEMMA WriteKeeps ==
    ASSUME ClaimParameters, ClaimIInv, NEW s \in Servers, EC!WriteOwner(s)
    PROVE  ClaimIInv'
  <1> DEFINE pass == [loop[s] EXCEPT !.pc = "pass"]
             mine == [host |-> s, heartbeat |-> loop[s].beat]
  <1>1. loop[s].pc = "write" /\ loop' = [loop EXCEPT ![s] = pass] /\ claimTime' = claimTime
    BY DEF EC!WriteOwner, EC!Go
  <1>2. claim' \in {mine, claim, Nothing} /\ muddled' = (muddled \/ claim' # mine)
    BY DEF EC!WriteOwner
  <1>3. /\ pass \in Loops /\ pass.pc = "pass" /\ pass.met = loop[s].met /\ pass.beat = loop[s].beat
        /\ mine \in MaybeClaim
    BY DEF ClaimIInv, ClaimTyped, Loops, LoopPcs, MaybeClaim
  <1> HIDE DEF pass
  <1>4. \A u \in Servers : loop'[u] = IF u = s THEN pass ELSE loop[u]
    BY <1>1 DEF ClaimIInv, ClaimTyped
  <1>5. ClaimTyped'
    BY <1>1, <1>2, <1>3 DEF ClaimIInv, ClaimTyped, MaybeClaim
  <1>6. Alone'
    BY <1>3, <1>4 DEF ClaimIInv, Alone, EC!Claiming
  <1>7. Stands'
    <2> SUFFICES ASSUME ~muddled', NEW t \in Servers, Sole(t)'
                 PROVE  /\ claim' = Claimed(t)'
                        /\ \A u \in Servers \ {t} : loop'[u].pc # "write" /\ (loop'[u].pc = "judge" => loop'[u].saw = Claimed(t)')
      BY DEF Stands
    <2>1. claim' = mine /\ ~muddled
      BY <1>2
    <2>2. t = s
      <3> SUFFICES ASSUME t # s
                   PROVE  FALSE
        OBVIOUS
      <3>1. Sole(t)
        BY <1>1, <1>4 DEF Sole
      <3> QED  BY <3>1, <2>1, <1>1 DEF ClaimIInv, Stands
    <2>3. \A u \in Servers \ {s} : ~EC!Claiming(u)
      BY <2>2, <1>1, <1>3, <1>4 DEF ClaimIInv, Alone, EC!Claiming, Sole
    <2>4. Claimed(t)' = mine
      BY <2>2, <1>3, <1>4 DEF Claimed
    <2>5. \A u \in Servers \ {t} : loop'[u].pc \notin {"judge", "write"}
      BY <2>2, <2>3, <1>4 DEF EC!Claiming
    <2> QED  BY <2>1, <2>4, <2>5
  <1> QED  BY <1>5, <1>6, <1>7 DEF ClaimIInv

\* Time only ages claims.
LEMMA ClaimTickKeeps ==
    ASSUME ClaimParameters, ClaimIInv, EC!Tick
    PROVE  ClaimIInv'
  <1>1. claimTime \in Nat /\ claimTime' = claimTime + 1 /\ UNCHANGED <<claim, loop, muddled>>
    BY DEF EC!Tick, ClaimIInv, ClaimTyped
  <1>2. ClaimTyped' /\ Alone'
    BY <1>1 DEF ClaimIInv, ClaimTyped, Alone, EC!Claiming
  <1>3. \A s \in Servers : Sole(s)' => Sole(s)
    <2> SUFFICES ASSUME NEW s \in Servers, Sole(s)'
                 PROVE  Sole(s)
      OBVIOUS
    <2>1. loop[s].beat \in Nat
      BY DEF ClaimIInv, ClaimTyped, Loops
    <2> QED  BY <2>1, <1>1 DEF Sole, ClaimParameters
  <1>4. Stands'
    BY <1>1, <1>3 DEF ClaimIInv, Stands, Claimed
  <1> QED  BY <1>2, <1>4 DEF ClaimIInv

LEMMA ClaimBegins ==
    ASSUME ClaimParameters, EC!Init
    PROVE  ClaimIInv
  <1>1. claimTime \in Nat /\ \A s \in Servers : loop[s] = EC!Asleep
    BY DEF EC!Init
  <1>2. EC!Asleep \in Loops /\ EC!Asleep.pc = "sleep"
    BY <1>1, AsleepTyped
  <1>3. ClaimTyped
    BY <1>2 DEF EC!Init, ClaimTyped, MaybeClaim
  <1>4. Alone /\ Stands
    BY <1>1, <1>2 DEF Alone, Stands, EC!Claiming, Sole
  <1> QED  BY <1>3, <1>4 DEF ClaimIInv

LEMMA ClaimKeepsAll ==
    ASSUME ClaimParameters, ClaimIInv, [EC!Next]_claimVars
    PROVE  ClaimIInv'
  <1>1. CASE UNCHANGED claimVars
    BY <1>1 DEF claimVars, ClaimIInv, ClaimTyped, Alone, Stands, EC!Claiming, Sole, Claimed
  <1>2. CASE EC!Tick
    BY <1>2, ClaimTickKeeps
  <1>3. ASSUME NEW s \in Servers,
               EC!ReadOwner(s) \/ EC!EvictorMayRun(s) \/ EC!WriteOwner(s) \/ EC!EndPass(s) \/ EC!Die(s) \/ EC!Start(s)
        PROVE  ClaimIInv'
    <2> claimTime \in Nat
      BY DEF ClaimIInv, ClaimTyped
    <2>1. CASE EC!ReadOwner(s)
      BY <2>1, ReadKeeps
    <2>2. CASE EC!EvictorMayRun(s)
      BY <2>2, JudgeKeeps
    <2>3. CASE EC!WriteOwner(s)
      BY <2>3, WriteKeeps
    <2>4. CASE EC!EndPass(s) \/ EC!Start(s)
      BY <2>4, AsleepTyped, QuietKeeps DEF EC!EndPass, EC!Start
    <2>5. CASE EC!Die(s)
      BY <2>5, AsleepTyped, QuietKeeps DEF EC!Die
    <2> QED  BY <1>3, <2>1, <2>2, <2>3, <2>4, <2>5
  <1> QED  BY <1>1, <1>2, <1>3 DEF EC!Next

ClaimInv == part = "claim" => ClaimIInv

\* "One cache root, one evictor", as far as the protocol of evictor_may_run can
\* promise it: two servers evict at once only if one of them judged the claim while
\* another did, if its pass outlived its claim, or if a claim was not written.
THEOREM OneEvictorAtOnce ==
    ASSUME ClaimParameters
    PROVE  Spec => []OneEvictor
  <1>1. Init => ClaimInv
    BY PartsBegin, ClaimBegins DEF ClaimInv
  <1>2. ClaimInv /\ [Next]_allVars => ClaimInv'
    BY PartsStep, ClaimKeepsAll DEF ClaimInv
  <1>3. ClaimIInv => EC!OneEvictor
    <2> SUFFICES ASSUME ClaimIInv, ~muddled, NEW s \in Servers, NEW t \in Servers, s # t,
                        loop[s].pc = "pass", loop[t].pc = "pass"
                 PROVE  \E u \in {s, t} : loop[u].met # {} \/ loop[u].beat + StaleAfter < claimTime
      BY DEF EC!OneEvictor
    <2>1. \A u \in {s, t} : loop[u].beat \in Nat /\ claimTime \in Nat
      BY DEF ClaimIInv, ClaimTyped, Loops
    <2>2. ~(Sole(s) /\ Sole(t))
      <3>1. Sole(s) => claim = Claimed(s)
        BY DEF ClaimIInv, Stands
      <3>2. Sole(t) => claim = Claimed(t)
        BY DEF ClaimIInv, Stands
      <3>3. Claimed(s).host = s /\ Claimed(t).host = t
        BY DEF Claimed
      <3> QED  BY <3>1, <3>2, <3>3
    <2> QED  BY <2>1, <2>2 DEF Sole, ClaimParameters
  <1>4. ClaimInv => OneEvictor
    BY <1>3 DEF ClaimInv, OneEvictor
  <1> QED  BY <1>1, <1>2, <1>4, PTL DEF Spec

----------------------------------------------------------------------------
(* What the retirement of old resume records leaves alone (CacheSweep).     *)

\* a torrent has a name of the cache root, and the mark is no torrent
SweepParameters == NameOf \in [Torrents -> Names] /\ Nothing \notin Torrents

Registries == {"index", "pins", "wanted"}

\* How far the sweep is with reading a registry.
ReadBy(r) ==
    CASE r = "index" -> {"pins", "wanted", "visit", "remove", "prune", "save"}
      [] r = "pins" -> {"wanted", "visit", "remove", "prune", "save"}
      [] r = "wanted" -> {"visit", "remove", "prune", "save"}
SweepPcs == {"idle", "disk", "index", "pins", "wanted", "visit", "remove", "prune", "save"}

RecordsTyped == DOMAIN records = Torrents /\ pins \subseteq Torrents /\ wanted \subseteq Torrents

\* What a registry has claimed all along it still claims, ...
StillClaimed ==
    /\ DOMAIN safe = Registries
    /\ safe["index"] \subseteq CS!IndexedOn(disk)
    /\ safe["pins"] \subseteq pins
    /\ safe["wanted"] \subseteq wanted

\* ... so the sweep finds its name on the disk, and then itself in the registry, ...
SafeIsSeen ==
    /\ sweep.pc = "index" => \A t \in safe["index"] : NameOf[t] \in sweep.disk
    /\ \A r \in Registries : sweep.pc \in ReadBy(r) => safe[r] \subseteq sweep.claimed

\* ... and what it is about to delete is none of that.
SweepIInv ==
    /\ DOMAIN sweep = {"pc", "todo", "disk", "claimed", "look", "idx"}
    /\ RecordsTyped /\ StillClaimed /\ SafeIsSeen
    /\ sweep.pc = "remove" => sweep.look \notin sweep.claimed

\* When the sweep has read every registry, what is safe is claimed.
LEMMA SafeIsClaimed ==
    ASSUME SweepIInv, sweep.pc \in {"visit", "remove", "prune", "save"}, NEW t \in UNION CS!Range(safe)
    PROVE  t \in sweep.claimed
  <1>1. PICK r \in Registries : t \in safe[r]
    BY DEF SweepIInv, StillClaimed, CS!Range
  <1> QED  BY <1>1 DEF SweepIInv, SafeIsSeen, ReadBy, Registries

----------------------------------------------------------------------------
\* What follows for a step that changes the registries, the index or the disk.
LEMMA SafeShrinks ==
    ASSUME StillClaimed, CS!StillSafe
    PROVE  StillClaimed' /\ \A r \in Registries : safe'[r] \subseteq safe[r]
  <1>1. /\ DOMAIN safe' = Registries
        /\ \A r \in Registries : safe'[r] = safe[r] \cap (CS!Claims')[r]
    BY DEF CS!StillSafe, StillClaimed
  <1>2. /\ (CS!Claims')["index"] = CS!IndexedOn(disk)'
        /\ (CS!Claims')["pins"] = pins'
        /\ (CS!Claims')["wanted"] = wanted'
    BY DEF CS!Claims
  <1> QED  BY <1>1, <1>2 DEF StillClaimed, Registries

\* A sweep that goes on as it was sees no less.
LEMMA RegistriesKeep ==
    ASSUME SweepIInv, CS!StillSafe, UNCHANGED sweep, RecordsTyped'
    PROVE  SweepIInv'
  <1>1. StillClaimed' /\ \A r \in Registries : safe'[r] \subseteq safe[r]
    BY SafeShrinks DEF SweepIInv
  <1>2. SafeIsSeen'
    BY <1>1 DEF SweepIInv, SafeIsSeen, Registries, ReadBy
  <1> QED  BY <1>1, <1>2 DEF SweepIInv

\* So does one while nothing it depends on changes.
LEMMA ElsewhereKeeps ==
    ASSUME SweepIInv, UNCHANGED <<sweep, safe, disk, index, pins, wanted>>, RecordsTyped'
    PROVE  SweepIInv'
  BY DEF SweepIInv, StillClaimed, SafeIsSeen, CS!IndexedOn

\* A step of the sweep itself leaves what is safe as it is.
LEMMA SweepStepKeeps ==
    ASSUME SweepIInv, UNCHANGED <<safe, disk, index, pins, wanted>>,
           DOMAIN sweep' = DOMAIN sweep, RecordsTyped', SafeIsSeen', sweep'.pc = "remove" => sweep'.look \notin sweep'.claimed
    PROVE  SweepIInv'
  BY DEF SweepIInv, StillClaimed, CS!IndexedOn

LEMMA RecordsTypeKept ==
    ASSUME RecordsTyped, [CS!Next]_sweepVars
    PROVE  RecordsTyped'
  <1>1. (\E t \in Torrents : CS!WriteRecord(t) \/ CS!Look(t)) \/ CS!LoadIndex \/ CS!SaveIndex \/ CS!SweepList
        \/ CS!ListDisk \/ CS!ReadIndex \/ CS!ReadPins \/ CS!ReadWanted \/ CS!PruneLoad \/ CS!PruneList
        \/ CS!PruneSave \/ CS!Restart \/ UNCHANGED sweepVars
        => UNCHANGED <<records, pins, wanted>>
    BY DEF CS!WriteRecord, CS!Look, CS!LoadIndex, CS!SaveIndex, CS!SweepList, CS!ListDisk, CS!ReadIndex,
           CS!ReadPins, CS!ReadWanted, CS!PruneLoad, CS!PruneList, CS!PruneSave, CS!Restart, CS!files, sweepVars
  <1>2. CS!ReplaceRecord \/ CS!Remove \/ CS!Age => RecordsTyped'
    BY DEF CS!ReplaceRecord, CS!Remove, CS!Age, RecordsTyped
  <1>3. CS!Request \/ CS!Removal => RecordsTyped'
    BY DEF CS!Request, CS!Removal, RecordsTyped
  <1> QED  BY <1>1, <1>2, <1>3 DEF CS!Next, RecordsTyped

\* The sweep begins with what is claimed then, and sleeps.
LEMMA SweepBegins ==
    ASSUME CS!Init
    PROVE  SweepIInv
  <1>1. DOMAIN sweep = {"pc", "todo", "disk", "claimed", "look", "idx"} /\ sweep.pc = "idle"
    BY DEF CS!Init, CS!Asleep
  <1>2. DOMAIN safe = Registries /\ \A r \in Registries : safe[r] = {}
    BY DEF CS!Init, CS!NoClaims, Registries
  <1>3. RecordsTyped
    BY DEF CS!Init, RecordsTyped
  <1> QED  BY <1>1, <1>2, <1>3 DEF SweepIInv, StillClaimed, SafeIsSeen, ReadBy, Registries

LEMMA SweepListKeeps ==
    ASSUME SweepIInv, RecordsTyped', CS!SweepList
    PROVE  SweepIInv'
  <1>1. DOMAIN sweep' = DOMAIN sweep /\ sweep'.pc = "disk"
    BY DEF CS!SweepList, SweepIInv
  <1>2. StillClaimed'
    BY DEF CS!SweepList, CS!Claims, CS!IndexedOn, CS!files, StillClaimed, Registries
  <1> QED  BY <1>1, <1>2 DEF SweepIInv, SafeIsSeen, ReadBy, Registries

\* The reads of the sweep, one registry after the other.
LEMMA ReadsKeep ==
    ASSUME SweepIInv, RecordsTyped', CS!ListDisk \/ CS!ReadIndex \/ CS!ReadPins \/ CS!ReadWanted
    PROVE  SweepIInv'
  <1>0. UNCHANGED <<safe, disk, index, pins, wanted>> /\ DOMAIN sweep' = DOMAIN sweep
    BY DEF CS!ListDisk, CS!ReadIndex, CS!ReadPins, CS!ReadWanted, CS!files, SweepIInv
  <1>1. CASE CS!ListDisk
    <2>1. sweep'.pc = "index" /\ sweep'.disk = disk
      BY <1>1 DEF CS!ListDisk, SweepIInv
    <2>2. \A t \in safe["index"] : NameOf[t] \in disk
      BY DEF SweepIInv, StillClaimed, CS!IndexedOn
    <2>3. SafeIsSeen'
      BY <1>0, <2>1, <2>2 DEF SafeIsSeen, ReadBy, Registries
    <2> QED  BY <1>0, <2>1, <2>3, SweepStepKeeps
  <1>2. CASE CS!ReadIndex
    <2>1. sweep.pc = "index" /\ sweep'.pc = "pins" /\ sweep'.claimed = CS!IndexedOn(sweep.disk)
      BY <1>2 DEF CS!ReadIndex, SweepIInv
    <2>2. safe["index"] \subseteq CS!IndexedOn(sweep.disk)
      BY <2>1 DEF SweepIInv, StillClaimed, SafeIsSeen, CS!IndexedOn
    <2>3. SafeIsSeen'
      BY <1>0, <2>1, <2>2 DEF SafeIsSeen, ReadBy, Registries
    <2> QED  BY <1>0, <2>1, <2>3, SweepStepKeeps
  <1>3. CASE CS!ReadPins
    <2>1. sweep.pc = "pins" /\ sweep'.pc = "wanted" /\ sweep'.claimed = sweep.claimed \cup pins
      BY <1>3 DEF CS!ReadPins, SweepIInv
    <2>2. safe["index"] \subseteq sweep.claimed /\ safe["pins"] \subseteq pins
      BY <2>1 DEF SweepIInv, StillClaimed, SafeIsSeen, ReadBy, Registries
    <2>3. SafeIsSeen'
      BY <1>0, <2>1, <2>2 DEF SafeIsSeen, ReadBy, Registries
    <2> QED  BY <1>0, <2>1, <2>3, SweepStepKeeps
  <1>4. CASE CS!ReadWanted
    <2>1. sweep.pc = "wanted" /\ sweep'.pc = "visit" /\ sweep'.claimed = sweep.claimed \cup wanted
      BY <1>4 DEF CS!ReadWanted, SweepIInv
    <2>2. safe["index"] \cup safe["pins"] \subseteq sweep.claimed /\ safe["wanted"] \subseteq wanted
      BY <2>1 DEF SweepIInv, StillClaimed, SafeIsSeen, ReadBy, Registries
    <2>3. SafeIsSeen'
      BY <1>0, <2>1, <2>2 DEF SafeIsSeen, ReadBy, Registries
    <2> QED  BY <1>0, <2>1, <2>3, SweepStepKeeps
  <1> QED  BY <1>1, <1>2, <1>3, <1>4

\* After the reads, the claims stay as they were read.
LEMMA VisitsKeep ==
    ASSUME SweepIInv, RecordsTyped', (\E t \in Torrents : CS!Look(t)) \/ CS!Remove \/ CS!PruneLoad \/ CS!PruneList
    PROVE  SweepIInv'
  <1>1. /\ UNCHANGED <<safe, disk, index, pins, wanted>> /\ DOMAIN sweep' = DOMAIN sweep
        /\ sweep.pc \in {"visit", "remove", "prune"} /\ sweep'.pc \in {"visit", "remove", "prune", "save"}
        /\ sweep'.claimed = sweep.claimed
    BY DEF CS!Look, CS!Remove, CS!PruneLoad, CS!PruneList, CS!files, SweepIInv
  <1>2. sweep'.pc = "remove" => sweep'.look \notin sweep'.claimed
    <2>1. ASSUME NEW t \in Torrents, CS!Look(t)
          PROVE  sweep'.pc = "remove" => sweep'.look \notin sweep'.claimed
      BY <2>1 DEF CS!Look, CS!Retired, SweepIInv
    <2>2. CS!Remove \/ CS!PruneLoad \/ CS!PruneList => sweep'.pc # "remove"
      BY DEF CS!Remove, CS!PruneLoad, CS!PruneList, SweepIInv
    <2> QED  BY <2>1, <2>2
  <1>3. SafeIsSeen'
    BY <1>1 DEF SweepIInv, SafeIsSeen, ReadBy, Registries
  <1> QED  BY <1>1, <1>2, <1>3, SweepStepKeeps

\* A sweep that is over, and a restart.
LEMMA SweepEndKeeps ==
    ASSUME SweepIInv, RecordsTyped', CS!PruneSave \/ CS!Restart
    PROVE  SweepIInv'
  <1>1. DOMAIN sweep' = {"pc", "todo", "disk", "claimed", "look", "idx"} /\ sweep'.pc = "idle"
    BY DEF CS!PruneSave, CS!Restart, CS!Asleep
  <1>2. StillClaimed'
    <2>1. CASE CS!PruneSave
      BY <2>1, SafeShrinks DEF CS!PruneSave, SweepIInv
    <2>2. CASE CS!Restart
      BY <2>2 DEF CS!Restart, CS!NoClaims, StillClaimed, Registries
    <2> QED  BY <2>1, <2>2
  <1> QED  BY <1>1, <1>2 DEF SweepIInv, SafeIsSeen, ReadBy, Registries

LEMMA SweepKeeps ==
    ASSUME SweepIInv, [CS!Next]_sweepVars
    PROVE  SweepIInv'
  <1>0. RecordsTyped'
    BY RecordsTypeKept DEF SweepIInv
  <1>1. ASSUME NEW t \in Torrents, CS!WriteRecord(t)
        PROVE  SweepIInv'
    BY <1>0, <1>1, ElsewhereKeeps DEF CS!WriteRecord
  <1>2. CASE CS!ReplaceRecord \/ CS!LoadIndex \/ CS!Age
    BY <1>0, <1>2, ElsewhereKeeps DEF CS!ReplaceRecord, CS!LoadIndex, CS!Age, CS!files
  <1>3. CASE CS!SaveIndex \/ CS!Request \/ CS!Removal
    BY <1>0, <1>3, RegistriesKeep DEF CS!SaveIndex, CS!Request, CS!Removal
  <1>4. CASE UNCHANGED sweepVars
    BY <1>0, <1>4, ElsewhereKeeps DEF sweepVars
  <1> QED  BY <1>0, <1>1, <1>2, <1>3, <1>4, SweepListKeeps, ReadsKeep, VisitsKeep, SweepEndKeeps DEF CS!Next

----------------------------------------------------------------------------
\* The records of what is safe stay, ...
LEMMA RecordsStay ==
    ASSUME SweepIInv, [CS!Next]_sweepVars, sweep' # sweep, NEW t \in UNION CS!Range(safe), records[t] # "none"
    PROVE  records'[t] # "none"
  <1>0. t \in Torrents /\ DOMAIN records = Torrents
    BY DEF SweepIInv, RecordsTyped, StillClaimed, CS!IndexedOn, CS!Range, Registries
  <1>1. CASE CS!Remove
    <2>1. sweep.pc = "remove" /\ records' = [records EXCEPT ![sweep.look] = "none"]
      BY <1>1 DEF CS!Remove
    <2>2. t # sweep.look
      BY <2>1, SafeIsClaimed DEF SweepIInv
    <2> QED  BY <1>0, <2>1, <2>2
  <1>2. CASE UNCHANGED records
    BY <1>2
  <1>3. (\E u \in Torrents : CS!WriteRecord(u)) \/ CS!ReplaceRecord \/ CS!LoadIndex \/ CS!SaveIndex \/ CS!Request
        \/ CS!Removal \/ CS!Age \/ UNCHANGED sweepVars => sweep' = sweep
    BY DEF CS!WriteRecord, CS!ReplaceRecord, CS!LoadIndex, CS!SaveIndex, CS!Request, CS!Removal, CS!Age, sweepVars
  <1>4. (\E u \in Torrents : CS!Look(u)) \/ CS!SweepList \/ CS!ListDisk \/ CS!ReadIndex \/ CS!ReadPins
        \/ CS!ReadWanted \/ CS!PruneLoad \/ CS!PruneList \/ CS!PruneSave \/ CS!Restart => UNCHANGED records
    BY DEF CS!Look, CS!SweepList, CS!ListDisk, CS!ReadIndex, CS!ReadPins, CS!ReadWanted, CS!PruneLoad,
           CS!PruneList, CS!PruneSave, CS!Restart, CS!files
  <1> QED  BY <1>1, <1>2, <1>3, <1>4 DEF CS!Next

\* ... and so does the entry of the index that the sweep has read.
LEMMA EntriesStay ==
    ASSUME SweepParameters, SweepIInv, [CS!Next]_sweepVars, NEW t \in UNION CS!Range(safe),
           sweep.pc = "save", sweep'.pc = "idle", sweep.idx[NameOf[t]] = t, index[NameOf[t]] = t
    PROVE  index'[NameOf[t]] = t
  <1>1. CASE CS!PruneSave
    <2>1. t \in Torrents /\ NameOf[t] \in Names
      BY DEF SweepIInv, RecordsTyped, StillClaimed, CS!IndexedOn, CS!Range, Registries, SweepParameters
    <2>2. t \in sweep.claimed
      BY SafeIsClaimed
    <2>3. CS!Pruned[NameOf[t]] = t
      BY <2>1, <2>2 DEF CS!Pruned, SweepParameters
    <2> QED  BY <1>1, <2>3 DEF CS!PruneSave
  <1>2. CASE CS!Restart
    BY <1>2 DEF CS!Restart, CS!files
  <1>3. CASE sweep' = sweep
    BY <1>3
  <1>4. CASE CS!SweepList \/ CS!ListDisk \/ CS!ReadIndex \/ CS!ReadPins \/ CS!ReadWanted \/ CS!Remove
             \/ CS!PruneLoad \/ CS!PruneList \/ \E u \in Torrents : CS!Look(u)
    BY <1>4 DEF CS!SweepList, CS!ListDisk, CS!ReadIndex, CS!ReadPins, CS!ReadWanted, CS!Remove, CS!PruneLoad,
                CS!PruneList, CS!Look
  <1>5. (\E u \in Torrents : CS!WriteRecord(u)) \/ CS!ReplaceRecord \/ CS!LoadIndex \/ CS!SaveIndex \/ CS!Request
        \/ CS!Removal \/ CS!Age \/ UNCHANGED sweepVars => sweep' = sweep
    BY DEF CS!WriteRecord, CS!ReplaceRecord, CS!LoadIndex, CS!SaveIndex, CS!Request, CS!Removal, CS!Age, sweepVars
  <1> QED  BY <1>1, <1>2, <1>3, <1>4, <1>5 DEF CS!Next

SweepInv == part = "sweep" => SweepIInv

\* However the sweep of the cache root, the thread that saves resume records, and
\* downloads, keeps, removals and restarts interleave: the sweep takes neither the
\* resume record nor the entry of the index from what a registry has claimed ever
\* since it began (stremiosrv/cache.py, sweep_resume).
THEOREM SweepSpares ==
    ASSUME SweepParameters
    PROVE  Spec => SweepSparesClaimed
  <1>1. Init => SweepInv
    BY PartsBegin, SweepBegins DEF SweepInv
  <1>2. SweepInv /\ [Next]_allVars => SweepInv'
    BY PartsStep, SweepKeeps DEF SweepInv
  <1>3. SweepInv /\ [Next]_allVars => [part = "sweep" => CS!SweepSparesSafe]_sweepVars
    <2> SUFFICES ASSUME SweepIInv, [CS!Next]_sweepVars
                 PROVE  CS!SweepSparesSafe
      BY PartsStep DEF SweepInv
    <2> QED  BY RecordsStay, EntriesStay DEF CS!SweepSparesSafe
  <1> QED  BY <1>1, <1>2, <1>3, PTL DEF Spec, SweepSparesClaimed
=============================================================================
