----------------------------- MODULE SaveProofs -----------------------------
(***************************************************************************)
(* Proofs about saving and loading one file: unless two saves are under    *)
(* way at once, there is a whole copy of the file at every step, also of   *)
(* a crash; loads send whole contents; and the file gets the data in       *)
(* order, however the body is cut into pieces.                             *)
(***************************************************************************)
EXTENDS SaveFile, FiniteSetTheorems, SequenceTheorems, TLAPS

Header == SizeUnits + 1 + JsonUnits

(* Where a sink is when g units of a body have been put into it.           *)
SinkAt(k, g, separator) ==
  \/ k.phase = "Initial" /\ k.aux = g /\ g < SizeUnits /\ k.json = FALSE /\ k.data = 0
  \/ k.phase = "SizeComplete" /\ k.aux = 0 /\ g = SizeUnits /\ k.json = FALSE /\ k.data = 0
  \/ /\ k.phase = "SeparatorComplete" /\ separator /\ k.json = FALSE /\ k.data = 0
     /\ g = k.aux + SizeUnits + 1 /\ k.aux < JsonUnits
  \/ /\ k.phase = "DataPhase" /\ separator /\ k.json = TRUE
     /\ k.aux = 0 /\ g = k.data + Header
  \/ /\ k.phase = "ExpectationFailure" /\ ~separator /\ k.json = FALSE /\ k.data = 0
     /\ k.aux + SizeUnits = g

(* What a save has done by how far it is.                                  *)
Handles(s) ==
  /\ SinkAt(sink[s], got[s], kind[s] # "badSeparator")
  /\ writer[s] # None <=> pc[s] = "body" /\ HasOpened(s)
  /\ HasOpened(s) => written[s] = sink[s].data
  /\ ~HasOpened(s) => written[s] = 0
  /\ pc[s] \in {"test", "remove", "rename", "unlink"} => HasOpened(s)
  /\ pc[s] = "idle" => got[s] = 0
  /\ pc[s] = "dead" => crashed

(* Every inode but the first was made by a save that opened.               *)
Room == Cardinality(InUse \ {None}) <= 1 + Cardinality({s \in Saves : HasOpened(s)})

Short == \A i \in Inodes : Len(content[i]) <= DataUnits

Streams == \A l \in Loads : load[l].pc = "read" => load[l].inode # None

FirstUnits(s, n) == [k \in 1 .. n |-> <<s, k>>]

Exclusive == \A s, t \in Saves : UnderWay(s) /\ UnderWay(t) => s = t

(* A save and the temporary file, which is the one it has open.            *)
Holds(s) ==
  /\ writer[s] # None => writer[s] = temp /\ content[temp] = FirstUnits(s, sink[s].data)
  /\ pc[s] \in {"test", "remove", "rename"} => temp # None
  /\ pc[s] \in {"remove", "rename"} => kind[s] = "fine" /\ content[temp] = Data(s)
  /\ pc[s] = "unlink" => original # None

(* The file is missing only while it is replaced, or after a crash then.   *)
Replaced ==
  original = None /\ existed =>
    /\ InTransit
    /\ crashed \/ \E s \in Saves : pc[s] = "rename"

(* A load has read the first part of a content that nobody changes.        *)
Reads(l) ==
  /\ load[l].pc = "read" =>
       /\ load[l].inode \in Inodes \ {temp}
       /\ content[load[l].inode] \in Contents
       /\ Len(load[l].chunks) + load[l].left = DataUnits
       /\ load[l].chunks = [k \in 1 .. Len(load[l].chunks) |-> content[load[l].inode][k]]
  /\ load[l].pc = "sent" => load[l].chunks \in Contents

Orderly ==
  /\ Exclusive
  /\ temp # None => temp # original
  /\ \A s \in Saves : Holds(s)
  /\ original # None => existed /\ InPlace
  /\ Replaced
  /\ \A l \in Loads : Reads(l)

IInv ==
  /\ TypeOK /\ Room /\ Short /\ Streams
  /\ \A s \in Saves : Handles(s)
  /\ ~overlapped => Orderly
-----------------------------------------------------------------------------
(* The sink.                                                               *)

LEMMA Numbers ==
  /\ SizeUnits \in Nat /\ SizeUnits >= 1 /\ JsonUnits \in Nat /\ JsonUnits >= 1
  /\ DataUnits \in Nat /\ DataUnits >= 1
  /\ Header \in Nat /\ Header = SizeUnits + 1 + JsonUnits /\ Body \in Nat /\ Body = Header + DataUnits
BY SinkAssumption DEF Header, Body

(* Where a sink is before its automaton has advanced as far as it can.     *)
Midway(k, g, separator) ==
  \/ k.phase = "Initial" /\ k.aux = g /\ k.json = FALSE /\ k.data = 0
  \/ k.phase = "SizeComplete" /\ k.aux + SizeUnits = g /\ k.json = FALSE /\ k.data = 0
  \/ k.phase = "SeparatorComplete" /\ separator /\ k.aux + SizeUnits + 1 = g /\ k.json = FALSE /\ k.data = 0
  \/ k.phase = "DataPhase" /\ separator /\ k.json = TRUE /\ k.aux = 0 /\ g = k.data + Header
  \/ k.phase = "ExpectationFailure" /\ ~separator /\ k.json = FALSE /\ k.data = 0 /\ k.aux + SizeUnits = g

LEMMA AdvanceIs ==
  ASSUME NEW k \in SinkType, NEW g \in Nat, g <= Body, NEW separator \in BOOLEAN, Midway(k, g, separator),
         NEW a, a = Advance(k, separator)
  PROVE  /\ a \in SinkType /\ Midway(a, g, separator)
         /\ SinkAt(k, g, separator) => a = k
         /\ \/ SinkAt(a, g, separator)
            \/ k.phase = "Initial" /\ a.phase = "SizeComplete"
            \/ k.phase = "SizeComplete" /\ a.phase = "SeparatorComplete"
<1>0. k.aux \in 0 .. Body
  BY DEF SinkType
<1>1. CASE k.phase = "Initial" /\ k.aux >= SizeUnits
  <2>1. a = [k EXCEPT !.phase = "SizeComplete", !.aux = k.aux - SizeUnits]
    BY <1>1 DEF Advance, Size
  <2>2. k.aux - SizeUnits \in 0 .. Body /\ k.aux = g /\ k.json = FALSE /\ k.data = 0
    BY <1>0, <1>1, Numbers DEF Midway
  <2>3. /\ a \in SinkType /\ a.phase = "SizeComplete" /\ a.aux = k.aux - SizeUnits
        /\ a.json = k.json /\ a.data = k.data
    BY <2>1, <2>2 DEF SinkType, Phases
  <2>4. ~SinkAt(k, g, separator)
    BY <1>1, <2>2, Numbers DEF SinkAt
  <2>5. Midway(a, g, separator)
    BY <1>0, <2>2, <2>3, Numbers DEF Midway
  <2> QED
    BY <1>1, <2>3, <2>4, <2>5
<1>2. CASE k.phase = "SizeComplete" /\ k.aux >= 1 /\ separator
  <2>1. a = [k EXCEPT !.phase = "SeparatorComplete", !.aux = k.aux - 1]
    BY <1>2 DEF Advance, Separator
  <2>2. k.aux - 1 \in 0 .. Body /\ k.aux + SizeUnits = g /\ k.json = FALSE /\ k.data = 0
    BY <1>0, <1>2, Numbers DEF Midway
  <2>3. /\ a \in SinkType /\ a.phase = "SeparatorComplete" /\ a.aux = k.aux - 1
        /\ a.json = k.json /\ a.data = k.data
    BY <2>1, <2>2 DEF SinkType, Phases
  <2>4. ~SinkAt(k, g, separator)
    BY <1>2 DEF SinkAt
  <2>5. a.aux + SizeUnits + 1 = g
    BY <1>0, <2>2, <2>3, Numbers
  <2>6. Midway(a, g, separator)
    BY <1>2, <2>2, <2>3, <2>5 DEF Midway
  <2> QED
    BY <1>2, <2>3, <2>4, <2>6
<1>3. CASE k.phase = "SizeComplete" /\ k.aux >= 1 /\ ~separator
  <2>1. a = [k EXCEPT !.phase = "ExpectationFailure", !.failed = TRUE]
    BY <1>3 DEF Advance, Separator
  <2>2. k.aux + SizeUnits = g /\ k.json = FALSE /\ k.data = 0
    BY <1>3, Numbers DEF Midway
  <2>3. /\ a \in SinkType /\ a.phase = "ExpectationFailure" /\ a.aux = k.aux
        /\ a.json = k.json /\ a.data = k.data
    BY <2>1 DEF SinkType, Phases
  <2>4. ~SinkAt(k, g, separator)
    BY <1>3 DEF SinkAt
  <2> QED
    BY <1>3, <2>2, <2>3, <2>4 DEF Midway, SinkAt
<1>4. CASE k.phase = "SeparatorComplete" /\ k.aux >= JsonUnits
  <2>1. a = [k EXCEPT !.phase = "DataPhase", !.json = TRUE, !.data = k.aux - JsonUnits, !.aux = 0]
    BY <1>4 DEF Advance, Json
  <2>2. k.aux + SizeUnits + 1 = g /\ separator
    BY <1>4 DEF Midway
  <2>3. k.aux - JsonUnits \in 0 .. DataUnits /\ 0 \in 0 .. Body /\ g = (k.aux - JsonUnits) + Header
    BY <1>0, <1>4, <2>2, Numbers
  <2>4. /\ a \in SinkType /\ a.phase = "DataPhase" /\ a.aux = 0 /\ a.json = TRUE /\ a.data = k.aux - JsonUnits
    BY <2>1, <2>3 DEF SinkType, Phases
  <2>5. ~SinkAt(k, g, separator)
    BY <1>0, <1>4, Numbers DEF SinkAt
  <2> QED
    BY <1>4, <2>2, <2>3, <2>4, <2>5 DEF Midway, SinkAt
<1>5. CASE /\ ~(k.phase = "Initial" /\ k.aux >= SizeUnits) /\ ~(k.phase = "SizeComplete" /\ k.aux >= 1)
           /\ ~(k.phase = "SeparatorComplete" /\ k.aux >= JsonUnits)
  <2>1. a = k
    BY <1>5 DEF Advance
  <2>2. SinkAt(k, g, separator)
    BY <1>0, <1>5, Numbers DEF Midway, SinkAt
  <2> QED
    BY <2>1, <2>2
<1> QED
  BY <1>1, <1>2, <1>3, <1>4, <1>5

(* However a body is cut into pieces, the sink is at its place in it.      *)
LEMMA WriteIs ==
  ASSUME NEW k \in SinkType, NEW g \in Nat, NEW n \in Nat, g + n <= Body, NEW separator \in BOOLEAN,
         SinkAt(k, g, separator)
  PROVE  /\ Write(k, n, separator) \in SinkType
         /\ SinkAt(Write(k, n, separator), g + n, separator)
<1>1. CASE k.phase = "DataPhase"
  <2>1. /\ Write(k, n, separator) = [k EXCEPT !.data = k.data + n]
        /\ separator /\ k.json = TRUE /\ k.aux = 0 /\ g = k.data + Header
    BY <1>1 DEF Write, SinkAt
  <2>2. k.data + n \in 0 .. DataUnits /\ g + n = (k.data + n) + Header
    <3>1. k.data \in 0 .. DataUnits
      BY DEF SinkType
    <3> QED
      BY <2>1, <3>1, Numbers
  <2> DEFINE a == [k EXCEPT !.data = k.data + n]
  <2>3. /\ a \in SinkType /\ a.phase = "DataPhase" /\ a.json = k.json /\ a.aux = k.aux /\ a.data = k.data + n
    BY <1>1, <2>2 DEF SinkType
  <2>4. SinkAt(a, g + n, separator)
    BY <2>1, <2>2, <2>3 DEF SinkAt
  <2> QED
    BY <2>1, <2>3, <2>4
<1>2. CASE k.phase # "DataPhase"
  <2>1. PICK more : more = [k EXCEPT !.aux = k.aux + n]
    OBVIOUS
  <2>2. k.aux \in Nat /\ k.aux <= g
    <3>1. k.aux \in Nat
      BY DEF SinkType
    <3> QED
      BY <1>2, <3>1, Numbers DEF SinkAt
  <2>3. more \in SinkType
    <3>1. k.aux + n \in 0 .. Body
      BY <2>2, Numbers
    <3> QED
      BY <2>1, <3>1 DEF SinkType
  <2>4. more.phase = k.phase /\ more.aux = k.aux + n /\ more.json = k.json /\ more.data = k.data
    BY <2>1 DEF SinkType
  <2>5. Midway(more, g + n, separator)
    BY <1>2, <2>2, <2>4, Numbers DEF SinkAt, Midway
  <2>6. PICK a : a = Advance(more, separator)
    OBVIOUS
  <2>7. PICK b : b = Advance(a, separator)
    OBVIOUS
  <2>8. PICK c : c = Advance(b, separator)
    OBVIOUS
  <2>9. Write(k, n, separator) = c
    BY <1>2, <2>1, <2>6, <2>7, <2>8 DEF Write
  <2>10. g + n \in Nat
    OBVIOUS
  <2>11. /\ a \in SinkType /\ Midway(a, g + n, separator)
         /\ \/ SinkAt(a, g + n, separator)
            \/ a.phase \in {"SizeComplete", "SeparatorComplete"}
    BY <2>3, <2>5, <2>6, <2>10, AdvanceIs
  <2>12. /\ b \in SinkType /\ Midway(b, g + n, separator)
         /\ SinkAt(b, g + n, separator) \/ b.phase = "SeparatorComplete"
    BY <2>7, <2>10, <2>11, AdvanceIs
  <2>13. c \in SinkType /\ SinkAt(c, g + n, separator)
    BY <2>8, <2>10, <2>12, AdvanceIs
  <2> QED
    BY <2>9, <2>13
<1> QED
  BY <1>1, <1>2

(* A sink hands out more and more, and its json part once and for all.     *)
LEMMA WriteGrows ==
  ASSUME NEW k \in SinkType, NEW g \in Nat, NEW n \in Nat, NEW separator \in BOOLEAN, SinkAt(k, g, separator),
         Write(k, n, separator) \in SinkType
  PROVE  Write(k, n, separator).data >= k.data /\ (k.json = TRUE => Write(k, n, separator).json = TRUE)
<1>1. PICK a \in SinkType : a = Write(k, n, separator)
  OBVIOUS
<1>2. k.data \in Nat /\ a.data \in Nat /\ k.json \in BOOLEAN
  BY DEF SinkType
<1>3. CASE k.phase = "DataPhase"
  <2>1. a = [k EXCEPT !.data = k.data + n] /\ k.json = TRUE
    BY <1>1, <1>3 DEF Write, SinkAt
  <2>2. a.data = k.data + n /\ a.json = k.json
    BY <2>1 DEF SinkType
  <2> QED
    BY <1>1, <1>2, <2>1, <2>2
<1>4. CASE k.phase # "DataPhase"
  <2>1. k.json = FALSE /\ k.data = 0
    BY <1>4 DEF SinkAt
  <2> QED
    BY <1>1, <1>2, <2>1
<1> QED
  BY <1>3, <1>4

-----------------------------------------------------------------------------
(* Contents.                                                               *)

LEMMA PieceIs ==
  ASSUME NEW s \in Saves, NEW n \in Nat, NEW m \in Nat, n <= m, m <= DataUnits
  PROVE  LET piece == SubSeq(Data(s), n + 1, m)
         IN piece \in Seq(Unit) /\ Len(piece) = m - n /\ \A k \in 1 .. m - n : piece[k] = <<s, n + k>>
<1>1. Data(s) \in Seq(Unit) /\ Len(Data(s)) = DataUnits
  BY Numbers DEF Data, Unit
<1> QED
  BY <1>1, Numbers DEF Data

LEMMA WrittenType ==
  ASSUME NEW old \in Seq(Unit), Len(old) <= DataUnits, NEW from \in Nat, NEW units \in Seq(Unit),
         from + Len(units) <= DataUnits
  PROVE  /\ WrittenAt(old, from, units) \in Seq(Unit)
         /\ Len(WrittenAt(old, from, units)) <= DataUnits
<1>1. PICK n \in Nat : n = IF from + Len(units) > Len(old) THEN from + Len(units) ELSE Len(old)
  OBVIOUS
<1>2. WrittenAt(old, from, units) =
        [k \in 1 .. n |-> IF k \in from + 1 .. from + Len(units) THEN units[k - from]
                          ELSE IF k <= Len(old) THEN old[k] ELSE Hole]
  BY <1>1 DEF WrittenAt
<1>3. n <= DataUnits
  BY <1>1
<1>4. ASSUME NEW k \in 1 .. n
      PROVE  (IF k \in from + 1 .. from + Len(units) THEN units[k - from]
              ELSE IF k <= Len(old) THEN old[k] ELSE Hole) \in Unit
  BY DEF Unit
<1> QED
  BY <1>2, <1>3, <1>4

LEMMA WrittenIs ==
  ASSUME NEW s \in Saves, NEW n \in Nat, NEW m \in Nat, n <= m, m <= DataUnits
  PROVE  WrittenAt(FirstUnits(s, n), n, SubSeq(Data(s), n + 1, m)) = FirstUnits(s, m)
<1> DEFINE piece == SubSeq(Data(s), n + 1, m)
<1>1. piece \in Seq(Unit) /\ Len(piece) = m - n /\ \A k \in 1 .. m - n : piece[k] = <<s, n + k>>
  BY PieceIs
<1>2. Len(FirstUnits(s, n)) = n /\ \A k \in 1 .. n : FirstUnits(s, n)[k] = <<s, k>>
  BY DEF FirstUnits
<1> HIDE DEF piece
<1>3. WrittenAt(FirstUnits(s, n), n, piece) =
        [k \in 1 .. m |-> IF k \in n + 1 .. m THEN piece[k - n]
                          ELSE IF k <= n THEN FirstUnits(s, n)[k] ELSE Hole]
  BY <1>1, <1>2 DEF WrittenAt
<1>4. \A k \in 1 .. m : (IF k \in n + 1 .. m THEN piece[k - n]
                         ELSE IF k <= n THEN FirstUnits(s, n)[k] ELSE Hole) = <<s, k>>
  BY <1>1, <1>2
<1> QED
  BY <1>3, <1>4 DEF FirstUnits, piece
-----------------------------------------------------------------------------

LEMMA InodesAre ==
  /\ Cardinality(Saves) \in Nat /\ IsFiniteSet(Saves) /\ Inodes = 1 .. 1 + Cardinality(Saves)
  /\ None = 0 /\ None \notin Inodes /\ 1 \in Inodes
  /\ IsFiniteSet(Inodes) /\ Cardinality(Inodes) = 1 + Cardinality(Saves)
<1>1. IsFiniteSet(Saves) /\ Cardinality(Saves) \in Nat
  BY SaveAssumption, FS_CardinalityType
<1>2. IsFiniteSet(1 .. 1 + Cardinality(Saves)) /\ Cardinality(1 .. 1 + Cardinality(Saves)) = 1 + Cardinality(Saves)
  <2>1. 1 + Cardinality(Saves) \in Int /\ 1 \in Int /\ ~(1 > 1 + Cardinality(Saves))
    BY <1>1
  <2> QED
    BY <1>1, <2>1, FS_Interval
<1> QED
  BY <1>1, <1>2 DEF Inodes, None

LEMMA Types ==
  ASSUME TypeOK
  PROVE  /\ \A s \in Saves : /\ sink[s] \in SinkType /\ got[s] \in 0 .. Body /\ got[s] \in Nat
                             /\ kind[s] \in Kinds /\ pc[s] \in SaveStates
                             /\ written[s] \in 0 .. DataUnits /\ writer[s] \in {None} \cup Inodes
         /\ \A i \in Inodes : content[i] \in Seq(Unit)
         /\ \A l \in Loads : load[l] \in LoadType /\ load[l].inode \in {None} \cup Inodes
         /\ InUse \ {None} \subseteq Inodes
         /\ original \in {None} \cup Inodes /\ temp \in {None} \cup Inodes
<1>1. \A s \in Saves : /\ sink[s] \in SinkType /\ got[s] \in 0 .. Body /\ got[s] \in Nat
                       /\ kind[s] \in Kinds /\ pc[s] \in SaveStates
                       /\ written[s] \in 0 .. DataUnits /\ writer[s] \in {None} \cup Inodes
  BY DEF TypeOK
<1>2. \A l \in Loads : load[l] \in LoadType
  BY DEF TypeOK
<1>3. \A l \in Loads : load[l].inode \in {None} \cup Inodes
  BY <1>2 DEF LoadType
<1>4. original \in {None} \cup Inodes /\ temp \in {None} \cup Inodes /\ content \in [Inodes -> Seq(Unit)]
  BY DEF TypeOK
<1>5. InUse \subseteq {None} \cup Inodes
  BY <1>1, <1>3, <1>4 DEF InUse
<1> QED
  BY <1>1, <1>2, <1>3, <1>4, <1>5

(* There is an inode for a save that has not opened one.                   *)
LEMMA UnusedIs ==
  ASSUME TypeOK, Room, NEW s \in Saves, ~HasOpened(s)
  PROVE  Unused \in Inodes /\ Unused \notin InUse
<1> DEFINE used == InUse \ {None}
<1> DEFINE opened == {t \in Saves : HasOpened(t)}
<1>1. used \subseteq Inodes /\ IsFiniteSet(used) /\ Cardinality(used) \in Nat
  BY Types, InodesAre, FS_Subset, FS_CardinalityType
<1>2. opened \subseteq Saves \ {s}
  OBVIOUS
<1>3. IsFiniteSet(Saves \ {s}) /\ Cardinality(Saves \ {s}) = Cardinality(Saves) - 1
  BY InodesAre, FS_RemoveElement
<1>4. Cardinality(opened) <= Cardinality(Saves) - 1 /\ Cardinality(opened) \in Nat
  BY <1>2, <1>3, FS_Subset, FS_CardinalityType
<1>5. Cardinality(used) <= 1 + Cardinality(opened)
  BY DEF Room
<1> HIDE DEF used, opened
<1>6. Cardinality(used) < Cardinality(Inodes)
  BY <1>1, <1>4, <1>5, InodesAre
<1>7. used # Inodes
  BY <1>6, <1>1
<1>8. \E i \in Inodes : i \notin used
  BY <1>1, <1>7
<1>9. \E i \in Inodes : i \notin InUse
  BY <1>8, InodesAre DEF used
<1> QED
  BY <1>9 DEF Unused

LEMMA RoomKept ==
  ASSUME TypeOK, Room, InUse' \subseteq InUse \cup {None},
         \A s \in Saves : HasOpened(s)' <=> HasOpened(s)
  PROVE  Room'
<1>1. IsFiniteSet(InUse \ {None}) /\ Cardinality(InUse \ {None}) \in Nat
  BY Types, InodesAre, FS_Subset, FS_CardinalityType
<1>2. InUse' \ {None} \subseteq InUse \ {None}
  OBVIOUS
<1>3. Cardinality(InUse' \ {None}) <= Cardinality(InUse \ {None}) /\ Cardinality(InUse' \ {None}) \in Nat
  BY <1>1, <1>2, FS_Subset, FS_CardinalityType
<1>4. {s \in Saves : HasOpened(s)'} = {s \in Saves : HasOpened(s)}
  OBVIOUS
<1>5. IsFiniteSet({s \in Saves : HasOpened(s)}) /\ Cardinality({s \in Saves : HasOpened(s)}) \in Nat
  BY InodesAre, FS_Subset, FS_CardinalityType
<1>6. Cardinality(InUse' \ {None}) <= 1 + Cardinality({s \in Saves : HasOpened(s)'})
  BY <1>1, <1>3, <1>4, <1>5 DEF Room
<1> QED
  BY <1>6 DEF Room, None

LEMMA RoomMade ==
  ASSUME TypeOK, Room, NEW i, InUse' \subseteq InUse \cup {None, i}, NEW s \in Saves, ~HasOpened(s),
         HasOpened(s)', \A t \in Saves \ {s} : HasOpened(t)' <=> HasOpened(t)
  PROVE  Room'
<1> DEFINE used == InUse \ {None}
<1> DEFINE opened == {t \in Saves : HasOpened(t)}
<1>1. IsFiniteSet(used) /\ Cardinality(used) \in Nat
  BY Types, InodesAre, FS_Subset, FS_CardinalityType
<1>2. InUse' \ {None} \subseteq used \cup {i}
  OBVIOUS
<1>3. IsFiniteSet(opened) /\ Cardinality(opened) \in Nat /\ s \notin opened
  BY InodesAre, FS_Subset, FS_CardinalityType
<1>4. {t \in Saves : HasOpened(t)'} = opened \cup {s}
  OBVIOUS
<1>5. Cardinality(used) <= 1 + Cardinality(opened)
  BY DEF Room
<1> HIDE DEF used, opened
<1>6. /\ IsFiniteSet(used \cup {i}) /\ Cardinality(used \cup {i}) \in Nat
      /\ Cardinality(used \cup {i}) <= Cardinality(used) + 1
  <2>1. CASE i \in used
    <3>1. used \cup {i} = used
      BY <2>1
    <3>2. PICK n \in Nat : n = Cardinality(used)
      BY <1>1
    <3>3. n <= n + 1
      OBVIOUS
    <3>4. Cardinality(used) <= Cardinality(used) + 1
      BY <3>2, <3>3
    <3> QED
      BY <1>1, <3>1, <3>4
  <2>2. CASE i \notin used
    BY <1>1, <2>2, FS_AddElement
  <2> QED
    BY <2>1, <2>2
<1>7. Cardinality(InUse' \ {None}) <= Cardinality(used \cup {i}) /\ Cardinality(InUse' \ {None}) \in Nat
  BY <1>2, <1>6, FS_Subset, FS_CardinalityType
<1>8. Cardinality(opened \cup {s}) = Cardinality(opened) + 1
  BY <1>3, FS_AddElement
<1>9. Cardinality(InUse' \ {None}) <= 1 + Cardinality({t \in Saves : HasOpened(t)'})
  BY <1>1, <1>3, <1>4, <1>5, <1>6, <1>7, <1>8
<1> QED
  BY <1>9 DEF Room, None

(* A save that has not begun has opened nothing, and one that has opened   *)
(* has its separator.                                                      *)
LEMMA OpenedIs ==
  ASSUME TypeOK, NEW s \in Saves, Handles(s)
  PROVE  /\ pc[s] = "idle" => ~HasOpened(s)
         /\ HasOpened(s) => kind[s] \in {"fine", "badHash"} /\ got[s] = sink[s].data + Header
         /\ sink[s].json \in BOOLEAN
<1>1. sink[s] \in SinkType /\ got[s] \in Nat /\ kind[s] \in Kinds /\ sink[s].data \in Nat /\ sink[s].json \in BOOLEAN
  <2>1. sink[s] \in SinkType /\ got[s] \in Nat /\ kind[s] \in Kinds
    BY Types
  <2> QED
    BY <2>1 DEF SinkType
<1>2. HasOpened(s) => /\ kind[s] # "badJson" /\ kind[s] # "badSeparator" /\ got[s] = sink[s].data + Header
  BY DEF Handles, SinkAt, HasOpened
<1>3. HasOpened(s) => got[s] # 0
  BY <1>1, <1>2, Numbers
<1> QED
  BY <1>1, <1>2, <1>3 DEF Handles, Kinds
-----------------------------------------------------------------------------
(* Frames: a save goes on without touching the disk, and a load goes on.   *)

LEMMA SaveGoes ==
  ASSUME IInv, NEW s \in Saves, NEW to, pc' = [pc EXCEPT ![s] = to],
         UNCHANGED <<disk, kind, got, sink, written, load, history>>,
         answer' \in [Saves -> {"none", "204", "error"}],
         \/ writer' = writer /\ writer[s] = None
         \/ writer' = [writer EXCEPT ![s] = None],
         pc[s] \notin {"done", "dead", "rename"}, to \in {"body", "done", "test", "destroy", "remove", "unlink"},
         to = "body" => pc[s] = "idle",
         to \in {"test", "remove", "unlink"} => HasOpened(s),
         ~overlapped => /\ to \in {"test", "remove"} => temp # None
                        /\ to = "remove" => kind[s] = "fine" /\ content[temp] = Data(s)
                        /\ to = "unlink" => original # None
  PROVE  IInv'
<1>1. /\ pc'[s] = to /\ \A t \in Saves : t # s => pc'[t] = pc[t]
      /\ writer'[s] = None /\ \A t \in Saves : t # s => writer'[t] = writer[t]
      /\ writer' \in [Saves -> {None} \cup Inodes]
  BY DEF IInv, TypeOK
<1>2. /\ UNCHANGED <<original, temp, content, kind, got, sink, written, load>>
      /\ UNCHANGED <<crashed, moved, existed, overlapped>>
  BY DEF disk, history
<1>3. TypeOK'
  <2>1. pc' \in [Saves -> SaveStates]
    BY DEF IInv, TypeOK, SaveStates
  <2> QED
    BY <1>1, <1>2, <2>1 DEF IInv, TypeOK
<1>4. \A t \in Saves : HasOpened(t)' <=> HasOpened(t)
  BY <1>2 DEF HasOpened
<1>5. Room'
  <2>1. InUse' \subseteq InUse \cup {None}
    <3>1. \A t \in Saves : writer'[t] \in InUse \cup {None}
      BY <1>1 DEF InUse
    <3>2. \A l \in Loads : load'[l].inode \in InUse
      BY <1>2 DEF InUse
    <3>3. InUse' = {original', temp'} \cup {writer'[t] : t \in Saves} \cup {load'[l].inode : l \in Loads}
      BY DEF InUse
    <3>4. original' \in InUse /\ temp' \in InUse
      BY <1>2 DEF InUse
    <3> HIDE DEF InUse
    <3> QED
      BY <3>1, <3>2, <3>3, <3>4
  <2> QED
    BY <1>4, <2>1, RoomKept DEF IInv
<1>6. Short' /\ Streams'
  BY <1>2 DEF IInv, Short, Streams
<1>7. ASSUME NEW t \in Saves  PROVE Handles(t)'
  <2>1. Handles(t)
    BY DEF IInv
  <2>2. CASE t # s
    BY <1>1, <1>2, <1>4, <2>1, <2>2 DEF Handles
  <2>3. CASE t = s
    <3>1. to = "body" => ~HasOpened(s)
      BY <2>1, <2>3, OpenedIs DEF IInv
    <3> QED
      BY <1>1, <1>2, <1>4, <2>1, <2>3, <3>1 DEF Handles
  <2> QED
    BY <2>2, <2>3
<1>8. ASSUME ~overlapped  PROVE Orderly'
  <2>1. Orderly
    BY <1>8 DEF IInv
  <2>2. Exclusive'
    <3>1. \A t \in Saves : UnderWay(t)' => UnderWay(t)
      BY <1>1, <1>4 DEF UnderWay
    <3> QED
      BY <2>1, <3>1 DEF Orderly, Exclusive
  <2>3. ASSUME NEW t \in Saves  PROVE Holds(t)'
    <3>1. Holds(t)
      BY <2>1 DEF Orderly
    <3>2. CASE t # s
      BY <1>1, <1>2, <3>1, <3>2 DEF Holds
    <3>3. CASE t = s
      BY <1>1, <1>2, <1>8, <3>3 DEF Holds
    <3> QED
      BY <3>2, <3>3
  <2>4. InPlace' <=> InPlace
    BY <1>2 DEF InPlace
  <2>5. InTransit => InTransit'
    BY <1>1, <1>2, <1>4 DEF InTransit
  <2>6. (\E t \in Saves : pc[t] = "rename") => \E t \in Saves : pc'[t] = "rename"
    BY <1>1
  <2>7. Replaced'
    BY <1>2, <2>1, <2>5, <2>6 DEF Orderly, Replaced
  <2>8. \A l \in Loads : Reads(l)'
    BY <1>2, <2>1 DEF Orderly, Reads
  <2> QED
    BY <1>2, <2>1, <2>2, <2>3, <2>4, <2>7, <2>8 DEF Orderly
<1> QED
  BY <1>2, <1>3, <1>5, <1>6, <1>7, <1>8 DEF IInv

LEMMA LoadGoes ==
  ASSUME IInv, load' \in [Loads -> LoadType], UNCHANGED <<disk, requestVars, history>>,
         \A l \in Loads : load'[l].inode \in InUse \cup {None}, Streams',
         ~overlapped => \A l \in Loads : Reads(l)'
  PROVE  IInv'
<1>1. /\ UNCHANGED <<original, temp, content, kind, pc, got, sink, writer, written, answer>>
      /\ UNCHANGED <<crashed, moved, existed, overlapped>>
  BY DEF disk, requestVars, history
<1>2. TypeOK'
  BY <1>1 DEF IInv, TypeOK
<1>3. \A t \in Saves : HasOpened(t)' <=> HasOpened(t)
  BY <1>1 DEF HasOpened
<1>4. Room'
  <2>1. InUse' = {original, temp} \cup {writer[t] : t \in Saves} \cup {load'[l].inode : l \in Loads}
    BY <1>1 DEF InUse
  <2>2. \A t \in Saves : writer[t] \in InUse
    BY DEF InUse
  <2>3. original \in InUse /\ temp \in InUse
    BY DEF InUse
  <2>4. InUse' \subseteq InUse \cup {None}
    BY <2>1, <2>2, <2>3
  <2> QED
    BY <1>3, <2>4, RoomKept DEF IInv
<1>5. Short' /\ \A t \in Saves : Handles(t)'
  BY <1>1, <1>3 DEF IInv, Short, Handles
<1>6. ASSUME ~overlapped  PROVE Orderly'
  <2>1. Orderly
    BY <1>6 DEF IInv
  <2>2. Exclusive' /\ \A t \in Saves : Holds(t)'
    BY <1>1, <1>3, <2>1 DEF Orderly, Exclusive, UnderWay, Holds
  <2>3. (InPlace' <=> InPlace) /\ (InTransit => InTransit')
    BY <1>1, <1>3 DEF InPlace, InTransit
  <2>4. Replaced'
    BY <1>1, <2>1, <2>3 DEF Orderly, Replaced
  <2> QED
    BY <1>1, <1>6, <2>1, <2>2, <2>3, <2>4 DEF Orderly
<1> QED
  BY <1>1, <1>2, <1>4, <1>5, <1>6 DEF IInv

-----------------------------------------------------------------------------
(* The steps of saves that leave the disk alone.                           *)

LEMMA AnsweredIs ==
  ASSUME TypeOK, NEW s \in Saves, NEW a \in {"204", "error"}
  PROVE  Answered(s, a) \in [Saves -> {"none", "204", "error"}]
BY DEF TypeOK, Answered

LEMMA BeginSaveStep ==
  ASSUME IInv, NEW s \in Saves, BeginSave(s)
  PROVE  IInv'
<1>1. /\ pc[s] = "idle" /\ UNCHANGED <<disk, kind, got, sink, writer, written, load, history>>
      /\ Handles(s) /\ TypeOK
  BY DEF BeginSave, IInv
<1>2. writer[s] = None
  BY <1>1 DEF Handles
<1>3. \/ pc' = [pc EXCEPT ![s] = "body"] /\ answer' = answer
      \/ pc' = [pc EXCEPT ![s] = "done"] /\ answer' = Answered(s, "error")
  BY DEF BeginSave
<1>4. answer' \in [Saves -> {"none", "204", "error"}]
  BY <1>1, <1>3, AnsweredIs DEF TypeOK
<1> QED
  BY <1>1, <1>2, <1>3, <1>4, SaveGoes

LEMMA LoseBodyStep ==
  ASSUME IInv, NEW s \in Saves, LoseBody(s)
  PROVE  IInv'
<1>1. /\ pc[s] = "body" /\ pc' = [pc EXCEPT ![s] = "destroy"] /\ writer' = [writer EXCEPT ![s] = None]
      /\ UNCHANGED <<disk, kind, got, sink, written, load, history>>
      /\ answer' \in [Saves -> {"none", "204", "error"}]
  BY DEF LoseBody, Goes, IInv, TypeOK
<1> QED
  BY <1>1, SaveGoes

LEMMA EndBodyStep ==
  ASSUME IInv, NEW s \in Saves, EndBody(s)
  PROVE  IInv'
<1>1. /\ pc[s] = "body" /\ writer' = [writer EXCEPT ![s] = None]
      /\ pc' = [pc EXCEPT ![s] = IF writer[s] # None THEN "test" ELSE "done"]
      /\ UNCHANGED <<disk, kind, got, sink, written, load, history>>
      /\ answer' = IF writer[s] # None THEN answer ELSE Answered(s, "error")
  BY DEF EndBody, Goes
<1>2. answer' \in [Saves -> {"none", "204", "error"}]
  BY <1>1, AnsweredIs DEF IInv, TypeOK
<1>3. CASE writer[s] # None
  <2>1. pc' = [pc EXCEPT ![s] = "test"] /\ HasOpened(s)
    BY <1>1, <1>3 DEF IInv, Handles
  <2>2. ~overlapped => temp # None
    BY <1>3 DEF IInv, Orderly, Holds
  <2> QED
    BY <1>1, <1>2, <2>1, <2>2, SaveGoes
<1>4. CASE writer[s] = None
  <2>1. pc' = [pc EXCEPT ![s] = "done"]
    BY <1>1, <1>4
  <2> QED
    BY <1>1, <1>2, <2>1, SaveGoes
<1> QED
  BY <1>3, <1>4

LEMMA TestStep ==
  ASSUME IInv, NEW s \in Saves, Test(s)
  PROVE  IInv'
<1>1. /\ pc[s] = "test" /\ UNCHANGED <<disk, kind, got, sink, writer, written, load, history>>
      /\ Handles(s) /\ TypeOK
  BY DEF Test, Goes, IInv
<1>2. writer[s] = None /\ HasOpened(s)
  BY <1>1 DEF Handles
<1>3. CASE Matches(s)
  <2>1. pc' = [pc EXCEPT ![s] = "remove"] /\ answer' = answer
    BY <1>3 DEF Test, Goes
  <2>2. temp # None /\ content[temp] = Data(s) /\ kind[s] = "fine"
    BY <1>1, <1>2, <1>3, OpenedIs DEF Matches
  <2>3. answer' \in [Saves -> {"none", "204", "error"}]
    BY <1>1, <2>1 DEF TypeOK
  <2> QED
    BY <1>1, <1>2, <2>1, <2>2, <2>3, SaveGoes
<1>4. CASE ~Matches(s)
  <2>1. pc' = [pc EXCEPT ![s] = "destroy"] /\ answer' = Answered(s, "error")
    BY <1>4 DEF Test, Goes
  <2>2. answer' \in [Saves -> {"none", "204", "error"}]
    BY <1>1, <2>1, AnsweredIs
  <2> QED
    BY <1>1, <1>2, <2>1, <2>2, SaveGoes
<1> QED
  BY <1>3, <1>4

LEMMA DestroyStep ==
  ASSUME IInv, NEW s \in Saves, Destroy(s)
  PROVE  IInv'
<1>1. /\ pc[s] = "destroy" /\ UNCHANGED <<disk, kind, got, sink, writer, written, answer, load, history>>
      /\ Handles(s) /\ TypeOK
  BY DEF Destroy, Goes, IInv
<1>2. writer[s] = None /\ answer' \in [Saves -> {"none", "204", "error"}]
  BY <1>1 DEF Handles, TypeOK
<1>3. CASE HasOpened(s) /\ {original, temp} \subseteq Inodes
  <2>1. pc' = [pc EXCEPT ![s] = "unlink"] /\ original # None
    BY <1>3, InodesAre DEF Destroy, Goes
  <2> QED
    BY <1>1, <1>2, <1>3, <2>1, SaveGoes
<1>4. CASE ~(HasOpened(s) /\ {original, temp} \subseteq Inodes)
  <2>1. pc' = [pc EXCEPT ![s] = "done"]
    BY <1>4 DEF Destroy, Goes
  <2> QED
    BY <1>1, <1>2, <2>1, SaveGoes
<1> QED
  BY <1>3, <1>4
-----------------------------------------------------------------------------
(* The steps that change names of inodes.                                  *)

(* While a save that has opened goes on, no other one does.                *)
LEMMA OthersRest ==
  ASSUME IInv, ~overlapped, NEW s \in Saves, UnderWay(s), NEW t \in Saves, t # s
  PROVE  ~UnderWay(t) /\ writer[t] = None /\ pc[t] \notin {"test", "remove", "rename", "unlink"}
<1>1. ~UnderWay(t)
  BY DEF IInv, Orderly, Exclusive
<1> QED
  BY <1>1 DEF IInv, Handles, UnderWay

(* s goes on, and what the file and the temporary one are called changes.  *)
LEMMA NamesGo ==
  ASSUME IInv, NEW s \in Saves, NEW to \in {"rename", "destroy", "done"}, pc' = [pc EXCEPT ![s] = to],
         pc[s] \in {"remove", "rename", "unlink"}, to = "done" \/ to = "destroy" \/ pc[s] = "remove",
         UNCHANGED <<content, kind, got, sink, writer, written, load, crashed, overlapped>>,
         answer' \in [Saves -> {"none", "204", "error"}],
         {original', temp'} \subseteq {original, temp, None},
         moved' \in Saves \cup {Old}, existed' \in BOOLEAN,
         ~overlapped =>
           /\ temp' # None => temp' # original' /\ temp' = temp
           /\ to = "rename" => temp' = temp
           /\ original' # None => existed' /\ InPlace'
           /\ original' = None /\ existed' => to = "rename"
  PROVE  IInv'
<1>1. /\ pc'[s] = to /\ \A t \in Saves : t # s => pc'[t] = pc[t]
      /\ pc' \in [Saves -> SaveStates]
  BY DEF IInv, TypeOK, SaveStates
<1>2. TypeOK'
  BY <1>1 DEF IInv, TypeOK
<1>3. \A t \in Saves : HasOpened(t)' <=> HasOpened(t)
  BY DEF HasOpened
<1>4. Room'
  <2>1. InUse' = {original', temp'} \cup {writer[t] : t \in Saves} \cup {load[l].inode : l \in Loads}
    BY DEF InUse
  <2>2. InUse' \subseteq InUse \cup {None}
    BY <2>1 DEF InUse
  <2> QED
    BY <1>3, <2>2, RoomKept DEF IInv
<1>5. Short' /\ Streams'
  BY DEF IInv, Short, Streams
<1>6. ASSUME NEW t \in Saves  PROVE Handles(t)'
  <2>1. Handles(t)
    BY DEF IInv
  <2>2. CASE t # s
    BY <1>1, <1>3, <2>1, <2>2 DEF Handles
  <2>3. CASE t = s
    BY <1>1, <1>3, <2>1, <2>3 DEF Handles
  <2> QED
    BY <2>2, <2>3
<1>7. ASSUME ~overlapped  PROVE Orderly'
  <2>1. Orderly /\ UnderWay(s) /\ HasOpened(s) /\ writer[s] = None
    BY <1>7 DEF IInv, Handles, UnderWay
  <2>2. \A t \in Saves : t # s => /\ ~UnderWay(t) /\ writer[t] = None
                                  /\ pc[t] \notin {"test", "remove", "rename", "unlink"}
    BY <1>7, <2>1, OthersRest
  <2>3. Exclusive'
    BY <1>1, <1>3, <2>2 DEF Exclusive, UnderWay
  <2>4. ASSUME NEW t \in Saves  PROVE Holds(t)'
    <3>1. CASE t # s
      BY <1>1, <2>2, <3>1 DEF Holds
    <3>2. CASE t = s
      <4>1. to = "rename" => temp # None /\ temp' = temp /\ kind[s] = "fine" /\ content[temp] = Data(s)
        BY <1>7, <2>1 DEF Orderly, Holds
      <4>2. Data(s)' = Data(s)
        BY DEF Data
      <4> QED
        BY <1>1, <2>1, <3>2, <4>1, <4>2 DEF Holds
    <3> QED
      BY <3>1, <3>2
  <2>5. Replaced'
    <3> SUFFICES ASSUME original' = None, existed'
                 PROVE  InTransit' /\ \E t \in Saves : pc'[t] = "rename"
      BY DEF Replaced
    <3>1. to = "rename"
      BY <1>7
    <3>2. temp # None /\ temp' = temp /\ kind[s] = "fine" /\ content[temp] = Data(s)
      BY <1>7, <2>1, <3>1 DEF Orderly, Holds
    <3>3. Data(s)' = Data(s)
      BY DEF Data
    <3>4. InTransit'
      BY <3>2, <3>3 DEF InTransit
    <3> QED
      BY <1>1, <3>1, <3>4
  <2>6. ASSUME NEW l \in Loads  PROVE Reads(l)'
    <3>1. Reads(l)
      BY <2>1 DEF Orderly
    <3>2. temp' = temp \/ temp' = None
      BY <1>7
    <3>3. Contents' = Contents
      BY DEF Contents, OldData, Data
    <3> QED
      BY <3>1, <3>2, <3>3, InodesAre DEF Reads
  <2> QED
    BY <1>7, <2>3, <2>4, <2>5, <2>6 DEF Orderly
<1> QED
  BY <1>2, <1>4, <1>5, <1>6, <1>7 DEF IInv

LEMMA RemoveStep ==
  ASSUME IInv, NEW s \in Saves, Remove(s)
  PROVE  IInv'
<1>1. /\ pc[s] = "remove" /\ pc' = [pc EXCEPT ![s] = "rename"] /\ original' = None
      /\ UNCHANGED <<temp, content, kind, got, sink, writer, written, answer, load>>
      /\ UNCHANGED <<crashed, moved, existed, overlapped>>
  BY DEF Remove, Goes, history
<1>2. /\ answer' \in [Saves -> {"none", "204", "error"}]
      /\ moved' \in Saves \cup {Old} /\ existed' \in BOOLEAN
  BY <1>1 DEF IInv, TypeOK
<1> QED
  BY <1>1, <1>2, NamesGo

LEMMA RenameStep ==
  ASSUME IInv, NEW s \in Saves, Rename(s)
  PROVE  IInv'
<1>1. /\ pc[s] = "rename" /\ pc' = [pc EXCEPT ![s] = "destroy"] /\ TypeOK
      /\ UNCHANGED <<content, kind, got, sink, writer, written, load, crashed, overlapped>>
  BY DEF Rename, Goes, IInv
<1>2. CASE temp # None
  <2>1. original' = temp /\ temp' = None /\ answer' = Answered(s, "204") /\ moved' = s /\ existed' = TRUE
    BY <1>2 DEF Rename
  <2>2. ~overlapped => InPlace'
    <3> SUFFICES ASSUME ~overlapped  PROVE InPlace'
      OBVIOUS
    <3>1. kind[s] = "fine" /\ content[temp] = Data(s)
      BY <1>1 DEF IInv, Orderly, Holds
    <3>2. Data(s)' = Data(s) /\ s # Old
      BY SaveAssumption DEF Data
    <3> QED
      BY <1>1, <2>1, <3>1, <3>2 DEF InPlace
  <2>3. answer' \in [Saves -> {"none", "204", "error"}]
    BY <1>1, <2>1, AnsweredIs
  <2> QED
    BY <1>1, <1>2, <2>1, <2>2, <2>3, NamesGo
<1>3. CASE temp = None
  <2>1. overlapped
    BY <1>1, <1>3 DEF IInv, Orderly, Holds
  <2>2. answer' = Answered(s, "error") /\ UNCHANGED <<original, temp, moved, existed>>
    BY <1>3 DEF Rename
  <2>3. /\ answer' \in [Saves -> {"none", "204", "error"}]
        /\ moved' \in Saves \cup {Old} /\ existed' \in BOOLEAN
    BY <1>1, <2>2, AnsweredIs DEF TypeOK
  <2> QED
    BY <1>1, <2>1, <2>2, <2>3, NamesGo
<1> QED
  BY <1>2, <1>3

LEMMA UnlinkStep ==
  ASSUME IInv, NEW s \in Saves, Unlink(s)
  PROVE  IInv'
<1>1. /\ pc[s] = "unlink" /\ pc' = [pc EXCEPT ![s] = "done"] /\ temp' = None
      /\ UNCHANGED <<original, content, kind, got, sink, writer, written, answer, load>>
      /\ UNCHANGED <<crashed, moved, existed, overlapped>>
  BY DEF Unlink, Goes, history
<1>2. /\ answer' \in [Saves -> {"none", "204", "error"}]
      /\ moved' \in Saves \cup {Old} /\ existed' \in BOOLEAN
  BY <1>1 DEF IInv, TypeOK
<1>3. ~overlapped => original # None /\ existed /\ InPlace
  BY <1>1 DEF IInv, Orderly, Holds
<1>4. InPlace => InPlace'
  BY <1>1 DEF InPlace, Data, OldData
<1> QED
  BY <1>1, <1>2, <1>3, <1>4, NamesGo

-----------------------------------------------------------------------------
(* The steps of loads.                                                     *)

LEMMA BeginLoadStep ==
  ASSUME IInv, NEW l \in Loads, BeginLoad(l)
  PROVE  IInv'
<1>1. UNCHANGED <<disk, requestVars, history>> /\ TypeOK /\ Short /\ load[l].pc = "idle" /\ load[l] \in LoadType
  BY Types DEF BeginLoad, IInv
<1>2. UNCHANGED <<original, temp, content, overlapped>>
  BY <1>1 DEF disk, history
<1>3. ASSUME NEW to \in LoadType, load' = [load EXCEPT ![l] = to], to.inode \in InUse \cup {None},
             to.pc = "read" => to.inode # None, ~overlapped => Reads(l)'
      PROVE  IInv'
  <2>1. load'[l] = to /\ (\A m \in Loads : m # l => load'[m] = load[m]) /\ load' \in [Loads -> LoadType]
    BY <1>1, <1>3 DEF TypeOK
  <2>2. \A m \in Loads : load'[m].inode \in InUse \cup {None}
    BY <1>3, <2>1 DEF InUse
  <2>3. ASSUME ~overlapped, NEW m \in Loads  PROVE Reads(m)'
    <3>1. CASE m # l
      <4>1. Contents' = Contents
        BY DEF Contents, OldData, Data
      <4> QED
        BY <1>2, <2>1, <2>3, <3>1, <4>1 DEF IInv, Orderly, Reads
    <3> QED
      BY <1>3, <2>3, <3>1
  <2>4. Streams'
    BY <1>3, <2>1 DEF IInv, Streams
  <2> QED
    BY <1>1, <2>1, <2>2, <2>3, <2>4, LoadGoes
<1>4. ASSUME NEW ends \in {"error", "refused"}, load' = [load EXCEPT ![l] = [load[l] EXCEPT !.pc = ends]]
      PROVE  IInv'
  <2> DEFINE to == [load[l] EXCEPT !.pc = ends]
  <2>1. to \in LoadType /\ to.inode = load[l].inode /\ to.pc = ends
    BY <1>1 DEF LoadType
  <2>2. load' = [load EXCEPT ![l] = to]
    BY <1>4
  <2> HIDE DEF to
  <2>3. load'[l] = to
    BY <1>1, <2>2 DEF TypeOK
  <2>4. to.inode \in InUse \cup {None}
    BY <2>1 DEF InUse
  <2>5. Reads(l)'
    BY <2>1, <2>3 DEF Reads
  <2> QED
    BY <1>3, <2>1, <2>2, <2>4, <2>5
<1>5. CASE /\ original # None
           /\ load' = [load EXCEPT ![l] = [pc |-> "read", inode |-> original,
                                           left |-> Len(content[original]), chunks |-> <<>>]]
  <2> DEFINE to == [pc |-> "read", inode |-> original, left |-> Len(content[original]), chunks |-> <<>>]
  <2>1. original \in Inodes /\ content[original] \in Seq(Unit) /\ Len(content[original]) \in 0 .. DataUnits
    <3>1. original \in Inodes /\ content[original] \in Seq(Unit)
      BY <1>1, <1>5, Types
    <3>2. Len(content[original]) \in Nat /\ Len(content[original]) <= DataUnits
      BY <1>1, <3>1, LenProperties DEF Short
    <3> QED
      BY <3>1, <3>2, Numbers
  <2>2. to \in LoadType
    <3>1. <<>> \in Seq(Unit)
      OBVIOUS
    <3> QED
      BY <2>1, <3>1 DEF LoadType
  <2>3. load' = [load EXCEPT ![l] = to] /\ load'[l] = to
    BY <1>1, <1>5 DEF TypeOK
  <2>4. to.inode \in InUse
    BY DEF InUse
  <2>5. ~overlapped => Reads(l)'
    <3> SUFFICES ASSUME ~overlapped  PROVE Reads(l)'
      OBVIOUS
    <3>1. Orderly /\ InPlace /\ temp # original
      BY <1>5 DEF IInv, Orderly
    <3>2. content[original] \in Contents
      <4>1. moved \in Saves \cup {Old}
        BY <1>1 DEF TypeOK
      <4> QED
        BY <3>1, <4>1 DEF InPlace, Contents
    <3>3. Len(content[original]) = DataUnits
      BY <3>2, Numbers DEF Contents, OldData, Data
    <3>4. <<>> = [k \in 1 .. 0 |-> content[original][k]] /\ Len(<<>>) = 0
      OBVIOUS
    <3>5. Contents' = Contents
      BY DEF Contents, OldData, Data
    <3>6. /\ load'[l].pc = "read" /\ load'[l].inode = original
          /\ load'[l].left = DataUnits /\ load'[l].chunks = <<>>
      BY <2>3, <3>3
    <3> HIDE DEF to
    <3>7. Len(load'[l].chunks) = 0 /\ Len(load'[l].chunks) + load'[l].left = DataUnits
      BY <3>4, <3>6, Numbers
    <3>8. load'[l].chunks = [k \in 1 .. Len(load'[l].chunks) |-> content'[load'[l].inode][k]]
      BY <1>2, <3>4, <3>6, <3>7
    <3> QED
      BY <1>2, <2>1, <3>1, <3>2, <3>5, <3>6, <3>7, <3>8 DEF Reads
  <2>6. to.inode # None
    BY <1>5
  <2> HIDE DEF to
  <2> QED
    BY <1>3, <2>2, <2>3, <2>4, <2>5, <2>6
<1> QED
  BY <1>4, <1>5 DEF BeginLoad, Loading

LEMMA ReadChunkStep ==
  ASSUME IInv, NEW l \in Loads, ReadChunk(l)
  PROVE  IInv'
<1>1. /\ UNCHANGED <<disk, requestVars, history>> /\ TypeOK /\ Short /\ load[l] \in LoadType
      /\ load[l].pc = "read" /\ load[l].left > 0
  BY Types DEF ReadChunk, IInv
<1>2. UNCHANGED <<original, temp, content, overlapped>>
  BY <1>1 DEF disk, history
<1>3. PICK from : from = content[load[l].inode]
  OBVIOUS
<1>4. PICK n : n = Len(load[l].chunks)
  OBVIOUS
<1> DEFINE to == [load[l] EXCEPT !.left = load[l].left - 1, !.chunks = Append(load[l].chunks, from[n + 1])]
<1>5. load' = [load EXCEPT ![l] = to] /\ n + 1 <= Len(from)
  BY <1>3, <1>4 DEF ReadChunk, Loading
<1>6. /\ load[l].left \in 0 .. DataUnits /\ load[l].chunks \in Seq(Unit) /\ n \in Nat
      /\ load[l].inode \in {None} \cup Inodes
  <2>1. load[l].left \in 0 .. DataUnits /\ load[l].chunks \in Seq(Unit) /\ load[l].inode \in {None} \cup Inodes
    BY <1>1 DEF LoadType
  <2> QED
    BY <1>4, <2>1, LenProperties
<1>7. load[l].inode \in Inodes /\ from \in Seq(Unit) /\ from[n + 1] \in Unit
  <2>1. load[l].inode \in Inodes
    BY <1>1, <1>6 DEF IInv, Streams
  <2>2. from \in Seq(Unit)
    BY <1>1, <1>3, <2>1, Types
  <2> QED
    BY <1>5, <1>6, <2>1, <2>2
<1>8. to \in LoadType /\ to.inode = load[l].inode /\ to.pc = "read"
  <2>1. Append(load[l].chunks, from[n + 1]) \in Seq(Unit)
    BY <1>6, <1>7
  <2>2. load[l].left - 1 \in 0 .. DataUnits
    BY <1>1, <1>6, Numbers
  <2> QED
    BY <1>1, <2>1, <2>2 DEF LoadType
<1>9. to.left = load[l].left - 1 /\ to.chunks = Append(load[l].chunks, from[n + 1])
  BY <1>1 DEF LoadType
<1> HIDE DEF to
<1>10. load'[l] = to /\ (\A m \in Loads : m # l => load'[m] = load[m]) /\ load' \in [Loads -> LoadType]
  BY <1>1, <1>5, <1>8 DEF TypeOK
<1>11. \A m \in Loads : load'[m].inode \in InUse \cup {None}
  BY <1>8, <1>10 DEF InUse
<1>12. Streams'
  BY <1>7, <1>8, <1>10, InodesAre DEF IInv, Streams
<1>13. ASSUME ~overlapped  PROVE Reads(l)'
  <2>1. /\ load[l].inode # temp /\ from \in Contents
        /\ n + load[l].left = DataUnits /\ load[l].chunks = [k \in 1 .. n |-> from[k]]
    BY <1>1, <1>3, <1>4, <1>13 DEF IInv, Orderly, Reads
  <2>2. to.chunks = [k \in 1 .. n + 1 |-> from[k]]
    <3>1. to.chunks = Append([k \in 1 .. n |-> from[k]], from[n + 1])
      BY <1>9, <2>1
    <3>2. [k \in 1 .. n |-> from[k]] \in Seq(Unit)
      BY <1>6, <2>1
    <3> QED
      BY <1>6, <1>7, <3>1, <3>2
  <2>3. Len(to.chunks) = n + 1
    BY <1>6, <2>2
  <2>4. Len(to.chunks) + to.left = DataUnits
    <3>1. PICK m \in Nat : m = load[l].left
      BY <1>6
    <3>2. n + m = DataUnits /\ to.left = m - 1
      BY <1>9, <2>1, <3>1
    <3>3. (n + 1) + (m - 1) = n + m
      BY <1>6
    <3> QED
      BY <2>3, <3>2, <3>3
  <2>5. Contents' = Contents
    BY DEF Contents, OldData, Data
  <2>6. content'[load'[l].inode] = from /\ temp' = temp
    BY <1>2, <1>3, <1>8, <1>10
  <2>7. load'[l].chunks = [k \in 1 .. Len(load'[l].chunks) |-> content'[load'[l].inode][k]]
    BY <1>10, <2>2, <2>3, <2>6
  <2> QED
    BY <1>7, <1>8, <1>10, <2>1, <2>4, <2>5, <2>6, <2>7 DEF Reads
<1>14. ASSUME ~overlapped, NEW m \in Loads  PROVE Reads(m)'
  <2>1. CASE m # l
    <3>1. Contents' = Contents
      BY DEF Contents, OldData, Data
    <3> QED
      BY <1>2, <1>10, <1>14, <2>1, <3>1 DEF IInv, Orderly, Reads
  <2> QED
    BY <1>13, <1>14, <2>1
<1> QED
  BY <1>1, <1>10, <1>11, <1>12, <1>14, LoadGoes

LEMMA SendContentStep ==
  ASSUME IInv, NEW l \in Loads, SendContent(l)
  PROVE  IInv'
<1> DEFINE to == [load[l] EXCEPT !.pc = "sent", !.inode = None]
<1>1. /\ UNCHANGED <<disk, requestVars, history>> /\ TypeOK /\ load[l] \in LoadType
      /\ load[l].pc = "read" /\ load[l].left = 0 /\ load' = [load EXCEPT ![l] = to]
  BY Types DEF SendContent, Loading, IInv
<1>2. UNCHANGED <<original, temp, content, overlapped>>
  BY <1>1 DEF disk, history
<1>3. to \in LoadType /\ to.pc = "sent" /\ to.inode = None /\ to.chunks = load[l].chunks
  BY <1>1 DEF LoadType
<1> HIDE DEF to
<1>4. load'[l] = to /\ (\A m \in Loads : m # l => load'[m] = load[m]) /\ load' \in [Loads -> LoadType]
  BY <1>1, <1>3 DEF TypeOK
<1>5. \A m \in Loads : load'[m].inode \in InUse \cup {None}
  BY <1>3, <1>4 DEF InUse
<1>6. Streams'
  BY <1>3, <1>4 DEF IInv, Streams
<1>7. Contents' = Contents
  BY DEF Contents, OldData, Data
<1>8. ASSUME ~overlapped  PROVE Reads(l)'
  <2>1. PICK from : from = content[load[l].inode]
    OBVIOUS
  <2>2. /\ from \in Contents /\ Len(load[l].chunks) + load[l].left = DataUnits
        /\ load[l].chunks = [k \in 1 .. Len(load[l].chunks) |-> from[k]]
    BY <1>1, <1>8, <2>1 DEF IInv, Orderly, Reads
  <2>3. Len(load[l].chunks) = DataUnits
    <3>1. load[l].chunks \in Seq(Unit)
      BY <1>1 DEF LoadType
    <3>2. Len(load[l].chunks) \in Nat
      BY <3>1, LenProperties
    <3> QED
      BY <1>1, <2>2, <3>2, Numbers
  <2>4. from = [k \in 1 .. DataUnits |-> from[k]]
    BY <2>2 DEF Contents, OldData, Data
  <2>5. load[l].chunks = from
    BY <2>2, <2>3, <2>4
  <2> QED
    BY <1>3, <1>4, <1>7, <2>2, <2>5 DEF Reads
<1>9. ASSUME ~overlapped, NEW m \in Loads  PROVE Reads(m)'
  <2>1. CASE m # l
    BY <1>2, <1>4, <1>7, <1>9, <2>1 DEF IInv, Orderly, Reads
  <2> QED
    BY <1>8, <1>9, <2>1
<1> QED
  BY <1>1, <1>4, <1>5, <1>6, <1>9, LoadGoes

-----------------------------------------------------------------------------
(* A piece of a body.                                                      *)

LEMMA PieceOutcome ==
  ASSUME IInv, NEW s \in Saves, Piece(s)
  PROVE  \E units \in Nat, after \in SinkType, piece \in Seq(Unit) :
           /\ pc[s] = "body" /\ got[s] + units \in 0 .. Body
           /\ after.data >= sink[s].data /\ SinkAt(after, got[s] + units, kind[s] # "badSeparator")
           /\ sink[s].json => after.json = TRUE
           /\ piece = SubSeq(Data(s), sink[s].data + 1, after.data)
           /\ Len(piece) = after.data - sink[s].data
           /\ got' = [got EXCEPT ![s] = got[s] + units] /\ sink' = [sink EXCEPT ![s] = after]
           /\ answer' \in [Saves -> {"none", "204", "error"}]
           /\ UNCHANGED <<original, kind, pc, load, crashed, moved, existed>>
           /\ \/ /\ after.json /\ ~HasOpened(s) /\ kind[s] # "badJson" /\ Opened(s)
                 /\ content' = [content EXCEPT ![writer'[s]] = WrittenAt(<<>>, written[s], piece)]
                 /\ written' = [written EXCEPT ![s] = written[s] + Len(piece)]
              \/ /\ HasOpened(s) /\ UNCHANGED <<temp, writer, overlapped>>
                 /\ content' = [content EXCEPT ![writer[s]] = WrittenAt(content[writer[s]], written[s], piece)]
                 /\ written' = [written EXCEPT ![s] = written[s] + Len(piece)]
              \/ /\ ~HasOpened(s) /\ ~(after.json /\ kind[s] # "badJson")
                 /\ UNCHANGED <<temp, content, writer, written, overlapped>>
<1>1. PICK units \in 1 .. Body - got[s] :
        LET before == sink[s]
            after == Write(before, units, kind[s] # "badSeparator")
            opens == after.json /\ ~before.json /\ kind[s] # "badJson"
            fails == (after.failed /\ ~before.failed)
                       \/ (after.json /\ ~before.json /\ kind[s] = "badJson")
            piece == SubSeq(Data(s), before.data + 1, after.data)
            onto == IF opens THEN <<>> ELSE content[writer[s]]
        IN /\ got' = [got EXCEPT ![s] = got[s] + units]
           /\ sink' = [sink EXCEPT ![s] = after]
           /\ answer' = IF fails THEN Answered(s, "error") ELSE answer
           /\ IF opens THEN Opened(s) ELSE UNCHANGED <<temp, writer, overlapped>>
           /\ IF opens \/ writer[s] # None
              THEN /\ content' = [content EXCEPT ![writer'[s]] = WrittenAt(onto, written[s], piece)]
                   /\ written' = [written EXCEPT ![s] = written[s] + Len(piece)]
              ELSE UNCHANGED <<content, written>>
  BY DEF Piece, IInv, TypeOK
<1>2. /\ TypeOK /\ Handles(s) /\ pc[s] = "body" /\ sink[s] \in SinkType /\ got[s] \in Nat
      /\ UNCHANGED <<original, kind, pc, load, crashed, moved, existed>>
  BY Types DEF IInv, Piece
<1>3. PICK separator \in BOOLEAN : separator = (kind[s] # "badSeparator")
  OBVIOUS
<1>4. units \in Nat /\ got[s] + units <= Body /\ got[s] + units \in 0 .. Body
  BY <1>2, Numbers
<1>5. SinkAt(sink[s], got[s], separator)
  BY <1>2, <1>3 DEF Handles
<1>6. PICK after \in SinkType : after = Write(sink[s], units, separator)
  BY <1>2, <1>4, <1>5, WriteIs
<1>7. SinkAt(after, got[s] + units, separator)
  BY <1>2, <1>4, <1>5, <1>6, WriteIs
<1>8. after.data >= sink[s].data /\ (sink[s].json => after.json = TRUE)
  <2>1. after.data >= sink[s].data /\ (sink[s].json = TRUE => after.json = TRUE)
    <3>1. Write(sink[s], units, separator) \in SinkType
      BY <1>6
    <3> QED
      BY <1>2, <1>4, <1>5, <1>6, <3>1, WriteGrows
  <2>2. sink[s].json \in BOOLEAN
    BY <1>2 DEF SinkType
  <2> QED
    BY <2>1, <2>2
<1>9. PICK piece : piece = SubSeq(Data(s), sink[s].data + 1, after.data)
  OBVIOUS
<1>10. piece \in Seq(Unit) /\ Len(piece) = after.data - sink[s].data
  <2>1. sink[s].data \in Nat /\ after.data \in Nat /\ after.data <= DataUnits
    BY <1>2, <1>6, Numbers DEF SinkType
  <2>2. PICK n \in Nat : n = sink[s].data
    BY <2>1
  <2>3. PICK m \in Nat : m = after.data
    BY <2>1
  <2>4. n <= m /\ m <= DataUnits /\ piece = SubSeq(Data(s), n + 1, m)
    BY <1>8, <1>9, <2>1, <2>2, <2>3
  <2> QED
    BY <2>2, <2>3, <2>4, PieceIs
<1>11. HasOpened(s) <=> writer[s] # None
  BY <1>2 DEF Handles
<1>12. HasOpened(s) <=> sink[s].json /\ kind[s] # "badJson"
  BY DEF HasOpened
<1>13. answer' \in [Saves -> {"none", "204", "error"}]
  BY <1>1, <1>2, AnsweredIs DEF TypeOK
<1>14. /\ got' = [got EXCEPT ![s] = got[s] + units] /\ sink' = [sink EXCEPT ![s] = after]
  BY <1>1, <1>3, <1>6
<1>15. CASE after.json /\ ~sink[s].json /\ kind[s] # "badJson"
  <2>1. /\ ~HasOpened(s) /\ Opened(s)
        /\ content' = [content EXCEPT ![writer'[s]] = WrittenAt(<<>>, written[s], piece)]
        /\ written' = [written EXCEPT ![s] = written[s] + Len(piece)]
    BY <1>1, <1>3, <1>6, <1>9, <1>12, <1>15
  <2> QED
    BY <1>2, <1>3, <1>4, <1>7, <1>8, <1>9, <1>10, <1>13, <1>14, <1>15, <2>1
<1>16. CASE ~(after.json /\ ~sink[s].json /\ kind[s] # "badJson") /\ HasOpened(s)
  <2>1. /\ UNCHANGED <<temp, writer, overlapped>>
        /\ content' = [content EXCEPT ![writer[s]] = WrittenAt(content[writer[s]], written[s], piece)]
        /\ written' = [written EXCEPT ![s] = written[s] + Len(piece)]
    BY <1>1, <1>3, <1>6, <1>9, <1>11, <1>16
  <2> QED
    BY <1>2, <1>3, <1>4, <1>7, <1>8, <1>9, <1>10, <1>13, <1>14, <1>16, <2>1
<1>17. CASE ~(after.json /\ ~sink[s].json /\ kind[s] # "badJson") /\ ~HasOpened(s)
  <2>1. UNCHANGED <<temp, content, writer, written, overlapped>>
    BY <1>1, <1>3, <1>6, <1>11, <1>17
  <2>2. ~(after.json /\ kind[s] # "badJson")
    BY <1>8, <1>12, <1>17
  <2> QED
    BY <1>2, <1>3, <1>4, <1>7, <1>8, <1>9, <1>10, <1>13, <1>14, <1>17, <2>1, <2>2
<1> QED
  BY <1>15, <1>16, <1>17

LEMMA PieceStep ==
  ASSUME IInv, NEW s \in Saves, Piece(s)
  PROVE  IInv'
<1>1. PICK units \in Nat, after \in SinkType, piece \in Seq(Unit) :
        /\ pc[s] = "body" /\ got[s] + units \in 0 .. Body
        /\ after.data >= sink[s].data /\ SinkAt(after, got[s] + units, kind[s] # "badSeparator")
        /\ sink[s].json => after.json = TRUE
        /\ piece = SubSeq(Data(s), sink[s].data + 1, after.data)
        /\ Len(piece) = after.data - sink[s].data
        /\ got' = [got EXCEPT ![s] = got[s] + units] /\ sink' = [sink EXCEPT ![s] = after]
        /\ answer' \in [Saves -> {"none", "204", "error"}]
        /\ UNCHANGED <<original, kind, pc, load, crashed, moved, existed>>
        /\ \/ /\ after.json /\ ~HasOpened(s) /\ kind[s] # "badJson" /\ Opened(s)
              /\ content' = [content EXCEPT ![writer'[s]] = WrittenAt(<<>>, written[s], piece)]
              /\ written' = [written EXCEPT ![s] = written[s] + Len(piece)]
           \/ /\ HasOpened(s) /\ UNCHANGED <<temp, writer, overlapped>>
              /\ content' = [content EXCEPT ![writer[s]] = WrittenAt(content[writer[s]], written[s], piece)]
              /\ written' = [written EXCEPT ![s] = written[s] + Len(piece)]
           \/ /\ ~HasOpened(s) /\ ~(after.json /\ kind[s] # "badJson")
              /\ UNCHANGED <<temp, content, writer, written, overlapped>>
  BY PieceOutcome
<1>2. /\ TypeOK /\ Handles(s) /\ Room /\ Short /\ Streams
      /\ sink[s] \in SinkType /\ sink[s].data \in Nat /\ after.data \in Nat /\ after.data <= DataUnits
  <2>1. TypeOK /\ Handles(s) /\ Room /\ Short /\ Streams /\ sink[s] \in SinkType
    BY Types DEF IInv
  <2> QED
    BY <2>1, Numbers DEF SinkType
<1>3. /\ got'[s] = got[s] + units /\ sink'[s] = after
      /\ \A t \in Saves : t # s => got'[t] = got[t] /\ sink'[t] = sink[t]
      /\ got' \in [Saves -> 0 .. Body] /\ sink' \in [Saves -> SinkType]
  BY <1>1, <1>2 DEF TypeOK
<1>4. /\ \A t \in Saves : t # s => (HasOpened(t)' <=> HasOpened(t))
      /\ HasOpened(s)' <=> after.json /\ kind[s] # "badJson"
      /\ HasOpened(s) => HasOpened(s)'
  BY <1>1, <1>3 DEF HasOpened
<1>5. SinkAt(sink'[s], got'[s], kind'[s] # "badSeparator")
  BY <1>1, <1>3
<1>6. Streams'
  BY <1>1, <1>2 DEF Streams
<1>7. \A l \in Loads : load'[l].inode = load[l].inode
  BY <1>1
<1>8. Contents' = Contents /\ (\A t \in Saves : Data(t)' = Data(t)) /\ OldData' = OldData
  BY DEF Contents, OldData, Data
<1>9. CASE /\ ~HasOpened(s) /\ ~(after.json /\ kind[s] # "badJson")
           /\ UNCHANGED <<temp, content, writer, written, overlapped>>
  <2>1. \A t \in Saves : HasOpened(t)' <=> HasOpened(t)
    BY <1>4, <1>9
  <2>2. TypeOK'
    BY <1>1, <1>2, <1>3, <1>9 DEF TypeOK
  <2>3. Room'
    <3>1. InUse' = InUse
      BY <1>1, <1>9 DEF InUse
    <3> QED
      BY <1>2, <2>1, <3>1, RoomKept
  <2>4. Short'
    BY <1>2, <1>9 DEF Short
  <2>5. ASSUME NEW t \in Saves  PROVE Handles(t)'
    <3>1. Handles(t)
      BY DEF IInv
    <3>2. CASE t # s
      BY <1>1, <1>3, <1>9, <2>1, <3>1, <3>2 DEF Handles
    <3>3. CASE t = s
      BY <1>1, <1>5, <1>9, <2>1, <3>1, <3>3 DEF Handles
    <3> QED
      BY <3>2, <3>3
  <2>6. ASSUME ~overlapped  PROVE Orderly'
    <3>1. Orderly
      BY <2>6 DEF IInv
    <3>2. Exclusive'
      BY <1>1, <2>1, <3>1 DEF Orderly, Exclusive, UnderWay
    <3>3. ASSUME NEW t \in Saves  PROVE Holds(t)'
      <4>1. CASE t # s
        <5>1. Holds(t) /\ sink'[t] = sink[t]
          BY <1>3, <3>1, <4>1 DEF Orderly
        <5>2. UNCHANGED <<original, temp, content, writer, kind, pc>> /\ Data(t)' = Data(t)
          BY <1>1, <1>8, <1>9
        <5> QED
          BY <5>1, <5>2 DEF Holds, FirstUnits
      <4>2. CASE t = s
        BY <1>1, <1>2, <1>9, <4>2 DEF Holds, Handles
      <4> QED
        BY <4>1, <4>2
    <3>4. (InPlace => InPlace') /\ (InTransit => InTransit')
      BY <1>1, <1>8, <1>9, <2>1 DEF InPlace, InTransit
    <3>5. Replaced'
      BY <1>1, <3>1, <3>4 DEF Orderly, Replaced
    <3>6. \A l \in Loads : Reads(l)'
      BY <1>1, <1>8, <1>9, <3>1 DEF Orderly, Reads
    <3> QED
      BY <1>1, <1>9, <3>1, <3>2, <3>3, <3>4, <3>5, <3>6 DEF Orderly
  <2> QED
    BY <1>6, <1>9, <2>2, <2>3, <2>4, <2>5, <2>6 DEF IInv
<1>10. ASSUME HasOpened(s)', NEW i \in Inodes, writer'[s] = i, temp' \in {None} \cup Inodes,
              writer' \in [Saves -> {None} \cup Inodes], \A t \in Saves : t # s => writer'[t] = writer[t],
              overlapped' \in BOOLEAN, overlapped => overlapped',
              NEW old \in Seq(Unit), Len(old) <= DataUnits, written[s] = sink[s].data,
              content' = [content EXCEPT ![i] = WrittenAt(old, written[s], piece)],
              written' = [written EXCEPT ![s] = written[s] + Len(piece)],
              Room',
              ~overlapped' =>
                /\ temp' = i /\ i # original /\ old = FirstUnits(s, sink[s].data)
                /\ \A t \in Saves : t # s => ~UnderWay(t)
                /\ \A l \in Loads : load[l].pc = "read" => load[l].inode # i
       PROVE  IInv'
  <2>1. written[s] + Len(piece) = after.data /\ written[s] \in Nat
    BY <1>1, <1>2, <1>10
  <2>2. /\ WrittenAt(old, written[s], piece) \in Seq(Unit)
        /\ Len(WrittenAt(old, written[s], piece)) <= DataUnits
    BY <1>2, <1>10, <2>1, WrittenType
  <2>3. /\ content'[i] = WrittenAt(old, written[s], piece)
        /\ \A j \in Inodes : j # i => content'[j] = content[j]
        /\ content' \in [Inodes -> Seq(Unit)]
    BY <1>2, <1>10, <2>2 DEF TypeOK
  <2>4. /\ written'[s] = after.data /\ (\A t \in Saves : t # s => written'[t] = written[t])
        /\ written' \in [Saves -> 0 .. DataUnits]
    <3>1. after.data \in 0 .. DataUnits
      BY <1>2, Numbers
    <3> QED
      BY <1>2, <1>10, <2>1, <3>1 DEF TypeOK
  <2>5. TypeOK'
    <3>1. /\ {original', temp'} \subseteq {None} \cup Inodes /\ writer' \in [Saves -> {None} \cup Inodes]
          /\ {crashed', existed', overlapped'} \subseteq BOOLEAN /\ moved' \in Saves \cup {Old}
      BY <1>1, <1>2, <1>10 DEF TypeOK
    <3>2. /\ kind' \in [Saves -> Kinds] /\ pc' \in [Saves -> SaveStates] /\ load' \in [Loads -> LoadType]
          /\ answer' \in [Saves -> {"none", "204", "error"}]
      BY <1>1, <1>2 DEF TypeOK
    <3>3. /\ got' \in [Saves -> 0 .. Body] /\ sink' \in [Saves -> SinkType]
          /\ content' \in [Inodes -> Seq(Unit)] /\ written' \in [Saves -> 0 .. DataUnits]
      BY <1>3, <2>3, <2>4
    <3> QED
      BY <3>1, <3>2, <3>3 DEF TypeOK
  <2>6. Short'
    BY <1>2, <2>2, <2>3 DEF Short
  <2>7. i # None
    BY InodesAre
  <2>8. ASSUME NEW t \in Saves  PROVE Handles(t)'
    <3>1. Handles(t)
      BY DEF IInv
    <3>2. CASE t # s
      BY <1>1, <1>3, <1>4, <1>10, <2>4, <3>1, <3>2 DEF Handles
    <3>3. CASE t = s
      BY <1>1, <1>3, <1>5, <1>10, <2>4, <2>7, <3>3 DEF Handles
    <3> QED
      BY <3>2, <3>3
  <2>9. ASSUME ~overlapped'  PROVE Orderly'
    <3>1. Orderly /\ temp' = i /\ i # original /\ original' = original /\ old = FirstUnits(s, sink[s].data)
      BY <1>1, <1>10, <2>9 DEF IInv
    <3>2. \A t \in Saves : t # s => /\ ~UnderWay(t) /\ writer'[t] = None
                                    /\ pc[t] \notin {"test", "remove", "rename", "unlink"}
      <4> SUFFICES ASSUME NEW t \in Saves, t # s
                   PROVE  /\ ~UnderWay(t) /\ writer'[t] = None
                          /\ pc[t] \notin {"test", "remove", "rename", "unlink"}
        OBVIOUS
      <4>1. ~UnderWay(t) /\ writer'[t] = writer[t]
        BY <1>10, <2>9
      <4>2. Handles(t)
        BY DEF IInv
      <4> QED
        BY <4>1, <4>2 DEF Handles, UnderWay
    <3>3. Exclusive'
      BY <1>1, <1>4, <3>2 DEF Exclusive, UnderWay
    <3>4. content'[i] = FirstUnits(s, after.data)
      <4>1. PICK n \in Nat : n = sink[s].data
        BY <1>2
      <4>2. PICK m \in Nat : m = after.data
        BY <1>2
      <4>3. n <= m /\ m <= DataUnits /\ piece = SubSeq(Data(s), n + 1, m)
        BY <1>1, <1>2, <4>1, <4>2
      <4>4. content'[i] = WrittenAt(FirstUnits(s, n), n, piece)
        BY <1>10, <2>3, <3>1, <4>1
      <4> QED
        BY <4>2, <4>3, <4>4, WrittenIs
    <3>5. ASSUME NEW t \in Saves  PROVE Holds(t)'
      <4>1. CASE t # s
        BY <1>1, <3>2, <4>1 DEF Holds
      <4>2. CASE t = s
        BY <1>1, <1>3, <1>10, <3>1, <3>4, <4>2 DEF Holds, FirstUnits
      <4> QED
        BY <4>1, <4>2
    <3>6. original # None => existed' /\ InPlace'
      <4> SUFFICES ASSUME original # None  PROVE existed' /\ InPlace'
        OBVIOUS
      <4>1. content'[original] = content[original]
        BY <1>2, <2>3, <3>1, Types
      <4>2. existed /\ InPlace
        BY <3>1 DEF Orderly
      <4>3. moved \in Saves \cup {Old}
        BY <1>2 DEF TypeOK
      <4> QED
        BY <1>1, <1>8, <4>1, <4>2, <4>3 DEF InPlace
    <3>7. Replaced'
      <4> SUFFICES ASSUME original = None, existed  PROVE crashed /\ InTransit'
        BY <1>1 DEF Replaced
      <4>1. crashed \/ \E t \in Saves : pc[t] = "rename"
        BY <3>1 DEF Orderly, Replaced
      <4>2. crashed
        BY <1>1, <3>2, <4>1
      <4> QED
        BY <1>1, <1>10, <4>2 DEF InTransit
    <3>8. ASSUME NEW l \in Loads  PROVE Reads(l)'
      <4>1. Reads(l)
        BY <3>1 DEF Orderly
      <4>2. load[l].pc = "read" => content'[load[l].inode] = content[load[l].inode] /\ load[l].inode # i
        BY <1>10, <2>3, <2>9, <4>1 DEF Reads
      <4> QED
        BY <1>1, <1>8, <3>1, <4>1, <4>2 DEF Reads
    <3> QED
      BY <1>1, <3>1, <3>3, <3>5, <3>6, <3>7, <3>8 DEF Orderly
  <2> QED
    BY <1>6, <1>10, <2>5, <2>6, <2>8, <2>9 DEF IInv
<1>11. CASE /\ HasOpened(s) /\ UNCHANGED <<temp, writer, overlapped>>
            /\ content' = [content EXCEPT ![writer[s]] = WrittenAt(content[writer[s]], written[s], piece)]
            /\ written' = [written EXCEPT ![s] = written[s] + Len(piece)]
  <2>1. PICK i \in Inodes : i = writer[s]
    BY <1>1, <1>2, <1>11, Types DEF Handles
  <2>2. content[i] \in Seq(Unit) /\ Len(content[i]) <= DataUnits
    BY <1>2, Types DEF Short
  <2>3. HasOpened(s)' /\ written[s] = sink[s].data
    BY <1>2, <1>4, <1>11 DEF Handles
  <2>4. /\ writer'[s] = i /\ temp' \in {None} \cup Inodes /\ writer' \in [Saves -> {None} \cup Inodes]
        /\ \A t \in Saves : t # s => writer'[t] = writer[t]
        /\ overlapped' \in BOOLEAN /\ (overlapped => overlapped')
    BY <1>2, <1>11, <2>1 DEF TypeOK
  <2>5. Room'
    <3>1. InUse' = InUse
      BY <1>1, <1>11 DEF InUse
    <3>2. \A t \in Saves : HasOpened(t)' <=> HasOpened(t)
      BY <1>4, <1>11
    <3> QED
      BY <1>2, <3>1, <3>2, RoomKept
  <2>6. ASSUME ~overlapped'
        PROVE  /\ temp' = i /\ i # original /\ content[i] = FirstUnits(s, sink[s].data)
               /\ \A t \in Saves : t # s => ~UnderWay(t)
               /\ \A l \in Loads : load[l].pc = "read" => load[l].inode # i
    <3>1. Orderly /\ i # None /\ ~overlapped
      BY <1>11, <2>6, InodesAre DEF IInv
    <3>2. temp = i /\ content[i] = FirstUnits(s, sink[s].data)
      BY <2>1, <3>1 DEF Orderly, Holds
    <3>3. UnderWay(s)
      BY <1>1, <1>11 DEF UnderWay
    <3>4. \A l \in Loads : load[l].pc = "read" => load[l].inode # i
      BY <3>1, <3>2 DEF Orderly, Reads
    <3> QED
      BY <1>11, <3>1, <3>2, <3>3, <3>4, OthersRest DEF Orderly
  <2> QED
    BY <1>10, <1>11, <2>1, <2>2, <2>3, <2>4, <2>5, <2>6
<1>12. CASE /\ after.json /\ ~HasOpened(s) /\ kind[s] # "badJson" /\ Opened(s)
            /\ content' = [content EXCEPT ![writer'[s]] = WrittenAt(<<>>, written[s], piece)]
            /\ written' = [written EXCEPT ![s] = written[s] + Len(piece)]
  <2>1. PICK i : i = IF temp = None THEN Unused ELSE temp
    OBVIOUS
  <2>2. /\ temp' = i /\ writer' = [writer EXCEPT ![s] = i]
        /\ overlapped' = (overlapped \/ \E t \in Saves \ {s} : UnderWay(t))
    BY <1>12, <2>1 DEF Opened
  <2>3. Unused \in Inodes /\ Unused \notin InUse
    BY <1>2, <1>12, UnusedIs
  <2>4. i \in Inodes /\ i # None
    BY <1>2, <2>1, <2>3, Types, InodesAre
  <2>5. HasOpened(s)' /\ written[s] = sink[s].data /\ sink[s].data = 0
    <3>1. sink[s].json = FALSE \/ kind[s] = "badJson"
      BY <1>2, <1>12 DEF HasOpened, SinkType
    <3>2. sink[s].json = FALSE
      BY <1>2, <1>12, <3>1 DEF SinkType
    <3>3. sink[s].data = 0 /\ written[s] = 0
      BY <1>2, <1>12, <3>2 DEF Handles, SinkAt
    <3> QED
      BY <1>4, <1>12, <3>3
  <2>6. /\ writer'[s] = i /\ temp' \in {None} \cup Inodes /\ writer' \in [Saves -> {None} \cup Inodes]
        /\ \A t \in Saves : t # s => writer'[t] = writer[t]
        /\ overlapped' \in BOOLEAN /\ (overlapped => overlapped')
    BY <1>2, <2>2, <2>4 DEF TypeOK
  <2>7. <<>> \in Seq(Unit) /\ Len(<<>>) <= DataUnits /\ <<>> = FirstUnits(s, 0)
    BY Numbers DEF FirstUnits
  <2>8. Room'
    <3>1. InUse' \subseteq InUse \cup {None, i}
      BY <1>1, <2>2, <2>6 DEF InUse
    <3>2. \A t \in Saves \ {s} : HasOpened(t)' <=> HasOpened(t)
      BY <1>4
    <3> QED
      BY <1>2, <1>12, <2>5, <3>1, <3>2, RoomMade
  <2>9. ASSUME ~overlapped'
        PROVE  /\ temp' = i /\ i # original /\ <<>> = FirstUnits(s, sink[s].data)
               /\ \A t \in Saves : t # s => ~UnderWay(t)
               /\ \A l \in Loads : load[l].pc = "read" => load[l].inode # i
    <3>1. Orderly /\ ~overlapped /\ \A t \in Saves : t # s => ~UnderWay(t)
      BY <2>2, <2>9 DEF IInv
    <3>2. i # original
      BY <2>1, <2>3, <3>1 DEF Orderly, InUse
    <3>3. \A l \in Loads : load[l].pc = "read" => load[l].inode # i
      BY <2>1, <2>3, <3>1 DEF Orderly, Reads, InUse
    <3> QED
      BY <2>2, <2>5, <2>7, <3>1, <3>2, <3>3
  <2>10. content' = [content EXCEPT ![i] = WrittenAt(<<>>, written[s], piece)]
    BY <1>12, <2>6
  <2> QED
    BY <1>10, <1>12, <2>4, <2>5, <2>6, <2>7, <2>8, <2>9, <2>10
<1> QED
  BY <1>1, <1>9, <1>11, <1>12

-----------------------------------------------------------------------------
(* The worker dies, and the specification.                                 *)

LEMMA CrashStep ==
  ASSUME IInv, Crash
  PROVE  IInv'
<1>1. /\ TypeOK /\ UNCHANGED <<original, temp, content, kind, got, sink, written, answer, moved, existed, overlapped>>
      /\ ~crashed /\ crashed' = TRUE
      /\ pc' = [s \in Saves |-> IF pc[s] \in {"idle", "done"} THEN pc[s] ELSE "dead"]
      /\ writer' = [s \in Saves |-> None]
      /\ load' = [l \in Loads |-> IF load[l].pc = "read" THEN [load[l] EXCEPT !.pc = "dead", !.inode = None]
                                 ELSE load[l]]
  BY DEF Crash, IInv, disk
<1>2. \A s \in Saves : writer'[s] = None /\ pc'[s] \in {"idle", "done", "dead"}
                       /\ (pc'[s] # "dead" => pc'[s] = pc[s])
  BY <1>1
<1>3. \A s \in Saves : HasOpened(s)' <=> HasOpened(s)
  BY <1>1 DEF HasOpened
<1>4. ASSUME NEW l \in Loads
      PROVE  /\ load'[l] \in LoadType /\ load'[l].pc # "read" /\ load'[l].inode \in {None, load[l].inode}
             /\ load'[l].pc = "sent" => load'[l] = load[l]
  <2>1. load[l] \in LoadType
    BY <1>1, Types
  <2>2. CASE load[l].pc = "read"
    <3>1. load'[l] = [load[l] EXCEPT !.pc = "dead", !.inode = None]
      BY <1>1, <2>2
    <3> QED
      BY <2>1, <3>1 DEF LoadType
  <2>3. CASE load[l].pc # "read"
    BY <1>1, <2>1, <2>3
  <2> QED
    BY <2>2, <2>3
<1>5. TypeOK'
  <2>1. pc' \in [Saves -> SaveStates]
    BY <1>1 DEF TypeOK, SaveStates
  <2>2. load' \in [Loads -> LoadType]
    BY <1>1, <1>4
  <2>3. writer' \in [Saves -> {None} \cup Inodes]
    BY <1>1
  <2> QED
    BY <1>1, <2>1, <2>2, <2>3 DEF TypeOK
<1>6. Room'
  <2>1. InUse' \subseteq InUse \cup {None}
    <3>1. InUse' = {original', temp'} \cup {writer'[s] : s \in Saves} \cup {load'[l].inode : l \in Loads}
      BY DEF InUse
    <3>2. \A s \in Saves : writer'[s] = None
      BY <1>2
    <3>3. \A l \in Loads : load'[l].inode \in {None, load[l].inode}
      BY <1>4
    <3>4. original' = original /\ temp' = temp
      BY <1>1
    <3> QED
      BY <3>1, <3>2, <3>3, <3>4 DEF InUse
  <2> QED
    BY <1>1, <1>3, <2>1, RoomKept DEF IInv
<1>7. Short' /\ Streams'
  BY <1>1, <1>4 DEF IInv, Short, Streams
<1>8. ASSUME NEW s \in Saves  PROVE Handles(s)'
  <2>1. Handles(s)
    BY DEF IInv
  <2>2. pc'[s] # "body" /\ writer'[s] = None
    BY <1>2
  <2> QED
    BY <1>1, <1>2, <1>3, <2>1, <2>2 DEF Handles
<1>9. ASSUME ~overlapped  PROVE Orderly'
  <2>1. Orderly
    BY <1>9 DEF IInv
  <2>2. \A s \in Saves : ~UnderWay(s)'
    <3>1. ASSUME NEW s \in Saves, UnderWay(s)'  PROVE FALSE
      <4>1. pc'[s] = "idle" /\ pc[s] = "idle" /\ HasOpened(s)
        BY <1>2, <1>3, <3>1 DEF UnderWay
      <4> QED
        BY <1>1, <4>1, OpenedIs DEF IInv
    <3> QED
      BY <3>1
  <2>3. \A s \in Saves : Holds(s)'
    BY <1>2 DEF Holds
  <2>4. InPlace => InPlace'
    BY <1>1 DEF InPlace, Data, OldData
  <2>5. InTransit => InTransit'
    <3>1. InTransit => temp # None /\ \E s \in Saves : kind[s] = "fine" /\ content[temp] = Data(s)
      BY <1>1 DEF InTransit
    <3>2. \A s \in Saves : Data(s)' = Data(s)
      BY DEF Data
    <3> QED
      BY <1>1, <3>1, <3>2 DEF InTransit
  <2>6. Replaced'
    BY <1>1, <2>1, <2>5 DEF Orderly, Replaced
  <2>7. \A l \in Loads : Reads(l)'
    BY <1>1, <1>4, <2>1 DEF Orderly, Reads, Contents, OldData, Data
  <2> QED
    BY <1>1, <2>1, <2>2, <2>3, <2>4, <2>6, <2>7 DEF Orderly, Exclusive
<1> QED
  BY <1>1, <1>5, <1>6, <1>7, <1>8, <1>9 DEF IInv

LEMMA Stutters ==
  ASSUME IInv, UNCHANGED vars
  PROVE  IInv'
<1>1. UNCHANGED <<disk, requestVars, history>> /\ load' = load /\ TypeOK /\ Streams
  BY DEF vars, IInv
<1>2. load' \in [Loads -> LoadType] /\ Streams'
  BY <1>1 DEF TypeOK, Streams
<1>3. \A l \in Loads : load'[l].inode \in InUse \cup {None}
  BY <1>1 DEF InUse
<1>4. UNCHANGED <<original, temp, content, overlapped>> /\ Contents' = Contents
  BY <1>1 DEF disk, history, Contents, OldData, Data
<1>5. ~overlapped => \A l \in Loads : Reads(l)'
  BY <1>1, <1>4 DEF IInv, Orderly, Reads
<1> QED
  BY <1>1, <1>2, <1>3, <1>5, LoadGoes

LEMMA Initially ==
  Init => IInv
<1> SUFFICES ASSUME Init  PROVE IInv
  OBVIOUS
<1>1. OldData \in Seq(Unit) /\ Len(OldData) = DataUnits /\ <<>> \in Seq(Unit) /\ Len(<<>>) = 0
  BY Numbers DEF OldData, Unit
<1>2. FreshSink \in SinkType
  BY Numbers DEF FreshSink, SinkType, Phases
<1>3. NoLoad \in LoadType /\ NoLoad.pc = "idle" /\ NoLoad.inode = None
  BY Numbers DEF NoLoad, LoadType
<1>4. TypeOK
  <2>1. original \in {None} \cup Inodes
    BY InodesAre DEF Init
  <2>2. content \in [Inodes -> Seq(Unit)]
    BY <1>1 DEF Init
  <2>3. kind \in [Saves -> Kinds] /\ pc \in [Saves -> SaveStates] /\ got \in [Saves -> 0 .. Body]
    BY Numbers DEF Init, SaveStates
  <2>4. sink \in [Saves -> SinkType] /\ load \in [Loads -> LoadType]
    BY <1>2, <1>3 DEF Init
  <2>5. /\ writer \in [Saves -> {None} \cup Inodes] /\ written \in [Saves -> 0 .. DataUnits]
        /\ answer \in [Saves -> {"none", "204", "error"}]
    BY Numbers DEF Init
  <2>6. {original, temp} \subseteq {None} \cup Inodes
    BY <2>1 DEF Init
  <2>7. {crashed, existed, overlapped} \subseteq BOOLEAN /\ moved \in Saves \cup {Old}
    BY DEF Init
  <2> QED
    BY <2>2, <2>3, <2>4, <2>5, <2>6, <2>7 DEF TypeOK
<1>5. \A s \in Saves : /\ sink[s] = FreshSink /\ ~HasOpened(s) /\ pc[s] = "idle" /\ got[s] = 0
                        /\ writer[s] = None /\ written[s] = 0
  BY DEF Init, HasOpened, FreshSink
<1>6. Room
  <2>1. InUse \ {None} \subseteq {1}
    BY <1>3, <1>5 DEF Init, InUse
  <2>2. IsFiniteSet({1}) /\ Cardinality({1}) = 1
    BY FS_Singleton
  <2>3. Cardinality(InUse \ {None}) <= 1
    BY <2>1, <2>2, FS_Subset
  <2>4. Cardinality({s \in Saves : HasOpened(s)}) \in Nat
    BY InodesAre, FS_Subset, FS_CardinalityType
  <2>5. Cardinality(InUse \ {None}) \in Nat
    BY <2>1, <2>2, FS_Subset, FS_CardinalityType
  <2> QED
    BY <2>3, <2>4, <2>5 DEF Room
<1>7. Short
  BY <1>1, Numbers DEF Init, Short
<1>8. Streams
  BY <1>3 DEF Init, Streams
<1>9. ASSUME NEW s \in Saves  PROVE Handles(s)
  <2>1. SinkAt(FreshSink, 0, kind[s] # "badSeparator")
    BY Numbers DEF SinkAt, FreshSink
  <2> QED
    BY <1>5, <2>1 DEF Handles
<1>10. Orderly
  <2>1. Exclusive /\ \A s \in Saves : Holds(s)
    BY <1>5 DEF Exclusive, UnderWay, Holds
  <2>2. original # None => existed /\ InPlace
    BY InodesAre DEF Init, InPlace
  <2>3. Replaced
    BY DEF Init, Replaced
  <2>4. \A l \in Loads : Reads(l)
    BY <1>3 DEF Init, Reads
  <2> QED
    BY <2>1, <2>2, <2>3, <2>4 DEF Init, Orderly
<1> QED
  BY <1>4, <1>6, <1>7, <1>8, <1>9, <1>10 DEF IInv

LEMMA Inductive ==
  IInv /\ [Next]_vars => IInv'
<1> SUFFICES ASSUME IInv, [Next]_vars  PROVE IInv'
  OBVIOUS
<1>1. ASSUME NEW s \in Saves, SaveStep(s)  PROVE IInv'
  BY <1>1, BeginSaveStep, PieceStep, LoseBodyStep, EndBodyStep, TestStep, RemoveStep, RenameStep,
     DestroyStep, UnlinkStep DEF SaveStep
<1>2. ASSUME NEW l \in Loads, LoadStep(l)  PROVE IInv'
  BY <1>2, BeginLoadStep, ReadChunkStep, SendContentStep DEF LoadStep
<1>3. CASE Crash
  BY <1>3, CrashStep
<1>4. CASE UNCHANGED vars
  BY <1>4, Stutters
<1> QED
  BY <1>1, <1>2, <1>3, <1>4 DEF Next

LEMMA Always ==
  Spec => []IInv
<1>1. Init => IInv
  BY Initially
<1>2. IInv /\ [Next]_vars => IInv'
  BY Inductive
<1> QED
  BY <1>1, <1>2, PTL DEF Spec

(* Every variable of saving and loading has its type.                      *)
THEOREM TypeCorrect ==
  Spec => []TypeOK
<1>1. IInv => TypeOK
  BY DEF IInv
<1> QED
  BY <1>1, Always, PTL

(* workspace.cpp:471, hashed_file.cpp:80-81: unless two saves are under    *)
(* way at once, there is a whole copy of the file at every step, also of   *)
(* a crash between the removal of the file and the rename.                 *)
THEOREM FileIsWholeCorrect ==
  Spec => []FileIsWhole
<1>1. IInv => FileIsWhole
  BY DEF IInv, FileIsWhole, Orderly, Replaced
<1> QED
  BY <1>1, Always, PTL

(* file_content.cpp:46-59: a load sends one whole content of the file, and *)
(* never waits for more than the file has, unless two saves are under way  *)
(* at once.                                                                *)
THEOREM LoadIsWholeCorrect ==
  Spec => []LoadIsWhole
<1>1. IInv => LoadIsWhole
  <2> SUFFICES ASSUME IInv, ~overlapped, NEW l \in Loads
               PROVE  /\ load[l].pc = "sent" => load[l].chunks \in Contents
                      /\ load[l].pc = "read" =>
                           Len(load[l].chunks) + load[l].left <= Len(content[load[l].inode])
    BY DEF LoadIsWhole
  <2>1. Reads(l)
    BY DEF IInv, Orderly
  <2>2. \A c \in Contents : Len(c) = DataUnits
    BY Numbers DEF Contents, OldData, Data
  <2> QED
    BY <2>1, <2>2, Numbers DEF Reads
<1> QED
  BY <1>1, Always, PTL

(* hybrid_read_sink.cpp:65-78,103: however the body is cut into pieces,    *)
(* the file gets the units of the data, in order and each of them once,    *)
(* unless two saves are under way at once.                                 *)
THEOREM PiecesAreOrderedCorrect ==
  Spec => []PiecesAreOrdered
<1>1. IInv => PiecesAreOrdered
  <2> SUFFICES ASSUME IInv, ~overlapped, NEW s \in Saves, writer[s] # None
               PROVE  content[writer[s]] = [k \in 1 .. got[s] - (SizeUnits + 1 + JsonUnits) |-> <<s, k>>]
    BY DEF PiecesAreOrdered
  <2>1. content[writer[s]] = FirstUnits(s, sink[s].data)
    BY DEF IInv, Orderly, Holds
  <2>2. HasOpened(s)
    BY DEF IInv, Handles
  <2>3. got[s] = sink[s].data + Header
    BY <2>2, OpenedIs DEF IInv
  <2>4. sink[s].data \in Nat
    <3>1. sink[s] \in SinkType
      BY Types DEF IInv
    <3> QED
      BY <3>1, Numbers DEF SinkType
  <2>5. got[s] - (SizeUnits + 1 + JsonUnits) = sink[s].data
    BY <2>3, <2>4, Numbers
  <2> QED
    BY <2>1, <2>5 DEF FirstUnits
<1> QED
  BY <1>1, Always, PTL
=============================================================================
