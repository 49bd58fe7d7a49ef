--------------------------- MODULE PartTableProofs ---------------------------
(***************************************************************************)
(* Proofs about PartTable, for every word size, every alignment, every     *)
(* geometry and disk: if the shares are larger than the alignment, no two  *)
(* partitions share a sector, all lie on the disk, and unless the disk has *)
(* more sectors than a word counts all are made, one behind the other; and *)
(* on every disk at all the call has less to do with every step.           *)
(***************************************************************************)
EXTENDS PartTable, TLAPS

(* The defining facts of integer division. *)
LEMMA DivBounds ==
  ASSUME NEW a \in Nat, NEW b \in Nat \ {0}
  PROVE  /\ a \div b \in Nat
         /\ (a \div b) * b \in Nat
         /\ (a \div b) * b <= a
         /\ a < (a \div b) * b + b
  OBVIOUS

LEMMA ModRange ==
  ASSUME NEW x \in Int, NEW b \in Nat \ {0}
  PROVE  x % b \in 0..b-1
  OBVIOUS

LEMMA ModSmall ==
  ASSUME NEW b \in Nat \ {0}, NEW x \in 0..b-1
  PROVE  x % b = x
  OBVIOUS

LEMMA MulMono ==
  ASSUME NEW a \in Nat, NEW b \in Nat, NEW c \in Nat, a <= b
  PROVE  a * c <= b * c /\ c * a <= c * b /\ a * c \in Nat /\ c * a \in Nat
  <1>1. PICK d \in Nat : b = a + d
    <2>1. b - a \in Nat /\ b = a + (b - a)
      OBVIOUS
    <2> QED
      BY <2>1
  <1>2. b * c = a * c + d * c /\ d * c \in Nat
    BY <1>1
  <1>3. c * b = c * a + c * d /\ c * d \in Nat
    BY <1>1
  <1> QED
    BY <1>2, <1>3

LEMMA MulPositive ==
  ASSUME NEW a \in Nat \ {0}, NEW b \in Nat \ {0}
  PROVE  a * b \in Nat \ {0}
  <1>1. 1 * b <= a * b
    BY MulMono
  <1> QED
    BY <1>1

-----------------------------------------------------------------------------
(* Type correctness. *)

LEMMA UnitType ==
  ASSUME TypeOK
  PROVE  U \in Nat \ {0} /\ U * sectorSize \in Nat \ {0}
  <1>1. geometry[1] \in Nat \ {0} /\ geometry[2] \in Nat \ {0} /\ sectorSize \in Nat \ {0}
    BY DEF TypeOK
  <1> QED
    BY <1>1, MulPositive DEF U

(* The arithmetic of the search stays in the naturals. *)
LEMMA SkipType ==
  ASSUME TypeOK, NEW s \in Nat, NEW i \in Entries
  PROVE  Skip(s, i) \in Nat
  <1>1. offset \in Nat /\ table[i].first \in 0..Word-1 /\ table[i].size \in 0..Word-1
    BY DEF TypeOK
  <1>2. Begin(i) \in Nat /\ Last(i) \in Int
    BY <1>1, PartAssumption DEF Begin, Last
  <1>3. First(i) \in Nat
    BY <1>2, UnitType, DivBounds DEF First
  <1> QED
    BY <1>1, <1>2, <1>3 DEF Skip

LEMMA PassType ==
  ASSUME TypeOK, NEW s \in Nat
  PROVE  Pass(s) \in Nat
  BY SkipType DEF Pass, Entries

LEMMA RoundedType ==
  ASSUME TypeOK, NEW s \in Nat
  PROVE  Rounded(s) \in Nat
  <1>1. Word \in Nat \ {0}
    BY PartAssumption
  <1>2. s % Word \in Nat
    BY <1>1, ModRange
  <1> QED
    BY <1>2, UnitType, DivBounds DEF Rounded

LEMMA StopType ==
  ASSUME TypeOK, NEW i \in Entries
  PROVE  /\ cylinders \in Nat
         /\ Limit \in Nat
         /\ First(i) \in Nat
  <1>1. Word \in Nat \ {0} /\ Word * Word \in Nat \ {0}
    BY PartAssumption, MulPositive
  <1>2. total \div (U * sectorSize) \in Nat
    BY UnitType, DivBounds DEF TypeOK
  <1>3. cylinders \in Nat
    BY <1>1, <1>2 DEF cylinders
  <1>4. U * cylinders \in Nat
    BY <1>3, UnitType, MulMono
  <1>5. Limit \in Nat
    BY <1>1, <1>4, ModRange DEF Limit
  <1>6. Begin(i) \in Nat
    BY <1>1 DEF TypeOK, Begin
  <1>7. First(i) \in Nat
    BY <1>6, UnitType, DivBounds DEF First
  <1> QED
    BY <1>3, <1>5, <1>7

LEMMA FreeLimitType ==
  ASSUME TypeOK
  PROVE  FreeLimit \in Int
  <1>1. Limit \in Int /\ \A i \in Entries : First(i) \in Int
    BY StopType DEF Entries
  <1>2. \A l \in Int, i \in Entries : CutAt(l, i) \in Int
    BY <1>1 DEF CutAt
  <1> QED
    BY <1>1, <1>2 DEF FreeLimit, Entries

LEMMA ShareType ==
  ASSUME TypeOK, parts \in 1..MaxParts
  PROVE  partCyls \in Nat /\ Share \in Int /\ partCyls * parts <= cylinders
  <1>1. cylinders \in Nat
    BY StopType DEF Entries
  <1>2. parts \in Nat \ {0}
    BY DEF MaxParts
  <1>3. partCyls \in Nat /\ partCyls * parts <= cylinders
    BY <1>1, <1>2, DivBounds DEF partCyls
  <1>4. partCyls * (parts - 1) \in Nat
    BY <1>2, <1>3, MulMono
  <1> QED
    BY <1>1, <1>3, <1>4 DEF Share

LEMMA StopInt ==
  ASSUME TypeOK, parts \in 1..MaxParts
  PROVE  Stop \in Int
  <1>1. start \div U \in Nat /\ U \in Nat /\ Share \in Int /\ FreeLimit \in Int
    BY UnitType, DivBounds, ShareType, FreeLimitType DEF TypeOK
  <1>2. (start \div U + 1 + Share) * U \in Int
    BY <1>1
  <1> QED
    BY <1>1, <1>2 DEF Stop

LEMMA NoTableType ==
  NoTable \in [Entries -> [sys : BOOLEAN, first : 0..Word-1, size : 0..Word-1]]
  <1>1. 0 \in 0..Word-1
    BY PartAssumption
  <1>2. [sys |-> FALSE, first |-> 0, size |-> 0]
           \in [sys : BOOLEAN, first : 0..Word-1, size : 0..Word-1]
    BY <1>1
  <1> QED
    BY <1>2 DEF NoTable

(* The variables keep their types; an entry fits its words. *)
THEOREM TypeCorrect == Spec => []TypeOK
  <1>1. Init => TypeOK
    <2>1. <<255, 63>> \in (Nat \ {0}) \X (Nat \ {0})
      OBVIOUS
    <2> SUFFICES ASSUME Init
                 PROVE  TypeOK
      OBVIOUS
    <2>2. table \in [Entries -> [sys : BOOLEAN, first : 0..Word-1, size : 0..Word-1]]
      BY NoTableType DEF Init
    <2>3. geometry \in (Nat \ {0}) \X (Nat \ {0})
      BY <2>1 DEF Init
    <2>4. pc = "idle" /\ read = FALSE /\ written = FALSE
      BY DEF Init
    <2>5. /\ parts \in Nat /\ sectorSize \in Nat \ {0} /\ total \in Nat
          /\ offset \in Nat /\ start \in Nat /\ n \in 0..4 /\ ret \in {0, -1}
      BY DEF Init
    <2> QED
      BY <2>2, <2>3, <2>4, <2>5 DEF TypeOK, MaxParts
  <1>2. TypeOK /\ [Next]_vars => TypeOK'
    <2> SUFFICES ASSUME TypeOK, [Next]_vars
                 PROVE  TypeOK'
      OBVIOUS
    <2> USE PartAssumption
    <2>1. CASE MakePart
      <3>1. parts' \in Nat /\ (pc' # "idle" => parts' \in 1..MaxParts)
        BY <2>1 DEF MakePart, TypeOK
      <3>2. table' \in [Entries -> [sys : BOOLEAN, first : 0..Word-1, size : 0..Word-1]]
        BY <2>1, NoTableType DEF MakePart, TypeOK
      <3>3. pc' \in {"idle", "geometry"} /\ written' \in BOOLEAN /\ ret' \in {0, -1}
        BY <2>1 DEF MakePart, TypeOK
      <3>4. UNCHANGED <<sectorSize, geometry, total, offset, n, start, read>>
        BY <2>1 DEF MakePart
      <3> QED
        BY <3>1, <3>2, <3>3, <3>4 DEF TypeOK
    <2>2. CASE get_geometry
      BY <2>2 DEF get_geometry, get_sectorsize, get_kernel_geometry,
                  blkdev_get_sectors, TypeOK, MaxParts
    <2>3. CASE Enter
      BY <2>3 DEF Enter, disk, TypeOK
    <2>4. CASE Search
      <3>1. Pass(start) \in Nat /\ Rounded(Pass(start)) \in Nat
        BY PassType, RoundedType DEF TypeOK
      <3>2. start' \in Nat /\ read' \in BOOLEAN /\ pc' \in {"search", "place"}
        BY <2>4, <3>1 DEF Search, TypeOK
      <3>3. UNCHANGED <<disk, offset, n, table, written, ret>> /\ pc = "search"
        BY <2>4 DEF Search
      <3> QED
        BY <3>2, <3>3 DEF TypeOK, disk
    <2>5. CASE Place
      <3>1. parts \in 1..MaxParts /\ n \in 0..parts-1 /\ pc = "place"
        BY <2>5 DEF Place, TypeOK
      <3>2. Stop \in Int /\ start \in Nat /\ Align \in Nat
        BY <3>1, StopInt DEF TypeOK
      <3>3. table' \in [Entries -> [sys : BOOLEAN, first : 0..Word-1, size : 0..Word-1]]
        <4>1. ASSUME NEW f \in Nat, set_partition(f, Stop)
              PROVE  table' \in [Entries -> [sys : BOOLEAN, first : 0..Word-1, size : 0..Word-1]]
          <5>1. Stored(f) \in 0..Word-1 /\ Stored(Stop - f + 1) \in 0..Word-1
            <6>1. f \in Int /\ Stop - f + 1 \in Int
              BY <3>2, <4>1
            <6> QED
              BY <6>1, ModRange DEF Stored
          <5> QED
            BY <4>1, <5>1 DEF set_partition, TypeOK
        <4> QED
          BY <2>5, <3>2, <4>1 DEF Place, TypeOK
      <3>4. offset' \in Nat
        BY <2>5 DEF Place, TypeOK
      <3>5. n' \in 0..MaxParts /\ (pc' \in {"add", "search", "place"} => n' \in 0..parts-1)
        BY <2>5, <3>1 DEF Place, MaxParts
      <3>6. UNCHANGED <<disk, start, read, written, ret>> /\ pc' \in {"write", "add"}
        BY <2>5 DEF Place
      <3> QED
        BY <3>1, <3>3, <3>4, <3>5, <3>6 DEF TypeOK, disk
    <2>6. CASE writeTable
      BY <2>6 DEF writeTable, disk, TypeOK
    <2>7. CASE reread_partition_table
      BY <2>7 DEF reread_partition_table, disk, TypeOK
    <2>8. CASE UNCHANGED vars
      BY <2>8 DEF vars, TypeOK
    <2> QED
      BY <2>1, <2>2, <2>3, <2>4, <2>5, <2>6, <2>7, <2>8 DEF Next
  <1> QED
    BY <1>1, <1>2, PTL DEF Spec
-----------------------------------------------------------------------------
(* One pass over the entries, as a function of the table alone. *)

TableType == [Entries -> [sys : BOOLEAN, first : 0..Word-1, size : 0..Word-1]]

Hop(tb, u, s, i) ==
    LET from == ((IF tb[i].sys THEN tb[i].first ELSE Word - 1) \div u) * u
        to == IF tb[i].sys THEN tb[i].first + tb[i].size - 1 ELSE 0
    IN IF from <= s /\ s <= to THEN to + 1 ELSE s

Trip(tb, u, s) == Hop(tb, u, Hop(tb, u, Hop(tb, u, Hop(tb, u, s, 0), 1), 2), 3)

(* A hop never goes back; it stays if the entry is empty or ends before, and
   from the first sector of a partition it goes to its end. *)
LEMMA HopFacts ==
  ASSUME NEW tb \in TableType, NEW u \in Nat \ {0}, NEW s \in Nat \ {0},
         NEW i \in Entries
  PROVE  /\ Hop(tb, u, s, i) \in Nat \ {0}
         /\ s <= Hop(tb, u, s, i)
         /\ ~tb[i].sys => Hop(tb, u, s, i) = s
         /\ tb[i].first + tb[i].size <= s => Hop(tb, u, s, i) = s
         /\ (tb[i].sys /\ s = tb[i].first)
               => Hop(tb, u, s, i) = tb[i].first + tb[i].size
  <1>1. tb[i].first \in Nat /\ tb[i].size \in Nat /\ tb[i].sys \in BOOLEAN
    BY PartAssumption DEF TableType
  <1>2. Word - 1 \in Nat
    BY PartAssumption
  <1> DEFINE b == IF tb[i].sys THEN tb[i].first ELSE Word - 1
             to == IF tb[i].sys THEN tb[i].first + tb[i].size - 1 ELSE 0
             from == (b \div u) * u
  <1>3. b \in Nat /\ to \in Int
    BY <1>1, <1>2
  <1>4. from \in Nat /\ from <= b
    BY <1>3, DivBounds
  <1>5. Hop(tb, u, s, i) = IF from <= s /\ s <= to THEN to + 1 ELSE s
    BY DEF Hop
  <1>6. tb[i].sys => b = tb[i].first /\ to = tb[i].first + tb[i].size - 1
    OBVIOUS
  <1>7. ~tb[i].sys => to = 0
    OBVIOUS
  <1> HIDE DEF from, b, to
  <1> QED
    BY <1>1, <1>3, <1>4, <1>5, <1>6, <1>7

LEMMA HopOver ==
  ASSUME NEW tb \in TableType, NEW u \in Nat \ {0}, NEW i \in Entries,
         tb[i].sys, tb[i].first # 0
  PROVE  Hop(tb, u, tb[i].first, i) = tb[i].first + tb[i].size
  <1> DEFINE s == tb[i].first
  <1>1. s \in Nat \ {0}
    BY PartAssumption DEF TableType
  <1>2. s = tb[i].first
    OBVIOUS
  <1> HIDE DEF s
  <1>3. Hop(tb, u, s, i) = tb[i].first + tb[i].size
    BY <1>1, <1>2, HopFacts
  <1> QED
    BY <1>2, <1>3

LEMMA HopEmpty ==
  ASSUME NEW tb \in TableType, NEW u \in Nat \ {0}, NEW s \in Nat \ {0},
         NEW i \in Entries, ~tb[i].sys
  PROVE  Hop(tb, u, s, i) = s
  BY HopFacts

LEMMA HopStays ==
  ASSUME NEW tb \in TableType, NEW u \in Nat \ {0}
  PROVE  \A i \in Entries, t \in Nat \ {0} :
            Hop(tb, u, t, i) \in Nat \ {0} /\ (~tb[i].sys => Hop(tb, u, t, i) = t)
  <1> SUFFICES ASSUME NEW i \in Entries, NEW t \in Nat \ {0}
               PROVE  Hop(tb, u, t, i) \in Nat \ {0} /\ (~tb[i].sys => Hop(tb, u, t, i) = t)
    OBVIOUS
  <1>1. Hop(tb, u, t, i) \in Nat \ {0}
    BY HopFacts
  <1>2. ~tb[i].sys => Hop(tb, u, t, i) = t
    BY HopEmpty
  <1> QED
    BY <1>1, <1>2

LEMMA TripType ==
  ASSUME NEW tb \in TableType, NEW u \in Nat \ {0}, NEW s \in Nat \ {0}
  PROVE  Trip(tb, u, s) \in Nat \ {0} /\ s <= Trip(tb, u, s)
  <1> DEFINE a == Hop(tb, u, s, 0)
             b == Hop(tb, u, a, 1)
             c == Hop(tb, u, b, 2)
             d == Hop(tb, u, c, 3)
  <1>1. a \in Nat \ {0} /\ s <= a
    BY HopFacts DEF Entries
  <1> HIDE DEF a
  <1>2. b \in Nat \ {0} /\ a <= b
    BY <1>1, HopFacts DEF Entries
  <1> HIDE DEF b
  <1>3. c \in Nat \ {0} /\ b <= c
    BY <1>2, HopFacts DEF Entries
  <1> HIDE DEF c
  <1>4. d \in Nat \ {0} /\ c <= d
    BY <1>3, HopFacts DEF Entries
  <1>5. Trip(tb, u, s) = d
    BY DEF Trip, a, b, c, d
  <1> HIDE DEF d
  <1> QED
    BY <1>1, <1>2, <1>3, <1>4, <1>5

(* A sector behind all partitions is where a pass from it ends. *)
LEMMA TripFixed ==
  ASSUME NEW tb \in TableType, NEW u \in Nat \ {0}, NEW s \in Nat \ {0},
         \A i \in Entries : tb[i].sys => tb[i].first + tb[i].size <= s
  PROVE  Trip(tb, u, s) = s
  <1>1. \A i \in Entries : Hop(tb, u, s, i) = s
    BY HopFacts, PartAssumption DEF TableType
  <1> QED
    BY <1>1 DEF Trip, Entries

(* A new partition that begins where the pass ended moves that place to its
   own end; the first one may begin anywhere. *)
LEMMA TripGrows ==
  ASSUME NEW tb \in TableType, NEW tb2 \in TableType, NEW u \in Nat \ {0},
         NEW s \in Nat \ {0}, NEW k \in Entries,
         \A i \in Entries : i >= k => ~tb[i].sys,
         \A i \in Entries \ {k} : tb2[i] = tb[i],
         tb2[k].sys, tb2[k].first = Trip(tb, u, s)
  PROVE  Trip(tb2, u, s) = tb2[k].first + tb2[k].size
  <1> DEFINE a == Hop(tb, u, s, 0)
             b == Hop(tb, u, a, 1)
             c == Hop(tb, u, b, 2)
             d == Hop(tb, u, c, 3)
             f == tb2[k].first
             e == tb2[k].first + tb2[k].size
  <1>1. \A i \in Entries \ {k}, t \in Nat \ {0} : Hop(tb2, u, t, i) = Hop(tb, u, t, i)
    BY DEF Hop
  <1>2. f = d
    BY DEF Trip
  <1>0. \A i \in Entries, t \in Nat \ {0} :
           Hop(tb, u, t, i) \in Nat \ {0} /\ (~tb[i].sys => Hop(tb, u, t, i) = t)
    BY HopStays
  <1>3. a \in Nat \ {0} /\ (~tb[0].sys => a = s)
    BY <1>0 DEF Entries
  <1> HIDE DEF a
  <1>4. b \in Nat \ {0} /\ (~tb[1].sys => b = a)
    BY <1>0, <1>3 DEF Entries
  <1> HIDE DEF b
  <1>5. c \in Nat \ {0} /\ (~tb[2].sys => c = b)
    BY <1>0, <1>4 DEF Entries
  <1> HIDE DEF c
  <1>6. d \in Nat \ {0} /\ (~tb[3].sys => d = c)
    BY <1>0, <1>5 DEF Entries
  <1> HIDE DEF d
  <1>7. f \in Nat \ {0} /\ e \in Nat \ {0}
    BY <1>2, <1>6, PartAssumption DEF TableType
  <1>8. Hop(tb2, u, f, k) = e
    BY <1>7, HopOver
  <1>9. \A i \in Entries : i > k => Hop(tb2, u, e, i) = e
    <2> SUFFICES ASSUME NEW i \in Entries, i > k
                 PROVE  Hop(tb2, u, e, i) = e
      OBVIOUS
    <2>1. i # k /\ i >= k
      BY DEF Entries
    <2>2. ~tb2[i].sys
      BY <2>1
    <2>3. e \in Nat \ {0}
      BY <1>7
    <2> HIDE DEF e, f
    <2> QED
      BY <2>2, <2>3, HopEmpty
  <1> HIDE DEF e, f
  <1>10. CASE k = 0
    <2>1. f = s
      BY <1>2, <1>3, <1>4, <1>5, <1>6, <1>10 DEF Entries
    <2> QED
      BY <2>1, <1>8, <1>9, <1>10 DEF Trip, Entries, e
  <1>11. CASE k = 1
    <2>1. f = a
      BY <1>2, <1>4, <1>5, <1>6, <1>11 DEF Entries
    <2>2. Hop(tb2, u, s, 0) = a
      BY <1>1, <1>11 DEF a, Entries
    <2> QED
      BY <2>1, <2>2, <1>8, <1>9, <1>11 DEF Trip, Entries, e
  <1>12. CASE k = 2
    <2>1. f = b
      BY <1>2, <1>5, <1>6, <1>12 DEF Entries
    <2>2. Hop(tb2, u, s, 0) = a
      BY <1>1, <1>12 DEF a, Entries
    <2>3. Hop(tb2, u, a, 1) = b
      BY <1>1, <1>3, <1>12 DEF b, Entries
    <2> QED
      BY <2>1, <2>2, <2>3, <1>8, <1>9, <1>12 DEF Trip, Entries, e
  <1>13. CASE k = 3
    <2>1. f = c
      BY <1>2, <1>6, <1>13 DEF Entries
    <2>2. Hop(tb2, u, s, 0) = a
      BY <1>1, <1>13 DEF a, Entries
    <2>3. Hop(tb2, u, a, 1) = b
      BY <1>1, <1>3, <1>13 DEF b, Entries
    <2>4. Hop(tb2, u, b, 2) = c
      BY <1>1, <1>4, <1>13 DEF c, Entries
    <2> QED
      BY <2>1, <2>2, <2>3, <2>4, <1>8, <1>13 DEF Trip, Entries, e
  <1> QED
    BY <1>10, <1>11, <1>12, <1>13 DEF Entries

LEMMA PassIsTrip ==
  ASSUME TypeOK, NEW s \in Nat \ {0}
  PROVE  Pass(s) = Trip(table, U, s)
  <1>1. table \in TableType /\ U \in Nat \ {0}
    BY UnitType DEF TypeOK, TableType
  <1>2. \A t \in Nat \ {0}, i \in Entries : Skip(t, i) = Hop(table, U, t, i)
    <2>1. ASSUME NEW t \in Nat \ {0}, NEW i \in Entries
          PROVE  Skip(t, i) = Hop(table, U, t, i)
      BY DEF Skip, Hop, First, Begin, Last
    <2> QED
      BY <2>1
  <1>3. \A t \in Nat \ {0}, i \in Entries : Hop(table, U, t, i) \in Nat \ {0}
    BY <1>1, HopFacts
  <1> QED
    BY <1>2, <1>3 DEF Pass, Trip, Entries

-----------------------------------------------------------------------------
(* The inductive invariant.  The partitions that are made lie before the    *)
(* sector where a pass from offset ends, and the search ends there.        *)

(* Where an empty entry seems to begin. *)
Reach == ((Word - 1) \div U) * U
Free == Trip(table, U, offset)

Ahead ==
    /\ geometry \in Geometries /\ offset # 0
    /\ \A i \in Entries : i >= n => ~table[i].sys
    /\ \A i \in Entries : table[i].sys => End(i) <= Free
    /\ Free < Reach

Within == \A i \in Entries : table[i].sys => End(i) <= U * cylinders

Apart ==
    \A i, j \in Entries :
        (i < j /\ table[i].sys /\ table[j].sys) => End(i) <= table[j].first

PartInv ==
    /\ pc = "geometry" => table = NoTable
    /\ Roomy =>
          /\ pc \in {"add", "search", "place"} => Ahead
          /\ pc = "search" => start \in {offset, Free} /\ (read => start = Free)
          /\ pc = "place" => start = Free
          /\ Within
          /\ Apart

LEMMA ReachFacts ==
  ASSUME TypeOK, geometry \in Geometries
  PROVE  /\ Reach \in Nat /\ Reach < Word
         /\ Align + 2 <= Reach /\ U < Reach /\ geometry[2] <= U
         /\ U < Word
  <1>1. U \in Nat \ {0} /\ Word \in Nat \ {0} /\ Align \in Nat \ {0}
    BY UnitType, PartAssumption
  <1>2. 2 * U < Word /\ U + Align + 2 <= Word
    BY PartAssumption DEF U
  <1>3. Word - 1 \in Nat
    BY <1>1
  <1>4. Reach \in Nat /\ Reach <= Word - 1 /\ Word - 1 < Reach + U
    BY <1>1, <1>3, DivBounds DEF Reach
  <1>5. geometry[1] \in Nat \ {0} /\ geometry[2] \in Nat \ {0}
    BY DEF TypeOK
  <1>6. 1 * geometry[2] <= geometry[1] * geometry[2]
    BY <1>5, MulMono
  <1>7. geometry[2] <= U
    BY <1>5, <1>6 DEF U
  <1> QED
    BY <1>1, <1>2, <1>4, <1>7

(* The sectors of whole cylinders: fewer than the disk has, at least those of
   one share, and one more than the limit. *)
LEMMA CylinderFacts ==
  ASSUME TypeOK, Roomy
  PROVE  /\ U * cylinders \in Nat
         /\ (U * cylinders) * sectorSize <= total
         /\ Align + 2 <= U * cylinders
         /\ partCyls <= Share
         /\ geometry \in Geometries => Limit = U * cylinders - 1
  <1>1. /\ U \in Nat \ {0} /\ Word \in Nat \ {0} /\ Align \in Nat \ {0}
        /\ sectorSize \in Nat \ {0} /\ U * sectorSize \in Nat \ {0} /\ total \in Nat
    BY UnitType, PartAssumption DEF TypeOK
  <1>2. /\ cylinders \in Nat /\ partCyls \in Nat /\ Share \in Int
        /\ partCyls * parts <= cylinders /\ parts \in 1..4
    BY StopType, ShareType DEF Roomy, MaxParts, Entries
  <1>3. cylinders <= total \div (U * sectorSize) /\ cylinders <= Word - 1
    <2>1. total \div (U * sectorSize) \in Nat
      BY <1>1, DivBounds
    <2> QED
      BY <1>1, <2>1 DEF cylinders
  <1>4. U * cylinders \in Nat
    BY <1>1, <1>2, MulMono
  <1>5. (U * cylinders) * sectorSize <= total
    <2> DEFINE w == U * sectorSize
               c == cylinders
               q == total \div w
    <2>1. q \in Nat /\ q * w <= total /\ w \in Nat \ {0}
      BY <1>1, DivBounds
    <2>2. c \in Nat /\ c <= q
      BY <1>2, <1>3
    <2> HIDE DEF q, c
    <2>3. c * w <= q * w /\ c * w \in Nat
      BY <2>1, <2>2, MulMono
    <2>4. (U * c) * sectorSize = c * w
      BY <1>1, <2>2
    <2> HIDE DEF w
    <2>5. (U * c) * sectorSize <= total
      BY <1>1, <2>1, <2>3, <2>4
    <2> QED
      BY <2>5 DEF c
  <1>6. partCyls <= partCyls * parts /\ partCyls * parts \in Nat
    BY <1>2, MulMono
  <1>7. Align + 2 <= U * cylinders
    <2>1. partCyls <= cylinders
      BY <1>2, <1>6
    <2>2. partCyls * U <= cylinders * U /\ partCyls * U \in Nat /\ cylinders * U \in Nat
      BY <1>1, <1>2, <2>1, MulMono
    <2>3. cylinders * U = U * cylinders
      BY <1>1, <1>2
    <2> QED
      BY <1>1, <2>2, <2>3 DEF Roomy
  <1>8. partCyls <= Share
    <2>1. partCyls * (parts - 1) = partCyls * parts - partCyls
      BY <1>2
    <2> QED
      BY <1>2, <1>6, <2>1 DEF Share
  <1>9. ASSUME geometry \in Geometries
        PROVE  Limit = U * cylinders - 1
    <2>1. U <= Word
      BY <1>1, <1>9, ReachFacts
    <2>2. U * cylinders <= Word * cylinders
      BY <1>1, <1>2, <2>1, MulMono
    <2>3. Word * cylinders <= Word * Word /\ Word * Word \in Nat \ {0}
      BY <1>1, <1>2, <1>3, MulMono, MulPositive
    <2>4. Word * cylinders \in Nat
      BY <1>1, <1>2, MulMono
    <2>5. U * cylinders - 1 \in 0..(Word * Word) - 1
      BY <1>1, <1>4, <1>7, <2>2, <2>3, <2>4
    <2> QED
      BY <2>3, <2>5, ModSmall DEF Limit
  <1> QED
    BY <1>4, <1>5, <1>7, <1>8, <1>9

(* A cut lowers a limit; an empty entry brings it below Reach. *)
LEMMA CutFacts ==
  ASSUME TypeOK, start < Reach, geometry \in Geometries,
         NEW l \in Int, NEW i \in Entries
  PROVE  /\ CutAt(l, i) \in Int /\ CutAt(l, i) <= l
         /\ ~table[i].sys => CutAt(l, i) <= Reach - 1
         /\ (~table[i].sys /\ Align + 1 <= l) => Align + 1 <= CutAt(l, i)
  <1>1. start \in Nat /\ First(i) \in Nat /\ Reach \in Nat
    BY StopType, ReachFacts DEF TypeOK
  <1>2. ~table[i].sys => First(i) = Reach
    BY DEF First, Begin, Reach
  <1>3. Align + 2 <= Reach /\ Align \in Nat
    BY ReachFacts, PartAssumption
  <1> QED
    BY <1>1, <1>2, <1>3 DEF CutAt

LEMMA FreeLimitFacts ==
  ASSUME TypeOK, Roomy, start < Reach, geometry \in Geometries,
         NEW k \in Entries, ~table[k].sys
  PROVE  /\ FreeLimit \in Int
         /\ FreeLimit <= U * cylinders - 1
         /\ FreeLimit <= Reach - 1
         /\ (\A i \in Entries : ~table[i].sys) => Align + 1 <= FreeLimit
  <1> DEFINE a == CutAt(Limit, 0)
             b == CutAt(a, 1)
             c == CutAt(b, 2)
             d == CutAt(c, 3)
  <1>0. 0 \in Entries /\ 1 \in Entries /\ 2 \in Entries /\ 3 \in Entries
    BY DEF Entries
  <1>1. Limit = U * cylinders - 1 /\ Limit \in Int /\ Align + 1 <= Limit
    BY CylinderFacts, StopType, <1>0, PartAssumption
  <1>2. /\ a \in Int /\ a <= Limit
        /\ ~table[0].sys => a <= Reach - 1
        /\ ~table[0].sys => Align + 1 <= a
    BY <1>0, <1>1, CutFacts
  <1> HIDE DEF a
  <1>3. /\ b \in Int /\ b <= a
        /\ ~table[1].sys => b <= Reach - 1
        /\ (~table[1].sys /\ Align + 1 <= a) => Align + 1 <= b
    BY <1>0, <1>2, CutFacts
  <1> HIDE DEF b
  <1>4. /\ c \in Int /\ c <= b
        /\ ~table[2].sys => c <= Reach - 1
        /\ (~table[2].sys /\ Align + 1 <= b) => Align + 1 <= c
    BY <1>0, <1>3, CutFacts
  <1> HIDE DEF c
  <1>5. /\ d \in Int /\ d <= c
        /\ ~table[3].sys => d <= Reach - 1
        /\ (~table[3].sys /\ Align + 1 <= c) => Align + 1 <= d
    BY <1>0, <1>4, CutFacts
  <1>6. FreeLimit = d
    BY DEF FreeLimit, a, b, c, d
  <1> HIDE DEF d
  <1>7. k = 0 \/ k = 1 \/ k = 2 \/ k = 3
    BY DEF Entries
  <1>8. Reach \in Nat
    BY ReachFacts
  <1>9. d <= Limit /\ d <= Reach - 1
    BY <1>1, <1>2, <1>3, <1>4, <1>5, <1>7, <1>8
  <1>10. ASSUME \A i \in Entries : ~table[i].sys
         PROVE  Align + 1 <= d
    <2>1. ~table[0].sys /\ ~table[1].sys /\ ~table[2].sys /\ ~table[3].sys
      BY <1>0, <1>10
    <2> QED
      BY <2>1, <1>2, <1>3, <1>4, <1>5
  <1> QED
    BY <1>1, <1>5, <1>6, <1>9, <1>10

LEMMA FreeType ==
  ASSUME TypeOK, offset # 0
  PROVE  table \in TableType /\ U \in Nat \ {0} /\ offset \in Nat \ {0} /\ Free \in Nat \ {0}
  <1>1. table \in TableType /\ U \in Nat \ {0} /\ offset \in Nat \ {0}
    BY UnitType DEF TypeOK, TableType
  <1> QED
    BY <1>1, TripType DEF Free

(* The entry made at start fits its words and ends by the limit. *)
LEMMA StopFacts ==
  ASSUME TypeOK, Roomy, Ahead, pc = "place", start = Free, start <= FreeLimit,
         NEW f, f = IF n = 0 THEN Align ELSE start
  PROVE  /\ f \in 1..Word-1
         /\ Stop - f + 1 \in 0..Word-1
         /\ Stop + 1 <= U * cylinders
         /\ Stop + 1 < Reach
         /\ start <= Stop + 1 /\ Stop \in Int
  <1>1. /\ n \in 0..parts-1 /\ parts \in 1..4 /\ start \in Nat /\ geometry \in Geometries
        /\ start < Reach
    BY DEF TypeOK, Ahead, Roomy, MaxParts
  <1>2. n \in Entries /\ ~table[n].sys
    BY <1>1 DEF Ahead, Entries
  <1>3. /\ FreeLimit \in Int /\ FreeLimit <= U * cylinders - 1 /\ FreeLimit <= Reach - 1
        /\ n = 0 => Align + 1 <= FreeLimit
    <2>1. n = 0 => \A i \in Entries : ~table[i].sys
      BY DEF Ahead, Entries
    <2> QED
      BY <1>1, <1>2, <2>1, FreeLimitFacts
  <1>4. /\ Reach \in Nat /\ Reach < Word /\ Align + 2 <= Reach
        /\ Word \in Nat /\ Align \in Nat \ {0}
    BY <1>1, ReachFacts, PartAssumption
  <1> DEFINE q == start \div U
             last == (q + 1 + Share) * U - 1
  <1>5. /\ U \in Nat \ {0} /\ q \in Nat /\ q * U \in Nat /\ start < q * U + U
    BY <1>1, UnitType, DivBounds
  <1>6. /\ partCyls \in Nat /\ Share \in Int /\ partCyls <= Share
        /\ Align + 2 <= partCyls * U /\ U * cylinders \in Nat
    BY <1>1, ShareType, CylinderFacts DEF Roomy, MaxParts
  <1>7. Stop = IF q = FreeLimit \div U \/ last > FreeLimit THEN FreeLimit - 1 ELSE last - 1
    BY DEF Stop
  <1> HIDE DEF q
  <1>8. last \in Int /\ start <= last /\ Align + 1 <= last
    <2>1. (q + 1 + Share) * U = q * U + U + Share * U
      BY <1>5, <1>6
    <2>2. partCyls * U <= Share * U /\ partCyls * U \in Nat /\ Share * U \in Nat
      BY <1>5, <1>6, MulMono
    <2> QED
      BY <1>1, <1>4, <1>5, <1>6, <2>1, <2>2
  <1> HIDE DEF last
  <1>9. /\ Stop \in Int /\ Stop <= FreeLimit - 1 /\ start <= Stop + 1
        /\ n = 0 => Align <= Stop
    BY <1>1, <1>3, <1>4, <1>7, <1>8
  <1>10. f \in 1..Word-1 /\ f <= Stop + 1
    <2>1. CASE n = 0
      BY <2>1, <1>4, <1>9
    <2>2. CASE n # 0
      <3>1. f = start /\ start # 0
        BY <2>2, FreeType DEF Ahead
      <3> QED
        BY <3>1, <1>1, <1>4, <1>9
    <2> QED
      BY <2>1, <2>2
  <1>11. Stop + 1 <= U * cylinders /\ Stop + 1 < Reach
    BY <1>3, <1>4, <1>6, <1>9
  <1>12. Stop - f + 1 \in 0..Word-1
    BY <1>4, <1>9, <1>10, <1>11
  <1> QED
    BY <1>9, <1>10, <1>11, <1>12

-----------------------------------------------------------------------------
(* The steps keep the invariant. *)

(* As long as the disk is the same, so are its shares. *)
LEMMA SameDisk ==
  ASSUME UNCHANGED disk
  PROVE  /\ Roomy' <=> Roomy
         /\ U' = U /\ (U * cylinders)' = U * cylinders
  BY DEF disk, Roomy, partCyls, cylinders, U

LEMMA SameTable ==
  ASSUME UNCHANGED <<disk, offset, n, table>>
  PROVE  /\ (Roomy' <=> Roomy) /\ Free' = Free
         /\ (Ahead' <=> Ahead) /\ (Within' <=> Within) /\ (Apart' <=> Apart)
  <1>1. table' = table /\ n' = n /\ offset' = offset /\ geometry' = geometry
    BY DEF disk
  <1>2. U' = U /\ (U * cylinders)' = U * cylinders /\ (Roomy' <=> Roomy)
    BY SameDisk
  <1>3. Free' = Free /\ Reach' = Reach
    BY <1>1, <1>2 DEF Free, Reach
  <1>4. \A i : End(i)' = End(i)
    BY <1>1 DEF End
  <1>5. Ahead' <=> Ahead
    BY <1>1, <1>3, <1>4 DEF Ahead
  <1>6. Within' <=> Within
    BY <1>1, <1>2, <1>4 DEF Within
  <1>7. Apart' <=> Apart
    BY <1>1, <1>4 DEF Apart
  <1> QED
    BY <1>2, <1>3, <1>5, <1>6, <1>7

LEMMA StartsEmpty ==
  ASSUME TypeOK, TypeOK', get_geometry, PartInv
  PROVE  PartInv' /\ Free' = geometry'[2]
  <1>1. table' = NoTable /\ n' = 0 /\ offset' = geometry'[2] /\ geometry' \in Geometries
    BY DEF get_geometry, get_kernel_geometry, PartInv
  <1>2. \A i \in Entries : ~table'[i].sys
    BY <1>1 DEF NoTable
  <1>3. offset' \in Nat \ {0} /\ U' \in Nat \ {0} /\ table' \in TableType
    <2>1. offset' \in Nat \ {0} /\ table' \in TableType
      BY <1>1 DEF TypeOK, TableType
    <2>2. (U \in Nat \ {0})'
      BY UnitType, PTL
    <2> QED
      BY <2>1, <2>2
  <1>4. Free' = offset'
    <2>1. Trip(table', U', offset') = offset'
      BY <1>2, <1>3, TripFixed
    <2> QED
      BY <2>1 DEF Free
  <1>5. offset' < Reach'
    <2>1. (/\ Reach \in Nat /\ Reach < Word
           /\ Align + 2 <= Reach /\ U < Reach /\ geometry[2] <= U
           /\ U < Word)'
      <3>1. (geometry \in Geometries)'
        BY <1>1
      <3> QED
        BY <3>1, ReachFacts, PTL
    <2> QED
      BY <1>1, <1>3, <2>1
  <1>6. Ahead'
    BY <1>1, <1>2, <1>3, <1>4, <1>5 DEF Ahead
  <1>7. Within' /\ Apart'
    BY <1>2 DEF Within, Apart
  <1>8. pc' = "add"
    BY DEF get_geometry
  <1> QED
    BY <1>1, <1>4, <1>6, <1>7, <1>8 DEF PartInv

(* The search goes from offset to Free and stays there. *)
LEMMA SearchStep ==
  ASSUME TypeOK, Search, PartInv
  PROVE  PartInv'
  <1>1. /\ UNCHANGED <<disk, offset, n, table>> /\ pc = "search"
        /\ pc' \in {"search", "place"}
    BY DEF Search
  <1>2. Roomy' <=> Roomy
    BY <1>1, SameDisk
  <1>3. CASE ~Roomy
    BY <1>1, <1>2, <1>3 DEF PartInv
  <1>4. CASE Roomy
    <2>1. /\ Ahead /\ start \in {offset, Free} /\ (read => start = Free)
          /\ Within /\ Apart
      BY <1>1, <1>4 DEF PartInv
    <2>2. Free' = Free /\ Ahead' /\ Within' /\ Apart'
      BY <1>1, <2>1, SameTable
    <2>3. /\ table \in TableType /\ U \in Nat \ {0} /\ offset \in Nat \ {0}
          /\ Free \in Nat \ {0} /\ start \in Nat \ {0} /\ Free < Reach
      BY <2>1, FreeType DEF Ahead
    <2>4. Trip(table, U, start) = Free
      <3>1. CASE start = offset
        BY <3>1 DEF Free
      <3>2. CASE start = Free
        <4>1. \A i \in Entries : table[i].sys => table[i].first + table[i].size <= start
          BY <2>1, <3>2 DEF Ahead, End
        <4> QED
          BY <2>3, <3>2, <4>1, TripFixed
      <3> QED
        BY <2>1, <3>1, <3>2
    <2>5. Pass(start) = Free
      BY <2>3, <2>4, PassIsTrip
    <2>6. Rounded(Free) = Free
      <3>1. Reach \in Nat /\ Reach < Word /\ Word \in Nat \ {0}
        BY <2>1, ReachFacts, PartAssumption DEF Ahead
      <3>2. Free % Word = Free
        BY <2>3, <3>1, ModSmall
      <3>3. (Free \div U) * U \in Nat /\ (Free \div U) * U <= Free
        BY <2>3, DivBounds
      <3> QED
        BY <2>3, <3>2, <3>3 DEF Rounded
    <2>7. start' = Free
      BY <2>5, <2>6 DEF Search
    <2> QED
      BY <1>1, <2>2, <2>7 DEF PartInv
  <1> QED
    BY <1>3, <1>4

(* What an entry that is made changes: it begins behind the others, ends by
   the limit, and the next free sector is behind it. *)
LEMMA EntryMade ==
  ASSUME TypeOK, TypeOK', Place, PartInv, Roomy, start <= FreeLimit
  PROVE  /\ Ahead' /\ Within' /\ Apart'
         /\ Free' = Stop + 1 /\ Stop \in Int
         /\ LET from == IF n = 0 THEN Align ELSE start
            IN  table' = [table EXCEPT ![n] = [sys |-> TRUE, first |-> from,
                                               size |-> Stop - from + 1]]
  <1> DEFINE f == IF n = 0 THEN Align ELSE start
             size == Stop - f + 1
  <1>1. /\ Ahead /\ Within /\ Apart /\ start = Free
        /\ pc = "place" /\ UNCHANGED disk /\ n' = n + 1
        /\ offset' = (IF n = 0 THEN Align ELSE offset)
        /\ set_partition(f, Stop)
    <2>1. ~(start > FreeLimit)
      BY FreeLimitType DEF TypeOK
    <2>2. /\ UNCHANGED disk /\ n' = n + 1 /\ pc = "place"
          /\ offset' = (IF n = 0 THEN Align ELSE offset)
          /\ set_partition(f, Stop)
      BY <2>1 DEF Place
    <2> QED
      BY <2>2 DEF PartInv
  <1>2. /\ f \in 1..Word-1 /\ size \in 0..Word-1
        /\ Stop + 1 <= U * cylinders /\ Stop + 1 < Reach
        /\ start <= Stop + 1 /\ Stop \in Int
    BY <1>1, StopFacts
  <1>3. n = 0 => f = Align
    OBVIOUS
  <1>4. n # 0 => f = start
    OBVIOUS
  <1>5. size = Stop - f + 1
    OBVIOUS
  <1> HIDE DEF f, size
  <1>6. /\ n \in Entries /\ Word \in Nat \ {0} /\ start \in Nat /\ parts \in 1..4
        /\ n \in 0..parts-1
    BY <1>1, PartAssumption DEF TypeOK, Roomy, MaxParts, Entries
  <1>7. table' = [table EXCEPT ![n] = [sys |-> TRUE, first |-> f, size |-> size]]
    <2>1. Stored(f) = f /\ Stored(size) = size
      BY <1>2, <1>6, ModSmall DEF Stored
    <2> QED
      BY <1>1, <1>5, <2>1 DEF set_partition
  <1>8. /\ table \in TableType /\ table' \in TableType /\ U \in Nat \ {0}
        /\ offset \in Nat \ {0} /\ Align \in Nat \ {0} /\ geometry \in Geometries
    BY <1>1, FreeType, PartAssumption DEF Ahead, TypeOK, TableType
  <1>9. table'[n] = [sys |-> TRUE, first |-> f, size |-> size]
    BY <1>6, <1>7, <1>8 DEF TableType
  <1>10. \A i \in Entries \ {n} : table'[i] = table[i]
    BY <1>7, <1>8 DEF TableType
  <1>11. \A i \in Entries : i >= n => ~table[i].sys
    BY <1>1 DEF Ahead
  <1>12. f + size = Stop + 1
    BY <1>2, <1>5
  <1>13. \A i \in Entries : i < n => (table[i].sys => End(i) <= f)
    BY <1>1, <1>4 DEF Ahead, Entries
  <1>14. Trip(table', U, offset') = Stop + 1
    <2>1. /\ table'[n].sys /\ table'[n].first = f /\ table'[n].size = size
      BY <1>9
    <2>2. offset' \in Nat \ {0}
      BY <1>1, <1>8
    <2>3. f = Trip(table, U, offset')
      <3>1. CASE n = 0
        <4>1. \A i \in Entries : ~table[i].sys
          BY <1>11, <3>1 DEF Entries
        <4>2. Trip(table, U, Align) = Align
          BY <1>8, <4>1, TripFixed
        <4> QED
          BY <1>1, <1>3, <3>1, <4>2
      <3>2. CASE n # 0
        BY <1>1, <1>4, <3>2 DEF Free
      <3> QED
        BY <3>1, <3>2
    <2>4. Trip(table', U, offset') = table'[n].first + table'[n].size
      BY <1>6, <1>8, <1>10, <1>11, <2>1, <2>2, <2>3, TripGrows
    <2> QED
      BY <1>12, <2>1, <2>4
  <1>15. Free' = Stop + 1 /\ Reach' = Reach /\ U' = U /\ (U * cylinders)' = U * cylinders
         /\ geometry' = geometry
    <2>1. U' = U /\ (U * cylinders)' = U * cylinders /\ geometry' = geometry
      BY <1>1, SameDisk DEF disk
    <2>2. Reach' = Reach
      BY <2>1 DEF Reach
    <2> QED
      BY <1>14, <2>1, <2>2 DEF Free
  <1>16. \A i \in Entries : i >= n' => ~table'[i].sys
    BY <1>1, <1>6, <1>10, <1>11 DEF Entries
  <1>17. ASSUME NEW i \in Entries, table'[i].sys
         PROVE  /\ End(i)' <= Stop + 1
                /\ i # n => i < n /\ table[i].sys /\ End(i)' <= f
    <2>1. CASE i = n
      BY <1>2, <1>9, <1>12, <2>1 DEF End
    <2>2. CASE i # n
      <3>1. table'[i] = table[i] /\ table[i].sys
        BY <1>10, <1>17, <2>2
      <3>2. End(i)' = End(i) /\ End(i) \in Nat /\ f \in Nat
        BY <1>2, <1>6, <1>8, <3>1 DEF End, TableType
      <3>3. i < n
        BY <1>6, <1>11, <3>1, <2>2 DEF Entries
      <3>4. End(i) <= f
        BY <1>13, <3>1, <3>3
      <3>5. f <= Stop + 1
        BY <1>2, <1>5
      <3> QED
        BY <1>2, <2>2, <3>1, <3>2, <3>3, <3>4, <3>5
    <2> QED
      BY <2>1, <2>2
  <1>18. offset' # 0
    BY <1>1, <1>8
  <1>19. Ahead'
    BY <1>2, <1>8, <1>15, <1>16, <1>17, <1>18 DEF Ahead
  <1>20. Within'
    <2> SUFFICES ASSUME NEW i \in Entries, table'[i].sys
                 PROVE  End(i)' <= (U * cylinders)'
      BY DEF Within
    <2>1. End(i)' <= Stop + 1
      BY <1>17
    <2>2. End(i)' \in Int
      BY <1>8 DEF End, TableType
    <2>3. U * cylinders \in Nat
      BY CylinderFacts
    <2> QED
      BY <1>2, <1>15, <2>1, <2>2, <2>3
  <1>21. Apart'
    <2> SUFFICES ASSUME NEW i \in Entries, NEW j \in Entries,
                        i < j, table'[i].sys, table'[j].sys
                 PROVE  End(i)' <= table'[j].first
      BY DEF Apart
    <2>1. CASE j = n
      <3>1. i # n
        BY <1>6, <2>1 DEF Entries
      <3> QED
        BY <1>9, <1>17, <2>1, <3>1
    <2>2. CASE j # n
      <3>1. j < n /\ table[j].sys
        BY <1>17, <2>2
      <3>2. i # n
        BY <1>6, <3>1 DEF Entries
      <3>3. table[i].sys /\ table'[i] = table[i] /\ table'[j] = table[j]
        BY <1>10, <1>17, <2>2, <3>2
      <3> QED
        BY <1>1, <3>1, <3>3 DEF Apart, End
    <2> QED
      BY <2>1, <2>2
  <1>22. f = IF n = 0 THEN Align ELSE start
    BY DEF f
  <1> QED
    BY <1>2, <1>5, <1>7, <1>15, <1>19, <1>20, <1>21, <1>22

LEMMA PlaceStep ==
  ASSUME TypeOK, TypeOK', Place, PartInv
  PROVE  PartInv'
  <1>1. UNCHANGED disk /\ pc = "place" /\ pc' \in {"add", "write"} /\ n' = n + 1
    BY DEF Place
  <1>2. Roomy' <=> Roomy
    BY <1>1, SameDisk
  <1>3. CASE ~Roomy
    BY <1>1, <1>2, <1>3 DEF PartInv
  <1>4. CASE Roomy /\ start <= FreeLimit
    BY <1>1, <1>4, EntryMade DEF PartInv
  <1>5. CASE Roomy /\ ~(start <= FreeLimit)
    <2>1. UNCHANGED <<table, offset>>
      BY <1>5, FreeLimitType DEF Place, TypeOK
    <2>2. Ahead /\ Within /\ Apart
      BY <1>1, <1>5 DEF PartInv
    <2>3. n \in Nat
      BY DEF TypeOK
    <2>4. Ahead' /\ Within' /\ Apart'
      BY <1>1, <2>1, <2>2, <2>3
         DEF Ahead, Within, Apart, Free, Reach, U, cylinders, End, disk, Entries
    <2> QED
      BY <1>1, <2>4 DEF PartInv
  <1> QED
    BY <1>3, <1>4, <1>5

(* The invariant holds: what addPartition has made lies before the sector it
   will find next. *)
THEOREM PartInvHolds == Spec => []PartInv
  <1>1. Init => PartInv
    <2>1. \A i \in Entries : ~NoTable[i].sys
      BY DEF NoTable
    <2> QED
      BY <2>1 DEF Init, PartInv, Within, Apart
  <1>2. PartInv /\ TypeOK /\ TypeOK' /\ [Next]_vars => PartInv'
    <2> SUFFICES ASSUME PartInv, TypeOK, TypeOK', [Next]_vars
                 PROVE  PartInv'
      OBVIOUS
    <2>1. CASE MakePart
      <3>1. CASE parts' \notin 1..MaxParts
        BY <2>1, <3>1 DEF MakePart, PartInv, Roomy
      <3>2. CASE parts' \in 1..MaxParts
        <4>1. table' = NoTable /\ pc' \in {"geometry", "idle"}
          BY <2>1, <3>2 DEF MakePart
        <4>2. \A i \in Entries : ~table'[i].sys
          BY <4>1 DEF NoTable
        <4>3. Within' /\ Apart'
          BY <4>2 DEF Within, Apart
        <4> QED
          BY <4>1, <4>3 DEF PartInv
      <3> QED
        BY <3>1, <3>2
    <2>2. CASE get_geometry
      BY <2>2, StartsEmpty
    <2>3. CASE Enter
      <3>1. /\ UNCHANGED <<disk, offset, n, table>> /\ start' = offset /\ read' = FALSE
            /\ pc = "add" /\ pc' = "search"
        BY <2>3 DEF Enter
      <3>2. /\ (Roomy' <=> Roomy) /\ Free' = Free
            /\ (Ahead' <=> Ahead) /\ (Within' <=> Within) /\ (Apart' <=> Apart)
        BY <3>1, SameTable
      <3> QED
        BY <3>1, <3>2 DEF PartInv
    <2>4. CASE Search
      BY <2>4, SearchStep
    <2>5. CASE Place
      BY <2>5, PlaceStep
    <2>6. CASE writeTable \/ reread_partition_table \/ UNCHANGED vars
      <3>1. UNCHANGED <<disk, offset, n, start, read, table>>
        BY <2>6 DEF writeTable, reread_partition_table, vars, disk
      <3>2. pc' = pc \/ pc' \in {"reread", "idle"}
        BY <2>6 DEF writeTable, reread_partition_table, vars
      <3>3. /\ (Roomy' <=> Roomy) /\ Free' = Free
            /\ (Ahead' <=> Ahead) /\ (Within' <=> Within) /\ (Apart' <=> Apart)
        BY <3>1, SameTable
      <3> QED
        BY <3>1, <3>2, <3>3 DEF PartInv
    <2> QED
      BY <2>1, <2>2, <2>3, <2>4, <2>5, <2>6 DEF Next
  <1> QED
    BY <1>1, <1>2, TypeCorrect, PTL DEF Spec

(* addPartition gives no sector to two partitions: no two entries of the
   table overlap, at any time of a call and after it. *)
THEOREM PartitionsDisjoint == Spec => []Disjoint
  <1>1. PartInv => Disjoint
    BY DEF PartInv, Apart, Disjoint
  <1> QED
    BY <1>1, PartInvHolds, PTL

(* No entry that addPartition makes ends behind the last sector of the disk. *)
THEOREM PartitionsInside == Spec => []InsideDisk
  <1>1. TypeOK /\ PartInv => InsideDisk
    <2> SUFFICES ASSUME TypeOK, PartInv, Roomy,
                        NEW i \in Entries, table[i].sys
                 PROVE  End(i) * sectorSize <= total
      BY DEF InsideDisk
    <2>1. End(i) <= U * cylinders
      BY DEF PartInv, Within
    <2>2. End(i) \in Nat /\ sectorSize \in Nat /\ total \in Nat
      BY PartAssumption DEF TypeOK, End
    <2>3. U * cylinders \in Nat /\ (U * cylinders) * sectorSize <= total
      BY CylinderFacts
    <2>4. /\ End(i) * sectorSize <= (U * cylinders) * sectorSize
          /\ End(i) * sectorSize \in Nat /\ (U * cylinders) * sectorSize \in Nat
      BY <2>1, <2>2, <2>3, MulMono
    <2> QED
      BY <2>2, <2>3, <2>4
  <1> QED
    BY <1>1, TypeCorrect, PartInvHolds, PTL

-----------------------------------------------------------------------------
(* All partitions are made.  The places where they begin and end are known in  *)
(* advance, as long as the limit is that of the disk and not that of a word.   *)

LEMMA DivIs ==
  ASSUME NEW a \in Nat, NEW b \in Nat \ {0}, NEW q \in Nat, q * b <= a, a < q * b + b
  PROVE  a \div b = q
  <1> DEFINE r == a \div b
  <1>1. r \in Nat /\ r * b \in Nat /\ r * b <= a /\ a < r * b + b
    BY DivBounds
  <1> HIDE DEF r
  <1>2. q * b \in Nat
    BY MulMono
  <1>3. ASSUME r < q PROVE FALSE
    <2>1. (r + 1) * b <= q * b
      BY <1>1, <1>3, MulMono
    <2>2. (r + 1) * b = r * b + b
      BY <1>1
    <2> QED
      BY <1>1, <1>2, <2>1, <2>2
  <1>4. ASSUME q < r PROVE FALSE
    <2>1. (q + 1) * b <= r * b
      BY <1>1, <1>4, MulMono
    <2>2. (q + 1) * b = q * b + b
      OBVIOUS
    <2> QED
      BY <1>1, <1>2, <2>1, <2>2
  <1>5. r = q
    BY <1>1, <1>3, <1>4
  <1> QED
    BY <1>5 DEF r

Fits ==
    /\ Roomy
    /\ U * cylinders <= Reach
    /\ parts = 1 \/ cylinders - partCyls * (parts - 1) > 1

(* With a single head the search starts in the second cylinder. *)
Shift == geometry[2] \div U
(* Where partition k begins, from the second on, and the one before it ends. *)
Mark(k) == (Shift + 1 + k * partCyls) * U - 1

LEMMA ShiftFacts ==
  ASSUME TypeOK, Roomy, geometry \in Geometries
  PROVE  /\ Shift \in {0, 1}
         /\ Shift = 1 => 3 <= partCyls
         /\ geometry[2] \in Nat \ {0} /\ geometry[2] < U * cylinders - 1
  <1>1. /\ geometry[1] \in Nat \ {0} /\ geometry[2] \in Nat \ {0} /\ U \in Nat \ {0}
        /\ geometry[2] <= U /\ 2 * geometry[2] <= Align /\ Align \in Nat \ {0}
    BY UnitType, ReachFacts, PartAssumption DEF TypeOK
  <1>2. U * cylinders \in Nat /\ Align + 2 <= U * cylinders
    BY CylinderFacts
  <1>3. partCyls \in Nat /\ Align + 2 <= partCyls * U
    BY ShareType DEF Roomy
  <1>4. geometry[2] < U * cylinders - 1
    BY <1>1, <1>2
  <1>5. CASE geometry[2] < U
    <2>1. Shift = 0
      BY <1>1, <1>5, DivIs DEF Shift
    <2> QED
      BY <1>1, <1>4, <2>1
  <1>6. CASE geometry[2] = U
    <2>1. Shift = 1
      BY <1>1, <1>6, DivIs DEF Shift
    <2>2. ASSUME ~(3 <= partCyls) PROVE FALSE
      <3>1. partCyls * U <= 2 * U /\ partCyls * U \in Nat
        BY <1>1, <1>3, <2>2, MulMono
      <3> QED
        BY <1>1, <1>3, <1>6, <3>1
    <2> QED
      BY <1>1, <1>4, <2>1, <2>2
  <1> QED
    BY <1>1, <1>5, <1>6

(* A mark lies a cylinder before the limit, and is the last sector of one. *)
LEMMA MarkFacts ==
  ASSUME TypeOK, Fits, geometry \in Geometries, NEW k \in 1..parts-1
  PROVE  /\ Mark(k) \in Nat
         /\ Mark(k) + U <= U * cylinders - 1
         /\ Mark(k) \div U = Shift + k * partCyls
         /\ Shift + k * partCyls + 1 < cylinders
         /\ Mark(k) = Mark(0) + k * (partCyls * U)
         /\ Align < Mark(k)
         /\ Shift + k * partCyls \in Nat
  <1> DEFINE p == partCyls
             x == Shift + 1 + k * p
  <1>1. /\ U \in Nat \ {0} /\ p \in Nat /\ cylinders \in Nat /\ Shift \in {0, 1}
        /\ Shift = 1 => 3 <= p
        /\ parts \in 1..4 /\ Align \in Nat \ {0}
        /\ Align + 2 <= p * U /\ p * parts <= cylinders
    BY UnitType, ShareType, StopType, ShiftFacts, PartAssumption
       DEF Fits, Roomy, MaxParts, Entries
  <1>2. cylinders - p * (parts - 1) > 1
    BY DEF Fits
  <1> HIDE DEF p
  <1>3. p * parts = p * (parts - 1) + p /\ p * (parts - 1) \in Nat
    BY <1>1
  <1>4. Shift + 1 < cylinders - p * (parts - 1)
    BY <1>1, <1>2, <1>3
  <1>5. k * p <= (parts - 1) * p /\ k * p \in Nat /\ (parts - 1) * p = p * (parts - 1)
    BY <1>1, MulMono
  <1>6. x \in Nat \ {0} /\ x + 1 <= cylinders
    BY <1>1, <1>3, <1>4, <1>5
  <1>7. (x + 1) * U <= cylinders * U /\ (x + 1) * U = x * U + U /\ x * U \in Nat
        /\ cylinders * U = U * cylinders /\ cylinders * U \in Nat
    BY <1>1, <1>6, MulMono
  <1>8. Mark(k) = x * U - 1
    BY DEF Mark, p
  <1>9. x * U >= p * U + U
    <2>1. 1 * p <= k * p
      BY <1>1, MulMono
    <2>2. p + 1 <= x
      BY <1>1, <1>5, <2>1
    <2>3. (p + 1) * U <= x * U /\ (p + 1) * U = p * U + U
      BY <1>1, <1>6, <2>2, MulMono
    <2> QED
      BY <1>1, <1>7, <2>3
  <1>10. p * U \in Nat
    BY <1>1, MulMono
  <1>11. Mark(k) \in Nat /\ Mark(k) + U <= U * cylinders - 1 /\ Align < Mark(k)
    BY <1>1, <1>7, <1>8, <1>9, <1>10
  <1>12. Shift + k * p \in Nat /\ Shift + k * p = x - 1
    BY <1>1, <1>5
  <1>13. Mark(k) \div U = Shift + k * p
    <2> DEFINE y == Shift + k * p
    <2>1. y \in Nat /\ y * U + U = x * U /\ y * U \in Nat
      <3>1. y \in Nat /\ x = y + 1
        BY <1>1, <1>5, <1>12
      <3>2. (y + 1) * U = y * U + U /\ y * U \in Nat
        BY <1>1, <3>1
      <3> HIDE DEF x, y
      <3> QED
        BY <3>1, <3>2
    <2> HIDE DEF x, y
    <2>2. y * U <= Mark(k) /\ Mark(k) < y * U + U
      BY <1>1, <1>8, <2>1
    <2>3. Mark(k) \div U = y
      BY <1>1, <1>11, <2>1, <2>2, DivIs
    <2> QED
      BY <2>3 DEF y
  <1>14. Mark(k) = Mark(0) + k * (p * U)
    <2>1. Mark(0) = (Shift + 1) * U - 1
      BY <1>1 DEF Mark, p
    <2> DEFINE s == (Shift + 1) * U
               a == k * (p * U)
    <2>2. x * U = (Shift + 1) * U + (k * p) * U
      BY <1>1, <1>5
    <2>3. (k * p) * U = a
      BY <1>1
    <2>4. s \in Nat /\ a \in Nat
      BY <1>1, <1>10
    <2>5. x * U = s + a
      BY <2>2, <2>3
    <2> HIDE DEF x, s, a
    <2>6. Mark(k) = (s - 1) + a
      BY <1>8, <2>4, <2>5
    <2> QED
      BY <2>1, <2>6 DEF s, a
  <1>15. Shift + k * p + 1 < cylinders
    <2> DEFINE y == Shift + k * p
    <2>1. y \in Nat /\ y = x - 1
      BY <1>12
    <2> HIDE DEF x, y
    <2>2. y + 1 < cylinders
      BY <1>1, <1>6, <2>1
    <2> QED
      BY <2>2 DEF y
  <1> QED
    BY <1>11, <1>12, <1>13, <1>14, <1>15 DEF p

(* No entry cuts the limit: those that are made lie before start, the empty
   ones seem to begin behind the disk. *)
LEMMA FreeLimitExact ==
  ASSUME TypeOK, Fits, Ahead, start = Free
  PROVE  FreeLimit = U * cylinders - 1
  <1>1. /\ Limit = U * cylinders - 1 /\ U * cylinders \in Nat /\ U * cylinders <= Reach
        /\ Reach \in Nat /\ U \in Nat \ {0}
    BY CylinderFacts, ReachFacts, UnitType DEF Fits, Ahead
  <1>2. ASSUME NEW i \in Entries PROVE CutAt(Limit, i) = Limit
    <2>1. CASE table[i].sys
      <3>1. table[i].first \in Nat /\ table[i].size \in Nat
        BY PartAssumption DEF TypeOK
      <3>2. First(i) \in Nat /\ First(i) <= table[i].first
        BY <1>1, <2>1, <3>1, DivBounds DEF First, Begin
      <3>3. End(i) <= start /\ start \in Nat
        BY <2>1 DEF Ahead, TypeOK
      <3>4. ~(start < First(i))
        BY <3>1, <3>2, <3>3 DEF End
      <3> QED
        BY <3>4 DEF CutAt
    <2>2. CASE ~table[i].sys
      <3>1. First(i) = Reach
        BY <2>2 DEF First, Begin, Reach
      <3> QED
        BY <1>1, <3>1 DEF CutAt
    <2> QED
      BY <2>1, <2>2
  <1> QED
    BY <1>1, <1>2 DEF FreeLimit, Entries

(* The table after n partitions. *)
Made ==
    /\ \A i \in Entries : table[i].sys <=> i < n
    /\ n = 0 => Free = geometry[2]
    /\ n > 0 => table[0].first = Align
    /\ \A i \in 0..n-1 : table[i].size > 0
    /\ \A i \in 1..n-1 : table[i].first = End(i - 1)
    /\ \A i \in 1..n-1 : i <= parts - 2 => table[i].size = partCyls * U
    /\ n \in 1..parts-1 => Free = Mark(n) /\ End(n - 1) = Mark(n)
    /\ n = parts => End(parts - 1) = U * cylinders - 1

MakeInv ==
    Fits => /\ pc \in {"add", "search", "place"} => Made
            /\ pc \in {"write", "reread"} => n = parts /\ Made

(* Where the next partition ends. *)
LEMMA NextEnd ==
  ASSUME TypeOK, Fits, Ahead, Made, pc = "place", start = Free
  PROVE  /\ start <= FreeLimit
         /\ Stop + 1 = IF n = parts - 1 THEN U * cylinders - 1 ELSE Mark(n + 1)
  <1> DEFINE p == partCyls
             c == cylinders
             d == Shift + n * p
  <1>1. /\ U \in Nat \ {0} /\ p \in Nat /\ c \in Nat /\ Shift \in {0, 1}
        /\ parts \in 1..4 /\ n \in 0..parts-1 /\ n \in Nat /\ U * c \in Nat
        /\ geometry \in Geometries
        /\ geometry[2] \in Nat \ {0} /\ geometry[2] < U * c - 1
        /\ Align + 2 <= U * c /\ Align \in Nat \ {0}
    BY UnitType, ShareType, StopType, ShiftFacts, CylinderFacts, PartAssumption
       DEF Fits, Roomy, MaxParts, Entries, Ahead, TypeOK
  <1>2. FreeLimit = U * c - 1
    BY FreeLimitExact
  <1>3. /\ start \in Nat /\ start <= U * c - 1 /\ start \div U = d /\ d \in Nat
        /\ n * p \in Nat
    <2>1. CASE n = 0
      <3>1. start = geometry[2]
        BY <2>1 DEF Made
      <3>2. n * p = 0 /\ d = Shift
        BY <1>1, <2>1
      <3>3. start \div U = d
        BY <3>1, <3>2 DEF Shift
      <3>4. d \in Nat
        BY <1>1, <3>2
      <3> HIDE DEF d
      <3> QED
        BY <1>1, <3>1, <3>2, <3>3, <3>4
    <2>2. CASE n # 0
      <3>1. n \in 1..parts-1
        BY <1>1, <2>2
      <3>2. start = Mark(n)
        BY <3>1 DEF Made
      <3>3. /\ Mark(n) \in Nat /\ Mark(n) + U <= U * c - 1
            /\ Mark(n) \div U = d /\ d \in Nat
        BY <1>1, <3>1, MarkFacts
      <3>4. n * p \in Nat
        BY <1>1, MulMono
      <3> QED
        BY <1>1, <3>2, <3>3, <3>4
    <2> QED
      BY <2>1, <2>2
  <1>4. (U * c - 1) \div U = c - 1
    <2>1. c \in Nat \ {0}
      BY <1>1
    <2>2. c - 1 \in Nat /\ (c - 1) * U + U = U * c /\ (c - 1) * U \in Nat
      BY <1>1, <2>1
    <2>3. U * c - 1 \in Nat /\ (c - 1) * U <= U * c - 1 /\ U * c - 1 < (c - 1) * U + U
      BY <1>1, <2>2
    <2> HIDE DEF c
    <2> QED
      BY <1>1, <2>2, <2>3, DivIs
  <1>5. Stop = IF d = c - 1 \/ (d + 1 + Share) * U - 1 > U * c - 1
               THEN U * c - 2 ELSE (d + 1 + Share) * U - 2
    <2> DEFINE last == (d + 1 + Share) * U - 1
    <2>1. Stop = IF d = c - 1 \/ last > U * c - 1 THEN (U * c - 1) - 1 ELSE last - 1
      BY <1>2, <1>3, <1>4 DEF Stop
    <2>2. Share \in Int
      BY ShareType DEF Fits, Roomy
    <2> DEFINE w == (d + 1 + Share) * U
    <2>3. w \in Int /\ last = w - 1
      BY <1>1, <1>3, <2>2
    <2> HIDE DEF w, last
    <2>4. Stop = IF d = c - 1 \/ w - 1 > U * c - 1 THEN U * c - 2 ELSE w - 2
      BY <1>1, <2>1, <2>3
    <2> QED
      BY <2>4 DEF w
  <1>6. CASE n = parts - 1
    <2>1. Share = c - p * n
      BY <1>6 DEF Share
    <2>2. d + 1 + Share = Shift + 1 + c
      <3>1. p * n = n * p
        BY <1>1
      <3> QED
        BY <1>1, <1>3, <2>1, <3>1
    <2>3. (Shift + 1 + c) * U = Shift * U + U + U * c /\ Shift * U \in Nat
      BY <1>1
    <2>4. Stop = U * c - 2
      BY <1>1, <1>5, <2>2, <2>3
    <2> QED
      BY <1>1, <1>2, <1>3, <1>6, <2>4
  <1>7. CASE n # parts - 1
    <2>1. n + 1 \in 1..parts-1 /\ Share = p
      BY <1>1, <1>7 DEF Share
    <2>2. /\ Mark(n + 1) \in Nat /\ Mark(n + 1) + U <= U * c - 1
          /\ Shift + (n + 1) * p + 1 < c
      BY <1>1, <2>1, MarkFacts
    <2>3. (n + 1) * p = n * p + p
      BY <1>1
    <2>4. d + 1 + Share = Shift + 1 + (n + 1) * p
      BY <1>1, <1>3, <2>1, <2>3
    <2>5. (d + 1 + Share) * U - 1 = Mark(n + 1)
      BY <2>4 DEF Mark
    <2>6. d # c - 1
      BY <1>1, <1>3, <2>2, <2>3
    <2>7. Stop = (d + 1 + Share) * U - 2
      BY <1>1, <1>5, <2>2, <2>5, <2>6
    <2>8. Share \in Int /\ (d + 1 + Share) * U \in Int
      BY <1>1, <1>3, <2>1
    <2> QED
      BY <1>1, <1>2, <1>3, <1>7, <2>5, <2>7, <2>8
  <1> QED
    BY <1>6, <1>7

LEMMA PlaceMakes ==
  ASSUME TypeOK, TypeOK', Place, PartInv, MakeInv
  PROVE  MakeInv'
  <1>1. UNCHANGED disk /\ pc = "place" /\ n' = n + 1
        /\ pc' = IF n = parts - 1 THEN "write" ELSE "add"
    BY DEF Place
  <1>2. /\ Fits' <=> Fits
        /\ parts' = parts /\ partCyls' = partCyls /\ U' = U /\ cylinders' = cylinders
        /\ Shift' = Shift /\ \A k : Mark(k)' = Mark(k)
    <2>1. /\ parts' = parts /\ partCyls' = partCyls /\ U' = U /\ cylinders' = cylinders
          /\ geometry' = geometry
      BY <1>1 DEF disk, partCyls, cylinders, U
    <2> QED
      BY <2>1 DEF Fits, Roomy, Reach, Mark, Shift
  <1> SUFFICES ASSUME Fits PROVE Made' /\ (pc' = "write" => n' = parts')
    BY <1>1, <1>2 DEF MakeInv
  <1>3. /\ Made /\ Ahead /\ start = Free /\ Roomy /\ geometry \in Geometries
    BY <1>1 DEF MakeInv, PartInv, Fits, Ahead
  <1>4. /\ start <= FreeLimit
        /\ Stop + 1 = IF n = parts - 1 THEN U * cylinders - 1 ELSE Mark(n + 1)
    BY <1>1, <1>3, NextEnd
  <1> DEFINE f == IF n = 0 THEN Align ELSE start
             size == Stop - f + 1
  <1>5. /\ Free' = Stop + 1 /\ Stop \in Int
        /\ table' = [table EXCEPT ![n] = [sys |-> TRUE, first |-> f, size |-> size]]
    BY <1>3, <1>4, EntryMade
  <1>6. /\ n \in Entries /\ n \in 0..parts-1 /\ parts \in 1..4 /\ Align \in Nat \ {0}
        /\ U \in Nat \ {0} /\ U * cylinders \in Nat /\ Align + 2 <= U * cylinders
        /\ start \in Nat
    BY <1>1, <1>3, UnitType, CylinderFacts, PartAssumption
       DEF TypeOK, Roomy, MaxParts, Entries
  <1>7. n > 0 => n \in 1..parts-1 /\ start = Mark(n) /\ End(n - 1) = Mark(n)
    BY <1>3, <1>6 DEF Made
  <1>8. size > 0 /\ f \in Int /\ f + size = Stop + 1
    <2>1. f \in Int
      BY <1>6
    <2>2. CASE n = parts - 1
      BY <1>3, <1>4, <1>5, <1>6, <1>7, <2>1, <2>2, MarkFacts
    <2>3. CASE n # parts - 1
      <3>1. n + 1 \in 1..parts-1
        BY <1>6, <2>3
      <3>2. Mark(n + 1) \in Nat /\ Align < Mark(n + 1)
        BY <1>3, <3>1, MarkFacts
      <3>3. CASE n = 0
        BY <1>4, <1>5, <1>6, <2>1, <2>3, <3>2, <3>3
      <3>4. CASE n # 0
        <4>1. n \in 1..parts-1 /\ start = Mark(n)
          BY <1>6, <1>7, <3>4
        <4>2. Mark(n) + U <= Mark(n + 1) - 1 \/ Mark(n) < Mark(n + 1)
          <5>1. /\ Mark(n) = Mark(0) + n * (partCyls * U)
                /\ Mark(n + 1) = Mark(0) + (n + 1) * (partCyls * U)
            BY <1>3, <3>1, <4>1, MarkFacts
          <5>2. partCyls * U \in Nat /\ partCyls * U > 0
            <6>1. partCyls \in Nat /\ Align + 2 <= partCyls * U
              BY <1>3, ShareType DEF Roomy
            <6>2. partCyls * U \in Nat
              BY <1>6, <6>1, MulMono
            <6> QED
              BY <1>6, <6>1, <6>2
          <5>3. (n + 1) * (partCyls * U) = n * (partCyls * U) + partCyls * U
            BY <1>6, <5>2
          <5>4. Mark(n) \in Nat /\ Mark(n + 1) \in Nat /\ n * (partCyls * U) \in Nat
            BY <1>3, <1>6, <3>1, <4>1, <5>2, MarkFacts, MulMono
          <5> DEFINE m == Mark(0)
                     a == n * (partCyls * U)
                     w == partCyls * U
          <5>5. Mark(n) = m + a /\ Mark(n + 1) = m + (a + w) /\ m \in Int
            <6>1. Mark(0) \in Int
              BY <1>3, <1>6, ShiftFacts, ShareType DEF Mark, Roomy
            <6> QED
              BY <5>1, <5>3, <6>1
          <5> HIDE DEF m, a, w
          <5> QED
            BY <5>2, <5>4, <5>5 DEF w, a
        <4>3. Mark(n) \in Nat
          BY <1>3, <4>1, MarkFacts
        <4> QED
          BY <1>4, <1>5, <1>6, <2>1, <2>3, <3>2, <3>4, <4>1, <4>2, <4>3
      <3> QED
        BY <3>3, <3>4
    <2> QED
      BY <2>1, <2>2, <2>3, <1>5
  <1>9. n > 0 /\ n <= parts - 2 => size = partCyls * U
    <2> SUFFICES ASSUME n > 0, n <= parts - 2 PROVE size = partCyls * U
      OBVIOUS
    <2>1. n \in 1..parts-1 /\ n + 1 \in 1..parts-1 /\ n # parts - 1
      BY <1>6
    <2>2. /\ Mark(n) = Mark(0) + n * (partCyls * U) /\ Mark(n) \in Nat
          /\ Mark(n + 1) = Mark(0) + (n + 1) * (partCyls * U) /\ Mark(n + 1) \in Nat
      BY <1>3, <2>1, MarkFacts
    <2>3. partCyls \in Nat /\ partCyls * U \in Nat
      BY <1>3, <1>6, ShareType, MulMono DEF Roomy
    <2>4. (n + 1) * (partCyls * U) = n * (partCyls * U) + partCyls * U
          /\ n * (partCyls * U) \in Nat
      BY <1>6, <2>3
    <2>5. Mark(0) \in Int
      BY <1>3, <1>6, <2>3, ShiftFacts DEF Mark
    <2>6. f = Mark(n) /\ Stop + 1 = Mark(n + 1)
      BY <1>4, <1>7, <2>1
    <2>7. size = Mark(n + 1) - Mark(n)
      BY <1>5, <2>2, <2>6
    <2> DEFINE w == partCyls * U
               a == n * w
               m == Mark(0)
    <2>8. Mark(n) = m + a /\ Mark(n + 1) = m + (a + w) /\ m \in Int /\ a \in Nat /\ w \in Nat
      BY <2>2, <2>3, <2>4, <2>5
    <2> HIDE DEF w, a, m, size
    <2>9. size = w
      BY <2>7, <2>8
    <2> QED
      BY <2>9 DEF w
  <1>10. table \in TableType /\ table' \in TableType
    BY DEF TypeOK, TableType
  <1>11. /\ table'[n] = [sys |-> TRUE, first |-> f, size |-> size]
         /\ \A i \in Entries \ {n} : table'[i] = table[i]
    BY <1>5, <1>6, <1>10 DEF TableType
  <1>12. \A i \in Entries : End(i)' = IF i = n THEN Stop + 1 ELSE End(i)
    BY <1>8, <1>11 DEF End
  <1>13. f = IF n = 0 THEN Align ELSE start
    OBVIOUS
  <1> HIDE DEF f, size
  <1>14. \A i \in 0..n'-1 : i \in Entries /\ (i = n \/ i \in 0..n-1)
    BY <1>1, <1>6 DEF Entries
  <1>15. \A i \in Entries : table'[i].sys <=> i < n'
    BY <1>1, <1>3, <1>6, <1>11 DEF Made, Entries
  <1>16. n' > 0 /\ table'[0].first = Align
    BY <1>1, <1>3, <1>6, <1>11, <1>13 DEF Made, Entries
  <1>17. \A i \in 0..n'-1 : table'[i].size > 0
    BY <1>3, <1>8, <1>11, <1>14 DEF Made
  <1>18. ASSUME NEW i \in 1..n'-1 PROVE table'[i].first = End(i - 1)'
    <2>1. i \in Entries /\ i - 1 \in Entries \ {n} /\ i \in Nat \ {0} /\ i <= n
      BY <1>1, <1>6 DEF Entries
    <2>2. CASE i = n
      <3>1. End(i - 1)' = End(i - 1)
        BY <1>6, <1>12, <2>1
      <3>2. table'[i].first = start /\ start = End(i - 1)
        BY <1>6, <1>7, <1>11, <1>13, <2>1, <2>2
      <3> QED
        BY <3>1, <3>2
    <2>3. CASE i # n
      <3>1. i \in 1..n-1
        BY <1>6, <2>1, <2>3
      <3>2. table'[i] = table[i] /\ End(i - 1)' = End(i - 1)
        BY <1>11, <1>12, <2>1, <2>3
      <3>3. table[i].first = End(i - 1)
        BY <1>3, <3>1 DEF Made
      <3> QED
        BY <3>2, <3>3
    <2> QED
      BY <2>2, <2>3
  <1>19. \A i \in 1..n'-1 : i <= parts - 2 => table'[i].size = partCyls * U
    <2> SUFFICES ASSUME NEW i \in 1..n'-1, i <= parts - 2
                 PROVE  table'[i].size = partCyls * U
      OBVIOUS
    <2>1. i \in Entries /\ (i = n \/ i \in 1..n-1)
      BY <1>1, <1>6 DEF Entries
    <2>2. CASE i = n
      BY <1>9, <1>11, <2>2
    <2>3. CASE i # n
      <3>1. i \in 1..n-1 /\ i \in Entries \ {n}
        BY <2>1, <2>3
      <3>2. table'[i] = table[i]
        BY <1>11, <3>1
      <3>3. table[i].size = partCyls * U
        BY <1>3, <3>1 DEF Made
      <3> QED
        BY <3>2, <3>3
    <2> QED
      BY <2>2, <2>3
  <1>20. (n \in 1..parts-1 => Free = Mark(n) /\ End(n - 1) = Mark(n))'
    <2> SUFFICES ASSUME n' \in 1..parts-1
                 PROVE  (Free = Mark(n) /\ End(n - 1) = Mark(n))'
      BY <1>2
    <2>1. n # parts - 1 /\ n' = n + 1 /\ n' - 1 = n
      BY <1>1, <1>6
    <2>2. Mark(n)' = Mark(n + 1)
      BY <1>2, <2>1 DEF Mark
    <2>3. End(n - 1)' = Stop + 1
      <3>1. table'[n].first + table'[n].size = Stop + 1
        BY <1>8, <1>11
      <3> QED
        BY <2>1, <3>1 DEF End
    <2> QED
      BY <1>4, <1>5, <2>1, <2>2, <2>3
  <1>21. (n = parts => End(parts - 1) = U * cylinders - 1)'
    <2> SUFFICES ASSUME n' = parts
                 PROVE  (End(parts - 1) = U * cylinders - 1)'
      BY <1>2
    <2>1. n = parts - 1
      BY <1>1, <1>6
    <2>2. End(parts - 1)' = Stop + 1
      <3>1. table'[n].first + table'[n].size = Stop + 1
        BY <1>8, <1>11
      <3> QED
        BY <1>2, <2>1, <3>1 DEF End
    <2> QED
      BY <1>2, <1>4, <2>1, <2>2
  <1>22. pc' = "write" => n' = parts'
    BY <1>1, <1>2, <1>6
  <1>23. Made'
    <2>1. (\A i \in Entries : table[i].sys <=> i < n)'
      BY <1>15
    <2>2. (n = 0 => Free = geometry[2])' /\ (n > 0 => table[0].first = Align)'
      BY <1>1, <1>6, <1>16
    <2>3. (\A i \in 0..n-1 : table[i].size > 0)'
      BY <1>17
    <2>4. (\A i \in 1..n-1 : table[i].first = End(i - 1))'
      BY <1>18
    <2>5. (\A i \in 1..n-1 : i <= parts - 2 => table[i].size = partCyls * U)'
      BY <1>2, <1>19
    <2> QED
      BY <1>20, <1>21, <2>1, <2>2, <2>3, <2>4, <2>5 DEF Made
  <1> QED
    BY <1>22, <1>23

LEMMA SameMade ==
  ASSUME UNCHANGED <<disk, offset, n, table>>
  PROVE  (Fits' <=> Fits) /\ (Made' <=> Made) /\ n' = n /\ parts' = parts
  <1>1. /\ parts' = parts /\ partCyls' = partCyls /\ U' = U /\ cylinders' = cylinders
        /\ geometry' = geometry /\ table' = table /\ n' = n
    BY DEF disk, partCyls, cylinders, U
  <1>2. Free' = Free
    BY SameTable
  <1>3. Fits' <=> Fits
    BY <1>1 DEF Fits, Roomy, Reach
  <1>4. \A i : End(i)' = End(i) /\ Mark(i)' = Mark(i)
    BY <1>1 DEF End, Mark, Shift
  <1>5. Made' <=> Made
    BY <1>1, <1>2, <1>4 DEF Made
  <1> QED
    BY <1>1, <1>3, <1>5

(* On a disk of no more sectors than a word counts, addPartition leaves no
   partition out and no gap between two, and the last ends with the disk. *)
THEOREM AllMade == Spec => []MakesAll
  <1>1. Init => MakeInv
    BY DEF Init, MakeInv
  <1>2. MakeInv /\ PartInv /\ TypeOK /\ TypeOK' /\ [Next]_vars => MakeInv'
    <2> SUFFICES ASSUME MakeInv, PartInv, TypeOK, TypeOK', [Next]_vars
                 PROVE  MakeInv'
      OBVIOUS
    <2>1. CASE MakePart
      <3>1. pc' \in {"idle", "geometry"}
        BY <2>1 DEF MakePart
      <3> QED
        BY <3>1 DEF MakeInv
    <2>2. CASE get_geometry
      <3>1. Free' = geometry'[2]
        BY <2>2, StartsEmpty
      <3>2. /\ n' = 0 /\ table' = NoTable /\ pc' = "add"
        BY <2>2 DEF get_geometry, PartInv
      <3>3. \A i \in Entries : ~table'[i].sys /\ ~(i < n')
        BY <3>2 DEF NoTable, Entries
      <3>4. parts' \in 1..MaxParts
        BY <3>2 DEF TypeOK
      <3>5. n' # parts' /\ ~(n' > 0) /\ 0..n'-1 = {} /\ 1..n'-1 = {} /\ n' \notin 1..parts'-1
        BY <3>2, <3>4 DEF MaxParts
      <3>6. Made'
        BY <3>1, <3>2, <3>3, <3>5 DEF Made
      <3> QED
        BY <3>2, <3>6 DEF MakeInv
    <2>3. CASE Enter \/ Search \/ writeTable \/ reread_partition_table \/ UNCHANGED vars
      <3>1. UNCHANGED <<disk, offset, n, table>>
        BY <2>3 DEF Enter, Search, writeTable, reread_partition_table, vars, disk
      <3>2. \/ pc' = pc \/ pc' = "idle"
            \/ pc \in {"add", "search"} /\ pc' \in {"search", "place"}
            \/ pc = "write" /\ pc' = "reread"
        BY <2>3 DEF Enter, Search, writeTable, reread_partition_table, vars
      <3>3. (Fits' <=> Fits) /\ (Made' <=> Made) /\ n' = n /\ parts' = parts
        BY <3>1, SameMade
      <3> QED
        BY <3>2, <3>3 DEF MakeInv
    <2>4. CASE Place
      BY <2>4, PlaceMakes
    <2> QED
      BY <2>1, <2>2, <2>3, <2>4 DEF Next
  <1>3. TypeOK /\ MakeInv => MakesAll
    <2> SUFFICES ASSUME TypeOK, MakeInv, pc \in {"write", "reread"}, Fits
                 PROVE  /\ \A i \in Entries : table[i].sys <=> i < parts
                        /\ \A i \in 0..parts-1 : table[i].size > 0
                        /\ table[0].first = Align
                        /\ \A i \in 1..parts-1 : table[i].first = End(i - 1)
                        /\ \A i \in 1..parts-2 : table[i].size = partCyls * U
                        /\ End(parts - 1) = U * cylinders - 1
      BY DEF MakesAll, Fits, Reach
    <2>1. n = parts /\ Made
      BY DEF MakeInv
    <2>2. parts \in Nat /\ parts > 0
      BY DEF Fits, Roomy, MaxParts
    <2>3. \A i \in 1..parts-2 : i \in 1..parts-1 /\ i <= parts - 2
      BY <2>2
    <2> QED
      BY <2>1, <2>2, <2>3 DEF Made
  <1> QED
    BY <1>1, <1>2, <1>3, TypeCorrect, PartInvHolds, PTL DEF Spec

-----------------------------------------------------------------------------
(* Every call comes to an end. *)

(* What the call still has to do: the partitions after this one, and the parts
   of addPartition for this one. *)
Phase ==
    CASE pc = "idle" -> 0
      [] pc = "reread" -> 1
      [] pc = "write" -> 2
      [] pc = "place" -> 3 * (parts - n)
      [] pc = "search" -> 3 * (parts - n) + 1
      [] pc = "add" -> 3 * (parts - n) + 2
      [] pc = "geometry" -> 3 * parts + 3

(* How far the search may still go: start rises, and falls once at most, when
   it is rounded through an unsigned int for the first time. *)
SearchRank == (IF read THEN 0 ELSE 2 * Word) + 2 * Word - start

(* Each step of a call that has begun leaves less to do, and a round of the do
   loop of addPartition that is not the last leaves its search less to go.  So
   on every disk: also on one whose size cannot be read, or with so few
   cylinders that a partition ends before it begins and its size is stored as
   almost 2^32. *)
CallAdvances == [][
    pc # "idle" =>
       /\ Phase' \in Nat
       /\ \/ Phase' < Phase
          \/ Phase' = Phase /\ 0 <= SearchRank' /\ SearchRank' < SearchRank]_vars

LEMMA UnitFacts ==
  ASSUME TypeOK, geometry \in Geometries
  PROVE  /\ U \in Nat \ {0} /\ Word \in Nat \ {0} /\ Align \in Nat \ {0}
         /\ 3 * U + 4 * Align + 8 <= Word
         /\ geometry[2] \in 1..U /\ 2 * geometry[2] <= Align
<1>1. U \in Nat \ {0} /\ Word \in Nat \ {0} /\ Align \in Nat \ {0}
  BY UnitType, PartAssumption
<1>2. geometry[2] \in Nat \ {0} /\ geometry[2] <= U
  BY ReachFacts DEF TypeOK
<1> QED
  BY <1>1, <1>2, PartAssumption DEF U

(* Skipping entries never goes back, and never beyond two words. *)
LEMMA SkipBounds ==
  ASSUME TypeOK, NEW s \in Nat, NEW i \in Entries, s < 2 * Word, offset < Word
  PROVE  Skip(s, i) \in Nat /\ s <= Skip(s, i) /\ Skip(s, i) < 2 * Word
<1> DEFINE t == IF s = 0 THEN s + offset ELSE s
<1>1. /\ offset \in Nat /\ table[i].first \in 0..Word-1 /\ table[i].size \in 0..Word-1
      /\ Word \in Nat \ {0}
  BY PartAssumption DEF TypeOK
<1>2. t \in Nat /\ s <= t /\ t < 2 * Word
  BY <1>1
<1>3. Last(i) \in Int /\ Last(i) + 1 < 2 * Word
  BY <1>1 DEF Last
<1>4. Skip(s, i) = IF First(i) <= t /\ t <= Last(i) THEN Last(i) + 1 ELSE t
  BY DEF Skip
<1> HIDE DEF t
<1> QED
  BY <1>2, <1>3, <1>4

LEMMA PassBounds ==
  ASSUME TypeOK, NEW s \in Nat, s < 2 * Word, offset < Word
  PROVE  Pass(s) \in Nat /\ s <= Pass(s) /\ Pass(s) < 2 * Word
<1> DEFINE a == Skip(s, 0)
           b == Skip(a, 1)
           c == Skip(b, 2)
           d == Skip(c, 3)
<1>1. 0 \in Entries /\ 1 \in Entries /\ 2 \in Entries /\ 3 \in Entries /\ Word \in Nat
  BY PartAssumption DEF Entries
<1>2. a \in Nat /\ s <= a /\ a < 2 * Word
  BY <1>1, SkipBounds
<1> HIDE DEF a
<1>3. b \in Nat /\ a <= b /\ b < 2 * Word
  BY <1>1, <1>2, SkipBounds
<1> HIDE DEF b
<1>4. c \in Nat /\ b <= c /\ c < 2 * Word
  BY <1>1, <1>3, SkipBounds
<1> HIDE DEF c
<1>5. d \in Nat /\ c <= d /\ d < 2 * Word
  BY <1>1, <1>4, SkipBounds
<1>6. Pass(s) = d
  BY DEF Pass, a, b, c
<1> HIDE DEF d
<1> QED
  BY <1>1, <1>2, <1>3, <1>4, <1>5, <1>6

(* Rounding is to a word only: no number is before its own cylinder. *)
LEMMA RoundedIs ==
  ASSUME TypeOK, NEW s \in Nat
  PROVE  Rounded(s) = s % Word /\ Rounded(s) \in 0..Word-1
<1> DEFINE i == s % Word
<1>1. i \in 0..Word-1 /\ U \in Nat \ {0} /\ i \in Nat
  BY UnitType, ModRange, PartAssumption
<1> HIDE DEF i
<1>2. (i \div U) * U <= i /\ (i \div U) * U \in Nat
  BY <1>1, DivBounds
<1>3. ~ ((i \div U) * U < i) => (i \div U) * U = i
  BY <1>1, <1>2
<1>4. Rounded(s) = IF (i \div U) * U < i THEN i ELSE (i \div U) * U
  BY DEF Rounded, i
<1> QED
  BY <1>1, <1>3, <1>4 DEF i

(* A round that is not the last: start rises, or is cut to a word. *)
LEMMA SearchGoesOn ==
  ASSUME TypeOK, Search, pc' = "search", start < 2 * Word, offset < Word
  PROVE  LET s == Pass(start)
         IN /\ s <= Limit /\ s \in Nat /\ s < 2 * Word
            /\ \/ start' = s /\ start < s /\ read' = read
               \/ /\ start' = s % Word /\ start' \in 0..Word-1 /\ Word <= s
                  /\ read' = TRUE /\ (read => s >= start + U)
<1> DEFINE s == Pass(start)
           taken == read /\ s >= start + U
           temp == IF taken THEN s ELSE start
           settled == read /\ ~taken
<1>1. start \in Nat /\ read \in BOOLEAN /\ U \in Nat \ {0} /\ Word \in Nat \ {0}
  BY UnitType, PartAssumption DEF TypeOK
<1>2. s \in Nat /\ start <= s /\ s < 2 * Word
  BY <1>1, PassBounds
<1>3. Rounded(s) = s % Word /\ Rounded(s) \in 0..Word-1
  BY <1>2, RoundedIs
<1>4. /\ s <= Limit
      /\ IF ~settled /\ s = temp
           THEN start' = Rounded(s) /\ read' = TRUE
           ELSE start' = s /\ read' = settled
      /\ start' # temp \/ ~read'
  BY DEF Search
<1> HIDE DEF s
<1>5. CASE ~settled /\ s = temp
  <2>1. start' = Rounded(s) /\ read' = TRUE /\ start' # s
    BY <1>4, <1>5
  <2>2. Word <= s
    <3> SUFFICES ASSUME s < Word PROVE FALSE
      BY <1>1, <1>2
    <3>1. s % Word = s
      BY <1>1, <1>2, ModSmall
    <3> QED
      BY <1>3, <2>1, <3>1
  <2> QED
    BY <1>2, <1>3, <1>4, <1>5, <2>1, <2>2 DEF s
<1>6. CASE settled
  <2>1. temp = start /\ start' = s /\ read' = TRUE /\ start' # start /\ read = TRUE
    BY <1>4, <1>6
  <2> QED
    BY <1>1, <1>2, <1>4, <2>1 DEF s
<1>7. CASE ~settled /\ s # temp
  <2>1. start' = s /\ read' = FALSE /\ ~taken /\ temp = start
    BY <1>4, <1>7
  <2>2. read = FALSE
    BY <1>1, <1>7, <2>1
  <2> QED
    BY <1>1, <1>2, <1>4, <1>7, <2>1, <2>2 DEF s
<1> QED
  BY <1>5, <1>6, <1>7

(* A limit beyond a word leaves room for every share, unless it is the -1 of a
   disk without a cylinder. *)
LEMMA LargeIsRoomy ==
  ASSUME TypeOK, geometry \in Geometries, parts \in 1..MaxParts, cylinders # 0, Word <= Limit
  PROVE  Roomy
<1> DEFINE c == cylinders
           p == partCyls
<1>1. /\ U \in Nat \ {0} /\ Word \in Nat \ {0} /\ Align \in Nat \ {0}
      /\ 3 * U + 4 * Align + 8 <= Word
  BY UnitFacts
<1>2. c \in Nat \ {0} /\ parts \in {1, 2, 3, 4}
  BY StopType DEF Entries, MaxParts
<1>3. c < p * parts + parts /\ p \in Nat
  BY <1>2, DivBounds DEF partCyls
<1>4. Limit <= U * c - 1
  <2>1. U * c \in Nat \ {0} /\ Word * Word \in Nat \ {0}
    BY <1>1, <1>2, MulPositive
  <2> DEFINE x == U * c - 1
             y == Word * Word
  <2>2. x \in Nat /\ y \in Nat \ {0} /\ Limit = x % y
    BY <2>1 DEF Limit
  <2> HIDE DEF x, y
  <2>3. x % y <= x
    BY <2>2
  <2> QED
    BY <2>2, <2>3 DEF x
<1> HIDE DEF c, p
<1>5. c <= 4 * p + 3
  BY <1>2, <1>3
<1>6. U * c <= U * (4 * p + 3) /\ U * c \in Nat
  BY <1>1, <1>2, <1>3, <1>5, MulMono
<1>7. U * (4 * p + 3) = 4 * (p * U) + 3 * U /\ p * U \in Nat
  BY <1>1, <1>3, MulMono
<1>8. p * U >= Align + 2
  <2> DEFINE x == p * U
             y == U * c
  <2>1. x \in Nat /\ y \in Nat /\ y <= 4 * x + 3 * U /\ Word <= y - 1
    <3>1. Limit \in Nat
      BY StopType DEF Entries
    <3> QED
      BY <1>1, <1>4, <1>6, <1>7, <3>1
  <2> HIDE DEF x, y
  <2>2. x >= Align + 2
    BY <1>1, <2>1
  <2> QED
    BY <2>2 DEF x
<1> QED
  BY <1>8 DEF Roomy, p

(* The last sector of the cylinder of sector s. *)
CylinderEnd(s) == (s \div U + 1) * U - 1

(* Without a cylinder every partition is to end where the search for the first
   one begins.  The first one is moved to Align, maybe behind its end, and the
   others come out empty. *)
Edge == CylinderEnd(geometry[2])
(* Where the first one ends, with the size it is stored with. *)
Over == IF Edge < Align THEN Edge + Word ELSE Edge

Degenerate ==
    /\ \A i \in Entries : i >= n => ~table[i].sys
    /\ n = 0 => offset = geometry[2] /\ (pc \in {"search", "place"} => start = offset)
    /\ n # 0 =>
         /\ offset = Align
         /\ table[0] = [sys |-> TRUE, first |-> Align, size |-> Stored(Edge - Align)]
         /\ \A i \in 1..3 : table[i].sys => table[i].first = Edge /\ table[i].size = 0
         /\ pc = "search" => start \in {Align, Edge, Over} /\ (read => start = Edge)
         /\ pc = "place" => start = Edge

TermInv ==
    pc \in {"add", "search", "place"} =>
       /\ geometry \in Geometries /\ offset \in 1..Word-1
       /\ pc = "search" => start < 2 * Word
       /\ cylinders = 0 => Degenerate

LEMMA EndFacts ==
  ASSUME TypeOK, NEW s \in Nat
  PROVE  /\ CylinderEnd(s) \in Nat /\ s <= CylinderEnd(s) /\ CylinderEnd(s) < s + U
         /\ CylinderEnd(CylinderEnd(s)) = CylinderEnd(s)
         /\ \A q \in Nat : s < q * U => CylinderEnd(s) < q * U
         /\ \A q \in Nat : CylinderEnd(s) <= q * U - 1
               /\ s \div U = (q * U - 1) \div U => CylinderEnd(s) = q * U - 1
<1> DEFINE r == s \div U
           u == U
           m == r * u
<1>1. u \in Nat \ {0} /\ r \in Nat /\ m \in Nat /\ m <= s /\ s < m + u
  BY UnitType, DivBounds
<1>2. CylinderEnd(s) = m + u - 1
  <2>1. (r + 1) * u = r * u + u
    <3> HIDE DEF r, u
    <3> QED
      BY <1>1
  <2> QED
    BY <2>1, <1>1 DEF CylinderEnd
<1> HIDE DEF r, u
<1>3. ASSUME NEW e \in Nat, e = m + u - 1 PROVE e \div u = r
  BY <1>1, <1>3, DivIs
<1>4. CylinderEnd(CylinderEnd(s)) = CylinderEnd(s)
  <2> DEFINE e == CylinderEnd(s)
  <2>1. e \in Nat /\ e = m + u - 1
    BY <1>1, <1>2
  <2>2. e \div u = r
    BY <1>3, <2>1
  <2>3. CylinderEnd(e) = (e \div u + 1) * u - 1 /\ e = (r + 1) * u - 1
    BY DEF CylinderEnd, u, r
  <2> HIDE DEF e
  <2>4. CylinderEnd(e) = e
    BY <2>2, <2>3
  <2> QED
    BY <2>4 DEF e
<1>5. ASSUME NEW q \in Nat, s < q * u PROVE m + u <= q * u
  <2>1. r < q
    <3> SUFFICES ASSUME q <= r PROVE FALSE
      BY <1>1
    <3>1. q * u <= r * u /\ q * u \in Nat
      BY <1>1, MulMono
    <3> QED
      BY <1>1, <1>5, <3>1
  <2>2. (r + 1) * u <= q * u
    BY <1>1, <2>1, MulMono
  <2>3. (r + 1) * u = m + u
    BY <1>1
  <2> QED
    BY <2>2, <2>3
<1>6. ASSUME NEW q \in Nat, m + u - 1 <= q * u - 1, r = (q * u - 1) \div u
      PROVE  m + u - 1 = q * u - 1
  <2> DEFINE x == q * u
  <2>1. x \in Nat /\ x - 1 \in Nat /\ q # 0
    <3>1. x \in Nat
      BY <1>1, MulMono
    <3> QED
      BY <1>1, <1>6, <3>1
  <2>2. x = (q - 1) * u + u /\ (q - 1) * u \in Nat
    BY <1>1, <2>1, MulMono
  <2>3. (x - 1) \div u = q - 1
    <3>1. q - 1 \in Nat
      BY <2>1
    <3> HIDE DEF x
    <3> QED
      BY <1>1, <2>1, <2>2, <3>1, DivIs
  <2>4. q - 1 = r
    BY <1>6, <2>3
  <2>5. (q - 1) * u = m
    BY <2>4
  <2> HIDE DEF m, x
  <2>6. x = m + u
    BY <2>2, <2>5
  <2>7. m + u - 1 = x - 1
    BY <1>1, <2>1, <2>6
  <2> QED
    BY <2>7 DEF x
<1>7. \A q \in Nat : s < q * u => m + u - 1 < q * u
  <2> SUFFICES ASSUME NEW q \in Nat, s < q * u PROVE m + u - 1 < q * u
    OBVIOUS
  <2>1. m + u <= q * u /\ q * u \in Nat
    BY <1>1, <1>5, MulMono
  <2> QED
    BY <1>1, <2>1
<1>8. \A q \in Nat : m + u - 1 <= q * u - 1 /\ r = (q * u - 1) \div u
                       => m + u - 1 = q * u - 1
  BY <1>6, Zenon
<1> QED
  BY <1>1, <1>2, <1>4, <1>7, <1>8 DEF u, r

LEMMA EdgeFacts ==
  ASSUME TypeOK, geometry \in Geometries
  PROVE  /\ Edge \in Nat \ {0} /\ Edge < Reach /\ geometry[2] < Reach
         /\ CylinderEnd(Edge) = Edge
         /\ Edge < Align => Edge < (Align \div U) * U
         /\ Over \in Nat \ {0} /\ Edge <= Over /\ Over < 2 * Word
         /\ Over % Word = Edge /\ Over = Align + Stored(Edge - Align)
         /\ Stored(Edge - Align) \in 0..Word-1
<1> DEFINE g == geometry[2]
           m == g \div U + 1
<1>1. /\ U \in Nat \ {0} /\ Word \in Nat \ {0} /\ Align \in Nat \ {0}
      /\ 3 * U + 4 * Align + 8 <= Word /\ g \in 1..U /\ 2 * g <= Align
  BY UnitFacts
<1>2. /\ Reach \in Nat /\ Reach < Word /\ Align + 2 <= Reach /\ U < Reach
  BY ReachFacts
<1>3. /\ Edge \in Nat /\ g <= Edge /\ Edge < g + U /\ CylinderEnd(Edge) = Edge
  BY <1>1, EndFacts DEF Edge
<1>4. m \in Nat /\ Edge = m * U - 1
  <2>1. g \div U \in Nat
    BY <1>1, DivBounds
  <2> QED
    BY <2>1 DEF Edge, CylinderEnd
<1>5. Edge < Reach
  <2>1. CASE g < U
    <3>1. g \div U = 0
      BY <1>1, <2>1, DivIs
    <3>2. m * U = U
      BY <1>1, <3>1
    <3> QED
      BY <1>1, <1>2, <1>4, <3>2
  <2>2. CASE g = U
    BY <1>1, <1>2, <1>3, <2>2
  <2> QED
    BY <1>1, <2>1, <2>2
<1>6. ASSUME Edge < Align PROVE Edge < (Align \div U) * U
  <2> DEFINE q == Align \div U
             y == m * U
  <2>1. q \in Nat /\ Align < q * U + U /\ q * U \in Nat
    BY <1>1, DivBounds
  <2>2. m <= q
    <3> SUFFICES ASSUME q + 1 <= m PROVE FALSE
      BY <1>4, <2>1
    <3> HIDE DEF q, m
    <3>1. (q + 1) * U <= m * U /\ (q + 1) * U = q * U + U
      BY <1>1, <1>4, <2>1, MulMono
    <3> HIDE DEF y
    <3>2. Align < y /\ y - 1 < Align /\ y \in Nat
      <4>1. y \in Nat
        BY <1>1, <1>4, MulMono DEF y
      <4> QED
        BY <1>1, <1>4, <1>6, <2>1, <3>1, <4>1 DEF y
    <3> QED
      BY <1>1, <3>2
  <2> HIDE DEF q, m
  <2>3. m * U <= q * U /\ m * U \in Nat
    BY <1>1, <1>4, <2>1, <2>2, MulMono
  <2> HIDE DEF y
  <2>4. Edge < q * U
    BY <1>3, <1>4, <2>1, <2>3
  <2> QED
    BY <2>4 DEF q
<1> HIDE DEF g, m
<1>7. Edge \in 1..Word-1
  BY <1>1, <1>2, <1>3, <1>5
<1>8. CASE Edge < Align
  <2>1. Over = Edge + Word /\ Edge - Align + Word \in 0..Word-1
    BY <1>1, <1>2, <1>7, <1>8 DEF Over
  <2>2. (Edge + Word) % Word = Edge /\ (Edge - Align) % Word = Edge - Align + Word
    BY <1>1, <1>2, <1>7, <1>8, <2>1
  <2> QED
    BY <1>1, <1>2, <1>3, <1>5, <1>6, <1>7, <2>1, <2>2 DEF Stored, g
<1>9. CASE ~(Edge < Align)
  <2>1. Over = Edge /\ Edge - Align \in 0..Word-1
    BY <1>1, <1>2, <1>7, <1>9 DEF Over
  <2>2. Edge % Word = Edge /\ (Edge - Align) % Word = Edge - Align
    BY <1>1, <1>7, <2>1, ModSmall
  <2> QED
    BY <1>1, <1>2, <1>3, <1>5, <1>7, <1>9, <2>1, <2>2 DEF Stored, g
<1> QED
  BY <1>8, <1>9

(* The limits of a disk without a cylinder. *)
LEMMA NoCylinder ==
  ASSUME TypeOK, geometry \in Geometries, cylinders = 0, parts \in 1..MaxParts
  PROVE  Limit = Word * Word - 1 /\ 2 * Word <= Limit /\ Limit \in Nat /\ Share = 0
<1>1. U \in Nat \ {0} /\ Word \in Nat \ {0} /\ 8 <= Word /\ parts \in Nat \ {0}
  BY UnitFacts DEF MaxParts
<1>2. 8 * Word <= Word * Word /\ Word * Word \in Nat
  BY <1>1, MulMono
<1> DEFINE w == Word * Word
<1>3. U * 0 = 0
  BY <1>1
<1>4. Limit = (0 - 1) % w
  BY <1>3 DEF Limit
<1>5. 8 * Word <= w /\ w \in Nat
  BY <1>2
<1> HIDE DEF w
<1>6. (0 - 1) % w = w - 1
  BY <1>1, <1>5
<1>7. 0 \div parts = 0 /\ 0 * (parts - 1) = 0
  BY <1>1
<1>8. Share = 0
  BY <1>7 DEF Share, partCyls
<1> QED
  BY <1>1, <1>4, <1>5, <1>6, <1>8 DEF w

(* A cut falls on the end of a cylinder, of that of start or of a later one. *)
LEMMA CutKeeps ==
  ASSUME TypeOK, geometry \in Geometries, NEW l \in Nat, NEW i \in Entries,
         CylinderEnd(start) <= l
  PROVE  /\ CutAt(l, i) \in Nat /\ CylinderEnd(start) <= CutAt(l, i)
         /\ CutAt(l, i) = l \/ \E q \in Nat : CutAt(l, i) = q * U - 1
         /\ (~table[i].sys /\ start < Reach /\ Reach <= l)
               => \E q \in Nat : CutAt(l, i) = q * U - 1
<1>1. start \in Nat /\ CylinderEnd(start) \in Nat /\ First(i) \in Nat
  BY EndFacts, StopType DEF TypeOK
<1>2. PICK q \in Nat : First(i) = q * U
  <2>1. Begin(i) \in Nat
    BY PartAssumption DEF Begin, TypeOK
  <2>2. Begin(i) \div U \in Nat
    BY <2>1, UnitType, DivBounds
  <2> QED
    BY <2>2 DEF First
<1>3. start < First(i) => CylinderEnd(start) <= First(i) - 1
  BY <1>1, <1>2, EndFacts
<1>4. ~table[i].sys => First(i) = Reach
  BY DEF First, Begin, Reach
<1> QED
  BY <1>1, <1>2, <1>3, <1>4 DEF CutAt

LEMMA NoCylinderLimit ==
  ASSUME TypeOK, geometry \in Geometries, cylinders = 0, parts \in 1..MaxParts,
         start < Reach, NEW k \in Entries, ~table[k].sys
  PROVE  /\ FreeLimit \in Nat /\ CylinderEnd(start) <= FreeLimit
         /\ \E q \in Nat : FreeLimit = q * U - 1
<1> DEFINE Good(l) == /\ l \in Nat /\ CylinderEnd(start) <= l
                      /\ l = Limit \/ \E q \in Nat : l = q * U - 1
           Ended(l) == /\ l \in Nat /\ CylinderEnd(start) <= l
                       /\ \E q \in Nat : l = q * U - 1
           a == CutAt(Limit, 0)
           b == CutAt(a, 1)
           c == CutAt(b, 2)
           d == CutAt(c, 3)
<1>1. start \in Nat /\ Reach \in Nat /\ Reach < Word /\ Word \in Nat
  BY ReachFacts, PartAssumption DEF TypeOK
<1>2. CylinderEnd(start) \in Nat /\ CylinderEnd(start) < Reach
  <2>1. (Word - 1) \div U \in Nat
    BY UnitType, DivBounds, PartAssumption
  <2> QED
    BY <1>1, <2>1, EndFacts DEF Reach
<1>3. Limit \in Nat /\ Reach <= Limit /\ Good(Limit)
  BY <1>1, <1>2, NoCylinder
<1>4. ASSUME NEW l, Good(l), NEW i \in Entries
      PROVE  /\ Good(CutAt(l, i))
             /\ ~table[i].sys \/ Ended(l) => Ended(CutAt(l, i))
  <2>1. l \in Nat /\ CylinderEnd(start) <= l
    BY <1>4
  <2>2. /\ CutAt(l, i) \in Nat /\ CylinderEnd(start) <= CutAt(l, i)
        /\ CutAt(l, i) = l \/ \E q \in Nat : CutAt(l, i) = q * U - 1
        /\ (~table[i].sys /\ start < Reach /\ Reach <= l)
              => \E q \in Nat : CutAt(l, i) = q * U - 1
    BY <2>1, CutKeeps
  <2> QED
    BY <1>3, <1>4, <2>2
<1>5. /\ 0 \in Entries /\ 1 \in Entries /\ 2 \in Entries /\ 3 \in Entries
      /\ k = 0 \/ k = 1 \/ k = 2 \/ k = 3
  BY DEF Entries
<1>6. Good(a) /\ (~table[0].sys => Ended(a))
  BY <1>3, <1>4, <1>5
<1> HIDE DEF a
<1>7. Good(b) /\ (~table[1].sys \/ Ended(a) => Ended(b))
  BY <1>4, <1>5, <1>6
<1> HIDE DEF b
<1>8. Good(c) /\ (~table[2].sys \/ Ended(b) => Ended(c))
  BY <1>4, <1>5, <1>7
<1> HIDE DEF c
<1>9. Good(d) /\ (~table[3].sys \/ Ended(c) => Ended(d))
  BY <1>4, <1>5, <1>8
<1> HIDE DEF d
<1>10. Ended(d)
  <2> HIDE DEF Ended, Good
  <2> QED
    BY <1>5, <1>6, <1>7, <1>8, <1>9
<1>11. FreeLimit = d
  BY DEF FreeLimit, a, b, c, d
<1> QED
  BY <1>10, <1>11

(* There every partition is made, to one sector less than its cylinder. *)
LEMMA NoCylinderStop ==
  ASSUME TypeOK, geometry \in Geometries, cylinders = 0, parts \in 1..MaxParts,
         start < Reach, NEW k \in Entries, ~table[k].sys
  PROVE  start <= FreeLimit /\ Stop = CylinderEnd(start) - 1
<1>1. start \in Nat /\ CylinderEnd(start) \in Nat /\ start <= CylinderEnd(start)
  BY EndFacts DEF TypeOK
<1>2. FreeLimit \in Nat /\ CylinderEnd(start) <= FreeLimit
  BY NoCylinderLimit
<1>3. PICK q \in Nat : FreeLimit = q * U - 1
  BY NoCylinderLimit
<1>4. Share = 0 /\ start \div U \in Nat
  BY <1>1, NoCylinder, UnitType, DivBounds
<1>5. (start \div U + 1 + Share) * U - 1 = CylinderEnd(start)
  BY <1>4 DEF CylinderEnd
<1>6. start \div U = FreeLimit \div U => FreeLimit = CylinderEnd(start)
  BY <1>1, <1>2, <1>3, EndFacts
<1> QED
  BY <1>1, <1>2, <1>5, <1>6 DEF Stop

LEMMA HopBehind ==
  ASSUME NEW tb \in TableType, NEW u \in Nat \ {0}, NEW s \in Nat \ {0},
         NEW i \in Entries, tb[i].first + tb[i].size <= s
  PROVE  Hop(tb, u, s, i) = s
  BY HopFacts

(* Where a pass ends there: always at the edge, or a word beyond. *)
LEMMA EdgePass ==
  ASSUME TypeOK, geometry \in Geometries, Degenerate, n # 0, n \in Entries
  PROVE  /\ Pass(Align) = Over /\ Pass(Over) = Over /\ Pass(Edge) = Edge
<1>1. /\ table \in TableType /\ U \in Nat \ {0} /\ Align \in Nat \ {0} /\ Word \in Nat \ {0}
  BY UnitType, PartAssumption DEF TypeOK, TableType
<1>2. /\ Edge \in Nat \ {0} /\ (Edge < Align => Edge < (Align \div U) * U)
      /\ Over \in Nat \ {0} /\ Edge <= Over /\ Over = Align + Stored(Edge - Align)
      /\ Stored(Edge - Align) \in Nat
  BY EdgeFacts
<1>3. /\ table[0].sys /\ table[0].first = Align /\ table[0].size = Stored(Edge - Align)
      /\ \A i \in 1..3 : table[i].sys => table[i].first = Edge /\ table[i].size = 0
  BY DEF Degenerate
<1>4. 0 \in Entries /\ 1 \in Entries /\ 2 \in Entries /\ 3 \in Entries
      /\ \A i \in Entries : i = 0 \/ i \in 1..3
  BY DEF Entries
<1>5. ASSUME NEW i \in 1..3, NEW s \in Nat \ {0}, Edge <= s
      PROVE  Hop(table, U, s, i) = s
  <2>1. i \in Entries
    BY <1>4
  <2>2. CASE ~table[i].sys
    BY <1>1, <2>1, <2>2, HopEmpty
  <2>3. CASE table[i].sys
    <3>1. table[i].first + table[i].size <= s
      BY <1>2, <1>3, <1>5, <2>3
    <3> QED
      BY <1>1, <2>1, <3>1, HopBehind
  <2> QED
    BY <2>2, <2>3
<1>6. Hop(table, U, Align, 0) = Over
  <2>1. table[0].first # 0
    BY <1>1, <1>3
  <2>2. Hop(table, U, table[0].first, 0) = table[0].first + table[0].size
    BY <1>1, <1>3, <1>4, <2>1, HopOver
  <2> QED
    BY <1>2, <1>3, <2>2
<1>7. Hop(table, U, Over, 0) = Over
  <2>1. table[0].first + table[0].size <= Over
    BY <1>2, <1>3
  <2> QED
    BY <1>1, <1>2, <1>4, <2>1, HopBehind
<1>8. Hop(table, U, Edge, 0) = Edge
  <2>1. CASE Edge < Align
    <3>1. ~((table[0].first \div U) * U <= Edge)
      <4> DEFINE f == (Align \div U) * U
      <4>1. f \in Nat /\ Edge < f
        BY <1>1, <1>2, <2>1, DivBounds
      <4>2. (table[0].first \div U) * U = f
        BY <1>3
      <4> HIDE DEF f
      <4> QED
        BY <1>2, <4>1, <4>2
    <3> QED
      BY <1>3, <3>1 DEF Hop
  <2>2. CASE ~(Edge < Align)
    <3>1. Over = Edge
      BY <2>2 DEF Over
    <3> QED
      BY <1>7, <3>1
  <2> QED
    BY <2>1, <2>2
<1>9. ASSUME NEW s \in Nat \ {0}, NEW e \in Nat \ {0}, Edge <= e, Hop(table, U, s, 0) = e
      PROVE  Pass(s) = e
  <2>1. Hop(table, U, e, 1) = e /\ Hop(table, U, e, 2) = e /\ Hop(table, U, e, 3) = e
    BY <1>5, <1>9
  <2>2. Trip(table, U, s) = e
    BY <1>9, <2>1 DEF Trip
  <2> QED
    BY <2>2, PassIsTrip
<1> QED
  BY <1>1, <1>2, <1>6, <1>7, <1>8, <1>9

LEMMA EmptyPass ==
  ASSUME TypeOK, geometry \in Geometries, \A i \in Entries : ~table[i].sys,
         NEW s \in Nat \ {0}
  PROVE  Pass(s) = s
<1>1. table \in TableType /\ U \in Nat \ {0}
  BY UnitType DEF TypeOK, TableType
<1>2. Trip(table, U, s) = s
  BY <1>1, TripFixed
<1> QED
  BY <1>2, PassIsTrip

(* A round of the search on a disk without a cylinder. *)
LEMMA NoCylinderSearch ==
  ASSUME TypeOK, Search, geometry \in Geometries, offset \in 1..Word-1,
         start < 2 * Word, cylinders = 0, Degenerate
  PROVE  /\ Degenerate'
         /\ read => Pass(start) = start
<1>1. /\ UNCHANGED <<disk, offset, n, table>> /\ pc = "search"
      /\ pc' \in {"search", "place"} /\ n \in 0..parts-1 /\ parts \in 1..MaxParts
      /\ start \in Nat /\ read \in BOOLEAN
  BY DEF Search, TypeOK
<1>2. n \in Entries
  BY <1>1 DEF Entries, MaxParts
<1>3. U' = U /\ Edge' = Edge /\ Over' = Over
  BY <1>1 DEF disk, U, Edge, Over, CylinderEnd
<1>4. Limit \in Nat /\ 2 * Word <= Limit /\ U \in Nat \ {0} /\ Word \in Nat \ {0}
  BY <1>1, NoCylinder, UnitType, PartAssumption
<1>5. CASE n = 0
  <2>1. start = offset /\ offset = geometry[2] /\ \A i \in Entries : ~table[i].sys
    BY <1>1, <1>5 DEF Degenerate, Entries
  <2>2. Pass(start) = start
    BY <2>1, EmptyPass
  <2>3. Rounded(start) = start
    <3>1. start \in 0..Word-1
      BY <1>1, <1>4, <2>1
    <3>2. start % Word = start
      BY <1>4, <3>1, ModSmall
    <3> QED
      BY <1>1, <3>2, RoundedIs
  <2>4. start' = start
    BY <2>2, <2>3 DEF Search
  <2>5. Degenerate'
    <3>1. geometry' = geometry /\ table' = table /\ n' = n /\ offset' = offset
      BY <1>1 DEF disk
    <3> QED
      BY <1>5, <2>1, <2>4, <3>1 DEF Degenerate
  <2> QED
    BY <2>2, <2>5
<1>6. CASE n # 0
  <2>1. start \in {Align, Edge, Over} /\ (read => start = Edge) /\ offset = Align
    BY <1>1, <1>6 DEF Degenerate
  <2>2. /\ Pass(Align) = Over /\ Pass(Over) = Over /\ Pass(Edge) = Edge
    BY <1>2, <1>6, EdgePass
  <2>3. /\ Edge \in Nat \ {0} /\ Edge < Word /\ Over \in Nat \ {0} /\ Over < 2 * Word
        /\ Over % Word = Edge
    <3>1. Reach < Word /\ Reach \in Nat
      BY ReachFacts
    <3> QED
      BY <1>4, <3>1, EdgeFacts
  <2>4. Rounded(Edge) = Edge /\ Rounded(Over) = Edge
    BY <1>4, <2>3, RoundedIs, ModSmall
  <2>5. Pass(start) \in {Edge, Over} /\ Pass(start) <= Limit
    BY <1>4, <2>1, <2>2, <2>3
  <2>6. read => Pass(start) = start
    BY <2>1, <2>2
  <2> DEFINE s == Pass(start)
  <2>7. /\ IF ~read /\ s = start
             THEN start' = Rounded(s) /\ read' = TRUE
             ELSE start' = s /\ read' = read
        /\ pc' = IF start' # start \/ ~read' THEN "search" ELSE "place"
    <3>1. ~(s > Limit)
      BY <1>4, <2>3, <2>5
    <3>2. ~(read /\ s >= start + U)
      BY <1>1, <1>4, <2>6
    <3> QED
      BY <1>1, <3>1, <3>2 DEF Search
  <2>8. start' \in {Align, Edge, Over} /\ (read' => start' = Edge)
    <3>1. CASE read
      BY <2>1, <2>6, <2>7, <3>1
    <3>2. CASE ~read /\ s = start
      <4>1. start' = Rounded(s) /\ s \in {Edge, Over}
        BY <2>5, <2>7, <3>2
      <4> QED
        BY <2>4, <4>1
    <3>3. CASE ~read /\ s # start
      BY <2>5, <2>7, <3>3
    <3> QED
      BY <3>1, <3>2, <3>3
  <2>9. pc' = "place" => start' = Edge
    BY <2>7, <2>8
  <2>10. /\ table' = table /\ n' = n /\ offset' = offset
         /\ Stored(Edge - Align)' = Stored(Edge - Align)
    BY <1>1, <1>3 DEF Stored
  <2>11. Degenerate'
    BY <1>1, <1>3, <1>6, <2>8, <2>9, <2>10 DEF Degenerate
  <2> QED
    BY <2>6, <2>11
<1> QED
  BY <1>5, <1>6

(* An entry made on a disk without a cylinder. *)
LEMMA NoCylinderPlace ==
  ASSUME TypeOK, Place, geometry \in Geometries, cylinders = 0, Degenerate, pc' = "add"
  PROVE  Degenerate'
<1>1. /\ UNCHANGED <<disk, start>> /\ n' = n + 1 /\ pc = "place"
      /\ n \in 0..parts-1 /\ parts \in 1..MaxParts /\ n # parts - 1 /\ start \in Nat
  BY DEF Place, TypeOK
<1>2. n \in {0, 1, 2} /\ n \in Entries
  BY <1>1 DEF Entries, MaxParts
<1>3. U' = U /\ Edge' = Edge /\ Stored(Edge - Align)' = Stored(Edge - Align)
  BY <1>1 DEF disk, U, Edge, CylinderEnd, Stored
<1>4. ~table[n].sys
  BY <1>2 DEF Degenerate
<1>5. /\ Edge \in Nat \ {0} /\ Edge < Reach /\ geometry[2] < Reach
      /\ CylinderEnd(Edge) = Edge /\ Align \in Nat \ {0} /\ Word \in Nat \ {0}
  BY EdgeFacts, PartAssumption
<1>6. start < Reach /\ CylinderEnd(start) = Edge /\ (n # 0 => start = Edge)
  <2>1. CASE n = 0
    <3>1. start = geometry[2]
      BY <1>1, <2>1 DEF Degenerate
    <3> QED
      BY <1>5, <2>1, <3>1 DEF Edge
  <2>2. CASE n # 0
    <3>1. start = Edge
      BY <1>1, <2>2 DEF Degenerate
    <3> QED
      BY <1>5, <3>1
  <2> QED
    BY <2>1, <2>2
<1>7. start <= FreeLimit /\ Stop = Edge - 1
  BY <1>1, <1>2, <1>4, <1>6, NoCylinderStop
<1>8. start \in Nat /\ FreeLimit \in Int
  BY <1>1, FreeLimitType
<1> DEFINE f == IF n = 0 THEN Align ELSE start
<1>9. /\ table' = [table EXCEPT ![n] = [sys |-> TRUE, first |-> Stored(f),
                                        size |-> Stored(Stop - f + 1)]]
      /\ offset' = IF n = 0 THEN Align ELSE offset
  BY <1>7, <1>8 DEF Place, set_partition
<1>10. DOMAIN table = Entries
  BY DEF TypeOK
<1>11. CASE n = 0
  <2>1. f = Align /\ Stop - f + 1 = Edge - Align
    BY <1>5, <1>7, <1>11
  <2>2. Stored(Align) = Align
    <3>1. Align < Word
      BY <1>5, UnitFacts
    <3> QED
      BY <1>5, <3>1, ModSmall DEF Stored
  <2>3. table'[0] = [sys |-> TRUE, first |-> Align, size |-> Stored(Edge - Align)]
    BY <1>2, <1>9, <1>10, <1>11, <2>1, <2>2
  <2>4. \A i \in Entries : i >= 1 => ~table'[i].sys
    BY <1>9, <1>10, <1>11 DEF Degenerate, Entries
  <2>5. offset' = Align /\ n' = 1
    BY <1>1, <1>9, <1>11
  <2> QED
    BY <1>3, <2>3, <2>4, <2>5 DEF Degenerate, Entries
<1>12. CASE n # 0
  <2>1. f = Edge /\ Stop - f + 1 = 0
    BY <1>5, <1>6, <1>7, <1>12
  <2>2. Stored(Edge) = Edge /\ Stored(0) = 0
    <3>1. Reach < Word /\ Reach \in Nat
      BY ReachFacts
    <3> QED
      BY <1>5, <3>1, ModSmall DEF Stored
  <2>3. table'[n].first = Edge /\ table'[n].size = 0
    BY <1>2, <1>9, <1>10, <2>1, <2>2
  <2>4. \A i \in Entries : i # n => table'[i] = table[i]
    BY <1>9, <1>10
  <2>5. /\ offset = Align /\ \A i \in Entries : i >= n => ~table[i].sys
        /\ table[0] = [sys |-> TRUE, first |-> Align, size |-> Stored(Edge - Align)]
        /\ \A i \in 1..3 : table[i].sys => table[i].first = Edge /\ table[i].size = 0
    BY <1>12 DEF Degenerate
  <2>6. offset' = Align /\ n' = n + 1 /\ n' # 0
    BY <1>1, <1>2, <1>9, <1>12, <2>5
  <2>7. \A i \in Entries : i >= n' => ~table'[i].sys
    <3> SUFFICES ASSUME NEW i \in Entries, i >= n' PROVE ~table'[i].sys
      OBVIOUS
    <3>1. i # n /\ i >= n
      BY <1>2, <2>6 DEF Entries
    <3> QED
      BY <2>4, <2>5, <3>1
  <2>8. table'[0] = [sys |-> TRUE, first |-> Align, size |-> Stored(Edge - Align)]
    BY <1>12, <2>4, <2>5 DEF Entries
  <2>9. \A i \in 1..3 : table'[i].sys => table'[i].first = Edge /\ table'[i].size = 0
    <3> SUFFICES ASSUME NEW i \in 1..3, table'[i].sys
                 PROVE  table'[i].first = Edge /\ table'[i].size = 0
      OBVIOUS
    <3>1. i \in Entries
      BY DEF Entries
    <3> QED
      BY <2>3, <2>4, <2>5, <3>1
  <2> QED
    BY <1>3, <2>6, <2>7, <2>8, <2>9 DEF Degenerate
<1> QED
  BY <1>11, <1>12

THEOREM TermInvHolds == Spec => []TermInv
<1>1. Init => TermInv
  BY DEF Init, TermInv
<1>2. TermInv /\ PartInv /\ TypeOK /\ TypeOK' /\ [Next]_vars => TermInv'
  <2> SUFFICES ASSUME TermInv, PartInv, TypeOK, TypeOK', [Next]_vars
               PROVE  TermInv'
    OBVIOUS
  <2>1. CASE MakePart
    <3>1. pc' \notin {"add", "search", "place"}
      BY <2>1 DEF MakePart
    <3> QED
      BY <3>1 DEF TermInv
  <2>2. CASE get_geometry
    <3>1. /\ geometry' \in Geometries /\ offset' = geometry'[2] /\ n' = 0
          /\ pc' = "add" /\ table' = NoTable
      BY <2>2 DEF get_geometry, get_kernel_geometry, PartInv
    <3>2. offset' \in 1..Word-1
      <4>1. /\ geometry'[1] \in Nat \ {0} /\ geometry'[2] \in Nat \ {0}
            /\ 2 * geometry'[2] <= Align /\ Align \in Nat
            /\ 3 * (geometry'[1] * geometry'[2]) + 4 * Align + 8 <= Word /\ Word \in Nat
        BY <3>1, PartAssumption DEF TypeOK
      <4>2. geometry'[1] * geometry'[2] \in Nat
        BY <4>1, MulMono
      <4> DEFINE u == geometry'[1] * geometry'[2]
      <4>3. u \in Nat /\ 3 * u + 4 * Align + 8 <= Word
        BY <4>1, <4>2
      <4> HIDE DEF u
      <4> QED
        BY <3>1, <4>1, <4>3
    <3>3. Degenerate'
      BY <3>1 DEF Degenerate, NoTable, Entries
    <3> QED
      BY <3>1, <3>2, <3>3 DEF TermInv
  <2>3. CASE Enter
    <3>1. /\ UNCHANGED <<disk, offset, n, table>> /\ start' = offset /\ read' = FALSE
          /\ pc = "add" /\ pc' = "search"
      BY <2>3 DEF Enter
    <3>2. geometry \in Geometries /\ offset \in 1..Word-1 /\ (cylinders = 0 => Degenerate)
      BY <3>1 DEF TermInv
    <3>3. cylinders' = cylinders /\ geometry' = geometry
      BY <3>1 DEF disk, cylinders, U
    <3>4. Degenerate => Degenerate'
      <4>1. Edge' = Edge /\ Stored(Edge - Align)' = Stored(Edge - Align)
        BY <3>1 DEF disk, U, Edge, CylinderEnd, Stored
      <4> QED
        BY <3>1, <3>3, <4>1 DEF Degenerate
    <3>5. offset < 2 * Word
      BY <3>2, PartAssumption
    <3> QED
      BY <3>1, <3>2, <3>3, <3>4, <3>5 DEF TermInv
  <2>4. CASE Search
    <3>1. /\ UNCHANGED <<disk, offset, n, table>> /\ pc = "search"
          /\ pc' \in {"search", "place"}
      BY <2>4 DEF Search
    <3>2. /\ geometry \in Geometries /\ offset \in 1..Word-1 /\ start < 2 * Word
          /\ (cylinders = 0 => Degenerate) /\ offset < Word
      BY <3>1, PartAssumption DEF TermInv
    <3>3. cylinders' = cylinders /\ geometry' = geometry
      BY <3>1 DEF disk, cylinders, U
    <3>4. cylinders = 0 => Degenerate'
      BY <2>4, <3>2, NoCylinderSearch
    <3>5. pc' = "search" => start' < 2 * Word
      <4> DEFINE s == Pass(start)
      <4> SUFFICES ASSUME pc' = "search" PROVE start' < 2 * Word
        OBVIOUS
      <4>1. /\ s <= Limit /\ s \in Nat /\ s < 2 * Word
            /\ \/ start' = s /\ start < s /\ read' = read
               \/ /\ start' = s % Word /\ start' \in 0..Word-1 /\ Word <= s
                  /\ read' = TRUE /\ (read => s >= start + U)
        BY <2>4, <3>2, SearchGoesOn
      <4> HIDE DEF s
      <4> QED
        BY <4>1, PartAssumption
    <3> QED
      BY <3>1, <3>2, <3>3, <3>4, <3>5 DEF TermInv
  <2>5. CASE Place
    <3>1. /\ UNCHANGED <<disk, start>> /\ pc = "place" /\ pc' \in {"write", "add"}
          /\ offset' \in {Align, offset}
      BY <2>5 DEF Place
    <3>2. geometry \in Geometries /\ offset \in 1..Word-1 /\ (cylinders = 0 => Degenerate)
      BY <3>1 DEF TermInv
    <3>3. cylinders' = cylinders /\ geometry' = geometry
      BY <3>1 DEF disk, cylinders, U
    <3>4. Align \in 1..Word-1
      BY <3>2, UnitFacts
    <3>5. pc' = "add" /\ cylinders = 0 => Degenerate'
      BY <2>5, <3>2, NoCylinderPlace
    <3> QED
      BY <3>1, <3>2, <3>3, <3>4, <3>5 DEF TermInv
  <2>6. CASE writeTable \/ reread_partition_table
    <3>1. pc' \notin {"add", "search", "place"}
      BY <2>6 DEF writeTable, reread_partition_table
    <3> QED
      BY <3>1 DEF TermInv
  <2>7. CASE UNCHANGED vars
    BY <2>7 DEF vars, TermInv, Degenerate, Edge, Over, CylinderEnd, U, cylinders, Stored
  <2> QED
    BY <2>1, <2>2, <2>3, <2>4, <2>5, <2>6, <2>7 DEF Next
<1> QED
  BY <1>1, <1>2, PartInvHolds, TypeCorrect, PTL DEF Spec

(* A round of the search that is not the last. *)
LEMMA EveryRoundAdvances ==
  ASSUME TypeOK, PartInv, TermInv, Search, pc' = "search"
  PROVE  0 <= SearchRank' /\ SearchRank' < SearchRank
<1>1. Search /\ pc = "search"
  BY DEF Search
<1>2. /\ geometry \in Geometries /\ offset \in 1..Word-1 /\ start < 2 * Word
      /\ (cylinders = 0 => Degenerate) /\ offset < Word
      /\ start \in Nat /\ read \in BOOLEAN /\ parts \in 1..MaxParts
  BY <1>1, PartAssumption DEF TermInv, TypeOK
<1>3. U \in Nat \ {0} /\ Word \in Nat \ {0}
  BY UnitType, PartAssumption
<1> DEFINE s == Pass(start)
<1>4. /\ s <= Limit /\ s \in Nat /\ s < 2 * Word
      /\ \/ start' = s /\ start < s /\ read' = read
         \/ /\ start' = s % Word /\ start' \in 0..Word-1 /\ Word <= s
            /\ read' = TRUE /\ (read => s >= start + U)
  BY <1>1, <1>2, SearchGoesOn
<1>5. ASSUME read, Word <= s PROVE s < start + U
  <2>1. CASE cylinders = 0
    BY <1>1, <1>2, <1>3, <1>5, <2>1, NoCylinderSearch
  <2>2. CASE cylinders # 0
    <3>1. Limit \in Nat
      BY StopType DEF Entries
    <3>2. Roomy
      BY <1>2, <1>3, <1>4, <1>5, <2>2, <3>1, LargeIsRoomy
    <3>3. Ahead /\ start = Free
      BY <1>1, <1>5, <3>2 DEF PartInv
    <3>4. table \in TableType /\ U \in Nat \ {0} /\ start \in Nat \ {0}
      BY <3>3, FreeType DEF Ahead
    <3>5. \A i \in Entries : table[i].sys => table[i].first + table[i].size <= start
      BY <3>3 DEF Ahead, End
    <3>6. s = start
      BY <3>4, <3>5, TripFixed, PassIsTrip
    <3> QED
      BY <1>2, <1>3, <3>6
  <2> QED
    BY <2>1, <2>2
<1> HIDE DEF s
<1>6. CASE start' = s /\ start < s /\ read' = read
  BY <1>2, <1>3, <1>4, <1>6 DEF SearchRank
<1>7. CASE /\ start' = s % Word /\ start' \in 0..Word-1 /\ Word <= s
           /\ read' = TRUE /\ (read => s >= start + U)
  <2>1. ~read
    BY <1>2, <1>3, <1>4, <1>5, <1>7
  <2> QED
    BY <1>2, <1>3, <1>7, <2>1 DEF SearchRank
<1> QED
  BY <1>4, <1>6, <1>7

(* fdisk_make_part comes to its end on every disk, whatever was placed before,
   in a bounded number of steps. *)
THEOREM EveryStepAdvances == Spec => CallAdvances
<1>1. TypeOK /\ TypeOK' /\ PartInv /\ TermInv /\ [Next]_vars =>
        [pc # "idle" =>
           /\ Phase' \in Nat
           /\ \/ Phase' < Phase
              \/ Phase' = Phase /\ 0 <= SearchRank' /\ SearchRank' < SearchRank]_vars
  <2> SUFFICES ASSUME TypeOK, TypeOK', PartInv, TermInv, Next, pc # "idle"
               PROVE  /\ Phase' \in Nat
                      /\ \/ Phase' < Phase
                         \/ Phase' = Phase /\ 0 <= SearchRank' /\ SearchRank' < SearchRank
    BY DEF vars
  <2>1. parts \in Nat \ {0} /\ n \in Nat
    BY DEF TypeOK, MaxParts
  <2>2. ~MakePart
    BY DEF MakePart
  <2>3. CASE get_geometry
    <3>1. Phase = 3 * parts + 3 /\ Phase' = 3 * (parts - 0) + 2
      BY <2>3 DEF get_geometry, Phase
    <3> QED
      BY <2>1, <3>1
  <2>4. CASE Enter
    <3>1. n \in 0..parts-1
      BY <2>4 DEF Enter, TypeOK
    <3>2. Phase = 3 * (parts - n) + 2 /\ Phase' = 3 * (parts - n) + 1
      BY <2>4 DEF Enter, Phase, disk
    <3> QED
      BY <2>1, <3>1, <3>2
  <2>5. CASE Search
    <3>1. n \in 0..parts-1 /\ Phase = 3 * (parts - n) + 1
      BY <2>5 DEF Search, Phase, TypeOK
    <3>2. CASE pc' = "search"
      <4>1. Phase' = 3 * (parts - n) + 1
        BY <2>5, <3>2 DEF Search, Phase, disk
      <4> QED
        BY <2>1, <2>5, <3>1, <3>2, <4>1, EveryRoundAdvances
    <3>3. CASE pc' = "place"
      <4>1. Phase' = 3 * (parts - n)
        BY <2>5, <3>3 DEF Search, Phase, disk
      <4> QED
        BY <2>1, <3>1, <4>1
    <3> QED
      BY <2>5, <3>2, <3>3 DEF Search
  <2>6. CASE Place
    <3>1. n \in 0..parts-1 /\ Phase = 3 * (parts - n) /\ n' = n + 1 /\ parts' = parts
      BY <2>6 DEF Place, Phase, TypeOK, disk
    <3>2. CASE n = parts - 1
      <4>1. Phase' = 2
        BY <2>6, <3>2 DEF Place, Phase
      <4> QED
        BY <2>1, <3>1, <3>2, <4>1
    <3>3. CASE n # parts - 1
      <4>1. Phase' = 3 * (parts - (n + 1)) + 2
        BY <2>6, <3>1, <3>3 DEF Place, Phase
      <4> QED
        BY <2>1, <3>1, <3>3, <4>1
    <3> QED
      BY <3>2, <3>3
  <2>7. CASE writeTable
    BY <2>7 DEF writeTable, Phase
  <2>8. CASE reread_partition_table
    BY <2>8 DEF reread_partition_table, Phase
  <2> QED
    BY <2>2, <2>3, <2>4, <2>5, <2>6, <2>7, <2>8 DEF Next
<1> QED
  BY <1>1, TypeCorrect, PartInvHolds, TermInvHolds, PTL DEF Spec, CallAdvances
=============================================================================
