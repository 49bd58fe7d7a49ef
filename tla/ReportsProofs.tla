----------------------------- MODULE ReportsProofs ----------------------------
(***************************************************************************)
(* Proofs about Reports, for every length of the arrays, any times and any *)
(* number of samples: where the benches store, that the sort sorts, that   *)
(* no sample is lost or made up, that the CSV file holds the last samples  *)
(* of every API and that the reports tell of them.                         *)
(***************************************************************************)
EXTENDS Reports, NumberTheorems, SequenceTheorems, TLAPS

-----------------------------------------------------------------------------
(* Where the arrays lie. *)

RowNames == {"fopen", "fclose", "fread", "fwrite", "fflush", "fileno", "fsync",
             "fstat", "access", "unlink", "sync", "rename"}

LEMMA RowsAre == Rows = RowNames
BY DEF Rows, Base, RowNames

LEMMA CountOfIs ==
  ASSUME NEW r
  PROVE  CountOf(r) = IF r \in {"fflush", "fileno", "fsync"} THEN "fsync" ELSE r
<1>1. ToSet(SyncRows) = {"fflush", "fileno", "fsync"}
  <2>1. SyncRows = <<"fflush", "fileno", "fsync">>
    BY DEF SyncRows
  <2>2. DOMAIN SyncRows = {1, 2, 3}
    BY <2>1
  <2> QED
    BY <2>1, <2>2 DEF ToSet
<1> QED
  BY <1>1 DEF CountOf

LEMMA ApisAre ==
  /\ Apis = RowNames \ {"fflush", "fileno"}
  /\ \A r \in Rows : CountOf(r) \in Apis /\ Size(CountOf(r)) = Size(r)
  /\ \A a \in Apis : a \in Rows /\ CountOf(a) = a
<1>1. Apis = RowNames \ {"fflush", "fileno"}
  BY RowsAre DEF Apis
<1> QED
  BY <1>1, RowsAre, CountOfIs DEF RowNames, Size

LEMMA SizeType ==
  ASSUME NEW r
  PROVE  Size(r) \in Nat \ {0} /\ Size(r) <= MaxApi /\ Size(r) > 1
BY ReportsAssumption DEF Size

(* The arrays share no cell. *)
LEMMA RowsApart ==
  ASSUME NEW r \in Rows
  PROVE  /\ Base[r] \in Nat
         /\ \A i \in 0..Size(r)-1 : Base[r] + i \in Cells
         /\ \A q \in Rows : r # q => \/ Base[r] + Size(r) <= Base[q]
                                     \/ Base[q] + Size(q) <= Base[r]
<1>1. MaxApi \in Nat /\ MaxFile \in Nat /\ MaxFile < MaxApi /\ 1 < MaxFile
  BY ReportsAssumption
<1>2. r \in RowNames
  BY RowsAre
<1>3. /\ Base["fopen"] = 0 /\ Base["fclose"] = MaxApi
      /\ Base["fread"] = 2 * MaxApi /\ Base["fwrite"] = 3 * MaxApi
      /\ Base["fflush"] = 4 * MaxApi /\ Base["fileno"] = 5 * MaxApi
      /\ Base["fsync"] = 6 * MaxApi /\ Base["fstat"] = 7 * MaxApi
      /\ Base["access"] = 8 * MaxApi /\ Base["unlink"] = 8 * MaxApi + MaxFile
      /\ Base["sync"] = 8 * MaxApi + 2 * MaxFile
      /\ Base["rename"] = 9 * MaxApi + 2 * MaxFile
  BY DEF Base
<1>4. /\ Base[r] \in Nat
      /\ \A i \in 0..Size(r)-1 : Base[r] + i \in Cells
  BY <1>1, <1>2, <1>3 DEF RowNames, Size, Cells
<1>5. ASSUME NEW q \in RowNames, r # q
      PROVE  \/ Base[r] + Size(r) <= Base[q]
             \/ Base[q] + Size(q) <= Base[r]
  <2>1. CASE r \in {"fopen", "fclose", "fread"}
    BY <1>1, <1>3, <1>5, <2>1 DEF RowNames, Size
  <2>2. CASE r \in {"fwrite", "fflush", "fileno"}
    BY <1>1, <1>3, <1>5, <2>2 DEF RowNames, Size
  <2>3. CASE r \in {"fsync", "fstat", "access"}
    BY <1>1, <1>3, <1>5, <2>3 DEF RowNames, Size
  <2>4. CASE r \in {"unlink", "sync", "rename"}
    BY <1>1, <1>3, <1>5, <2>4 DEF RowNames, Size
  <2> QED
    BY <1>2, <2>1, <2>2, <2>3, <2>4 DEF RowNames
<1> QED
  BY <1>4, <1>5, RowsAre

LEMMA CellOfOneRow ==
  ASSUME NEW r \in Rows, NEW q \in Rows,
         NEW i \in 0..Size(r)-1, NEW j \in 0..Size(q)-1, Base[r] + i = Base[q] + j
  PROVE  r = q /\ i = j
<1>1. Base[r] \in Nat /\ Base[q] \in Nat /\ Size(r) \in Nat /\ Size(q) \in Nat
  BY RowsApart, SizeType
<1>2. r = q
  BY <1>1, RowsApart
<1> QED
  BY <1>1, <1>2

(* Where mem ends, behind the last array. *)
End == 9 * MaxApi + 3 * MaxFile

LEMMA RowsEnd ==
  ASSUME NEW r \in Rows
  PROVE  /\ End \in Nat /\ Cells = 0 .. End - 1
         /\ Base[r] \in Nat /\ Base[r] + Size(r) <= End
         /\ CountOf(r) \in Rows /\ Base[r] <= Base[CountOf(r)]
         /\ Base[r] + (IF r = "rename" THEN MaxFile ELSE MaxApi) <= End
<1>1. MaxApi \in Nat /\ MaxFile \in Nat /\ MaxFile < MaxApi /\ 1 < MaxFile
  BY ReportsAssumption
<1>2. r \in RowNames /\ CountOf(r) = IF r \in {"fflush", "fileno", "fsync"} THEN "fsync" ELSE r
  BY RowsAre, CountOfIs
<1>3. /\ Base["fopen"] = 0 /\ Base["fclose"] = MaxApi
      /\ Base["fread"] = 2 * MaxApi /\ Base["fwrite"] = 3 * MaxApi
      /\ Base["fflush"] = 4 * MaxApi /\ Base["fileno"] = 5 * MaxApi
      /\ Base["fsync"] = 6 * MaxApi /\ Base["fstat"] = 7 * MaxApi
      /\ Base["access"] = 8 * MaxApi /\ Base["unlink"] = 8 * MaxApi + MaxFile
      /\ Base["sync"] = 8 * MaxApi + 2 * MaxFile
      /\ Base["rename"] = 9 * MaxApi + 2 * MaxFile
  BY DEF Base
<1>4. Base[r] \in Nat /\ Base[r] + Size(r) <= End
  BY <1>1, <1>2, <1>3 DEF RowNames, Size, End
<1>5. Base[r] + (IF r = "rename" THEN MaxFile ELSE MaxApi) <= End
  BY <1>1, <1>2, <1>3 DEF RowNames, End
<1>6. CountOf(r) \in Rows /\ Base[r] <= Base[CountOf(r)]
  BY <1>1, <1>2, <1>3, <1>4, RowsAre DEF RowNames
<1>7. End \in Nat /\ Cells = 0 .. End - 1
  BY <1>1 DEF End, Cells
<1> QED
  BY <1>4, <1>5, <1>6, <1>7

-----------------------------------------------------------------------------
(* Types, as far as they do not depend on what a sort computes.  A count is
   below MAX where one thread records; where more do, it is at most the number
   of calls.  And unlink has never more samples than access, as each removal
   begins with an access. *)

Typed ==
    /\ mem = [c \in Cells |-> mem[c]]
    /\ count = [a \in Apis |-> count[a]] /\ flag = [a \in Apis |-> flag[a]]
    /\ \A a \in Apis : /\ count[a] \in Nat /\ Base[a] + count[a] <= End
                       /\ ~Raced(a) => count[a] < Size(a)
                       /\ Raced(a) => count[a] <= Len(taken[a])
                       /\ flag[a] \in BOOLEAN
    /\ todo \in Seq(Rows)
    /\ racing \in BOOLEAN
    /\ \A r \in Rows : taken[r] \in Seq(Int)
    /\ report = [r \in Rows |-> report[r]] /\ seen = [r \in Rows |-> seen[r]]

UnlinkBehind ==
    ~flag["access"] => ~flag["unlink"] /\ count["unlink"] <= count["access"]

(* The samples of one call: all arrays that share a count are told. *)
Call(t) ==
    /\ DOMAIN t \subseteq Rows
    /\ \A r \in Rows : r \in DOMAIN t <=> CountOf(r) \in {CountOf(q) : q \in DOMAIN t}
    /\ \A r \in DOMAIN t : t[r] \in Int

(* No other thread is in the wrapper, ... *)
Alone(t) == \A r \in DOMAIN t : ~Raced(r)
(* ... or others may be. *)
Among(t, a) ==
    racing /\ a \in JobApis /\ a \in DOMAIN t /\ \A r \in DOMAIN t : CountOf(r) = a

LEMMA RacedIs ==
  ASSUME NEW r \in Rows
  PROVE  /\ Raced(r) <=> Raced(CountOf(r))
         /\ Raced(r) <=> racing /\ r \in JobApis \cup {"fflush", "fileno"}
<1>1. CountOf(r) \in Apis /\ CountOf(CountOf(r)) = CountOf(r)
  BY ApisAre
<1>2. CountOf(r) = IF r \in {"fflush", "fileno", "fsync"} THEN "fsync" ELSE r
  BY CountOfIs
<1> QED
  BY <1>1, <1>2 DEF Raced, JobApis

LEMMA CallOfOne ==
  ASSUME NEW a \in Apis \ {"fsync"}, NEW ms \in Int
  PROVE  Call(OneTime(a, ms)) /\ DOMAIN OneTime(a, ms) = {a}
<1> DEFINE t == OneTime(a, ms)
<1>1. DOMAIN t = {a} /\ t[a] = ms
  BY DEF OneTime
<1> HIDE DEF t
<1>2. Call(t)
  BY <1>1, RowsAre, ApisAre, CountOfIs DEF Call, RowNames
<1> QED
  BY <1>1, <1>2 DEF t

LEMMA CallOfSync ==
  ASSUME NEW ms \in SyncTimes
  PROVE  /\ Call(SyncTime(ms))
         /\ DOMAIN SyncTime(ms) = {"fflush", "fileno", "fsync"}
<1> DEFINE t == SyncTime(ms)
<1>1. DOMAIN t = {"fflush", "fileno", "fsync"}
  BY DEF SyncTime
<1>2. t["fflush"] = ms[1] /\ t["fileno"] = ms[2] /\ t["fsync"] = ms[3]
  BY DEF SyncTime
<1>3. ms[1] \in Int /\ ms[2] \in Int /\ ms[3] \in Int
  BY ReportsAssumption
<1> HIDE DEF t
<1>4. Call(t)
  BY <1>1, <1>2, <1>3, RowsAre, CountOfIs DEF Call, RowNames
<1> QED
  BY <1>1, <1>4 DEF t

LEMMA CallOfRm ==
  ASSUME NEW x \in Int, NEW y \in Int, NEW z \in Int
  PROVE  /\ Call([fstat |-> x, access |-> y])
         /\ DOMAIN [fstat |-> x, access |-> y] = {"fstat", "access"}
         /\ Call([fstat |-> x, access |-> y, unlink |-> z])
         /\ DOMAIN [fstat |-> x, access |-> y, unlink |-> z] = {"fstat", "access", "unlink"}
<1> DEFINE s == [fstat |-> x, access |-> y]
           t == [fstat |-> x, access |-> y, unlink |-> z]
<1>1. DOMAIN s = {"fstat", "access"} /\ DOMAIN t = {"fstat", "access", "unlink"}
  OBVIOUS
<1>2. /\ s["fstat"] = x /\ s["access"] = y
      /\ t["fstat"] = x /\ t["access"] = y /\ t["unlink"] = z
  OBVIOUS
<1> HIDE DEF s, t
<1>3. Call(s)
  BY <1>1, <1>2, RowsAre, CountOfIs DEF Call, RowNames
<1>4. Call(t)
  BY <1>1, <1>2, RowsAre, CountOfIs DEF Call, RowNames
<1> QED
  BY <1>1, <1>3, <1>4 DEF s, t

(* Which samples Work, Race and Rm record. *)
LEMMA WorkRecords ==
  ASSUME Work
  PROVE  \E t : Call(t) /\ Alone(t) /\ Record(t) /\ "unlink" \notin DOMAIN t
<1>1. CASE \E a \in Apis \ {"fsync", "unlink"}, ms \in Times : ~Raced(a) /\ Record(OneTime(a, ms))
  <2>1. PICK a \in Apis \ {"fsync", "unlink"}, ms \in Times : ~Raced(a) /\ Record(OneTime(a, ms))
    BY <1>1
  <2>2. ms \in Int
    BY ReportsAssumption
  <2>3. Call(OneTime(a, ms)) /\ DOMAIN OneTime(a, ms) = {a}
    BY <2>2, CallOfOne
  <2>4. Alone(OneTime(a, ms)) /\ "unlink" \notin DOMAIN OneTime(a, ms)
    BY <2>1, <2>3 DEF Alone
  <2> QED
    BY <2>1, <2>3, <2>4
<1>2. CASE \E ms \in SyncTimes : ~racing /\ Record(SyncTime(ms))
  <2>1. PICK ms \in SyncTimes : ~racing /\ Record(SyncTime(ms))
    BY <1>2
  <2>2. Call(SyncTime(ms)) /\ DOMAIN SyncTime(ms) = {"fflush", "fileno", "fsync"}
    BY CallOfSync
  <2>3. Alone(SyncTime(ms)) /\ "unlink" \notin DOMAIN SyncTime(ms)
    BY <2>1, <2>2 DEF Alone, Raced
  <2> QED
    BY <2>1, <2>2, <2>3
<1> QED
  BY <1>1, <1>2 DEF Work

LEMMA RaceRecords ==
  ASSUME Race
  PROVE  \E a, t : Call(t) /\ Among(t, a) /\ RaceRecord(a, t)
<1>1. racing
  BY DEF Race
<1>2. CASE \E a \in JobApis \ {"fsync"}, ms \in Times : RaceRecord(a, OneTime(a, ms))
  <2>1. PICK a \in JobApis \ {"fsync"}, ms \in Times : RaceRecord(a, OneTime(a, ms))
    BY <1>2
  <2>2. ms \in Int /\ a \in Apis \ {"fsync"}
    BY ReportsAssumption, ApisAre DEF JobApis, RowNames
  <2>3. Call(OneTime(a, ms)) /\ DOMAIN OneTime(a, ms) = {a} /\ CountOf(a) = a
    BY <2>2, CallOfOne, ApisAre
  <2>4. Among(OneTime(a, ms), a)
    BY <1>1, <2>3 DEF Among
  <2> QED
    BY <2>1, <2>3, <2>4
<1>3. CASE \E ms \in SyncTimes : RaceRecord("fsync", SyncTime(ms))
  <2>1. PICK ms \in SyncTimes : RaceRecord("fsync", SyncTime(ms))
    BY <1>3
  <2>2. Call(SyncTime(ms)) /\ DOMAIN SyncTime(ms) = {"fflush", "fileno", "fsync"}
    BY CallOfSync
  <2>3. Among(SyncTime(ms), "fsync")
    BY <1>1, <2>2, CountOfIs DEF Among, JobApis
  <2> QED
    BY <2>1, <2>2, <2>3
<1> QED
  BY <1>2, <1>3 DEF Race

LEMMA RmRecords ==
  ASSUME Rm
  PROVE  \E t : /\ Call(t) /\ Alone(t) /\ Record(t)
                /\ DOMAIN t \subseteq {"fstat", "access", "unlink"}
                /\ "unlink" \in DOMAIN t => "access" \in DOMAIN t
<1>1. PICK x \in Times, y \in Times, z \in Times :
          \/ Record(OneTime("fstat", x))
          \/ Record([fstat |-> x, access |-> y])
          \/ Record([fstat |-> x, access |-> y, unlink |-> z])
  BY DEF Rm
<1>2. x \in Int /\ y \in Int /\ z \in Int
  BY ReportsAssumption
<1> DEFINE q == OneTime("fstat", x)
           s == [fstat |-> x, access |-> y]
           t == [fstat |-> x, access |-> y, unlink |-> z]
<1>3. Call(q) /\ DOMAIN q = {"fstat"}
  BY <1>2, CallOfOne, ApisAre DEF RowNames
<1>4. /\ Call(s) /\ DOMAIN s = {"fstat", "access"}
      /\ Call(t) /\ DOMAIN t = {"fstat", "access", "unlink"}
  BY <1>2, CallOfRm
<1>5. Record(q) \/ Record(s) \/ Record(t)
  BY <1>1
<1>6. \A r \in {"fstat", "access", "unlink"} : ~Raced(r)
  BY CountOfIs DEF Raced, JobApis
<1> HIDE DEF q, s, t
<1>7. Alone(q) /\ Alone(s) /\ Alone(t)
  BY <1>3, <1>4, <1>6 DEF Alone
<1> QED
  BY <1>3, <1>4, <1>5, <1>7

-----------------------------------------------------------------------------
(* What a call does to the cells.  Of the samples that hit one cell the later
   one stays. *)
LEMMA StoreIs ==
  ASSUME NEW t, DOMAIN t \subseteq Rows, NEW at, Store(t, at), NEW c \in Cells
  PROVE  /\ (\A q \in DOMAIN t : Base[q] + at[q] # c) => mem'[c] = mem[c]
         /\ (\E q \in DOMAIN t : Base[q] + at[q] = c)
            => \E q \in DOMAIN t : Base[q] + at[q] = c /\ mem'[c] = t[q]
<1> DEFINE hit(d) == {r \in DOMAIN t : Base[r] + at[r] = d}
           last(d) == CHOOSE r \in hit(d) : \A q \in hit(d) : Base[q] <= Base[r]
<1>1. mem' = [d \in Cells |-> IF hit(d) = {} THEN mem[d] ELSE t[last(d)]]
  BY DEF Store
<1>2. mem'[c] = IF hit(c) = {} THEN mem[c] ELSE t[last(c)]
  <2> HIDE DEF hit, last
  <2> QED
    BY <1>1
<1>3. ASSUME NEW q0 \in hit(c) PROVE last(c) \in hit(c)
  <2> DEFINE B == {Base[q] : q \in hit(c)}
  <2>1. End \in Nat /\ \A q \in hit(c) : Base[q] \in 0..End
    <3>1. \A q \in Rows : End \in Nat /\ Base[q] \in 0..End
      <4> SUFFICES ASSUME NEW q \in Rows PROVE End \in Nat /\ Base[q] \in 0..End
        OBVIOUS
      <4>1. End \in Nat /\ Base[q] \in Nat /\ Base[q] + Size(q) <= End /\ Size(q) \in Nat
        BY RowsEnd, SizeType
      <4> QED
        BY <4>1
    <3> QED
      BY <1>3, <3>1
  <2>2. B \in SUBSET (0..End) /\ B # {}
    BY <1>3, <2>1
  <2>3. \E x \in B : \A y \in B : y <= x
    BY <2>1, <2>2, GreatestNat
  <2>4. \E r \in hit(c) : \A q \in hit(c) : Base[q] <= Base[r]
    BY <2>3
  <2> HIDE DEF hit
  <2> QED
    BY <2>4
<1>4. (\A q \in DOMAIN t : Base[q] + at[q] # c) => mem'[c] = mem[c]
  BY <1>2
<1>5. ASSUME NEW q0 \in DOMAIN t, Base[q0] + at[q0] = c
      PROVE  \E q \in DOMAIN t : Base[q] + at[q] = c /\ mem'[c] = t[q]
  <2>1. q0 \in hit(c)
    BY <1>5
  <2>2. last(c) \in hit(c) /\ mem'[c] = t[last(c)]
    BY <1>2, <1>3, <2>1
  <2> HIDE DEF last
  <2> QED
    BY <2>2
<1> QED
  BY <1>4, <1>5

(* If every sample goes into its array, it hits no cell of another. *)
LEMMA StoreInside ==
  ASSUME NEW t, DOMAIN t \subseteq Rows, NEW at, Store(t, at),
         \A q \in DOMAIN t : at[q] \in 0..Size(q)-1,
         NEW r \in Rows, NEW i \in 0..Size(r)-1
  PROVE  mem'[Base[r] + i] = IF r \in DOMAIN t /\ i = at[r] THEN t[r] ELSE mem[Base[r] + i]
<1> DEFINE c == Base[r] + i
<1>1. c \in Cells
  BY RowsApart
<1>2. ASSUME NEW q \in DOMAIN t, Base[q] + at[q] = c PROVE q = r /\ at[q] = i
  <2>1. q \in Rows /\ at[q] \in 0..Size(q)-1 /\ Base[r] + i = Base[q] + at[q]
    BY <1>2
  <2>2. r = q /\ i = at[q]
    BY <2>1, CellOfOneRow
  <2> QED
    BY <2>2
<1> HIDE DEF c
<1>3. CASE r \in DOMAIN t /\ i = at[r]
  <2>1. Base[r] + at[r] = c
    BY <1>3 DEF c
  <2>2. PICK q \in DOMAIN t : Base[q] + at[q] = c /\ mem'[c] = t[q]
    BY <1>1, <1>3, <2>1, StoreIs
  <2>3. q = r
    BY <1>2, <2>2
  <2> QED
    BY <1>3, <2>2, <2>3 DEF c
<1>4. CASE ~ (r \in DOMAIN t /\ i = at[r])
  <2>1. \A q \in DOMAIN t : Base[q] + at[q] # c
    BY <1>2, <1>4
  <2>2. mem'[c] = mem[c]
    BY <1>1, <2>1, StoreIs
  <2> QED
    BY <1>4, <2>2 DEF c
<1> QED
  BY <1>3, <1>4

(* What a call of a single caller does to the counts, ... *)
LEMMA RecordCounts ==
  ASSUME Typed, NEW t, Call(t), Record(t), NEW r \in Rows
  PROVE  LET a == CountOf(r)
         IN /\ r \in DOMAIN t /\ count[a] + 1 = Size(r) => count'[a] = 0 /\ flag'[a]
            /\ r \in DOMAIN t /\ count[a] + 1 # Size(r) => count'[a] = count[a] + 1
                                                           /\ flag'[a] = flag[a]
            /\ r \notin DOMAIN t => count'[a] = count[a] /\ flag'[a] = flag[a]
<1> DEFINE a == CountOf(r)
           timed == {CountOf(q) : q \in DOMAIN t}
<1>1. a \in Apis /\ Size(a) = Size(r)
  BY ApisAre
<1>2. r \in DOMAIN t <=> a \in timed
  BY DEF Call
<1>3. /\ count' = [b \in Apis |-> IF b \in timed /\ Fills(b) THEN 0
                                  ELSE IF b \in timed THEN count[b] + 1
                                  ELSE count[b]]
      /\ flag' = [b \in Apis |-> flag[b] \/ (b \in timed /\ Fills(b))]
  BY DEF Record
<1>4. flag[a] \in BOOLEAN
  BY <1>1 DEF Typed
<1> HIDE DEF a, timed
<1>5. /\ count'[a] = IF a \in timed /\ Fills(a) THEN 0
                     ELSE IF a \in timed THEN count[a] + 1
                     ELSE count[a]
      /\ flag'[a] = (flag[a] \/ (a \in timed /\ Fills(a)))
  BY <1>1, <1>3
<1>6. Fills(a) <=> count[a] + 1 = Size(r)
  BY <1>1 DEF Fills
<1>7. /\ r \in DOMAIN t /\ count[a] + 1 = Size(r) => count'[a] = 0 /\ flag'[a]
      /\ r \in DOMAIN t /\ count[a] + 1 # Size(r) => count'[a] = count[a] + 1
                                                     /\ flag'[a] = flag[a]
      /\ r \notin DOMAIN t => count'[a] = count[a] /\ flag'[a] = flag[a]
  BY <1>2, <1>4, <1>5, <1>6
<1> QED
  BY <1>7 DEF a

(* ... and to the arrays. *)
LEMMA RecordCells ==
  ASSUME Typed, NEW t, Call(t), Alone(t), Record(t), NEW r \in Rows, NEW i \in 0..Size(r)-1
  PROVE  mem'[Base[r] + i] = IF r \in DOMAIN t /\ i = count[CountOf(r)]
                               THEN t[r] ELSE mem[Base[r] + i]
<1> DEFINE at == [q \in DOMAIN t |-> count[CountOf(q)]]
<1>1. Store(t, at)
  BY DEF Record
<1>2. ASSUME NEW q \in DOMAIN t PROVE at[q] \in 0..Size(q)-1
  <2>1. q \in Rows /\ CountOf(q) \in Apis /\ Size(CountOf(q)) = Size(q)
    BY ApisAre DEF Call
  <2>2. ~Raced(CountOf(q))
    BY <2>1, RacedIs DEF Alone
  <2>3. count[CountOf(q)] \in Nat /\ count[CountOf(q)] < Size(q) /\ Size(q) \in Nat
    BY <2>1, <2>2, SizeType DEF Typed
  <2> QED
    BY <2>3
<1>3. DOMAIN t \subseteq Rows
  BY DEF Call
<1>4. r \in DOMAIN t => at[r] = count[CountOf(r)]
  OBVIOUS
<1> HIDE DEF at
<1> QED
  BY <1>1, <1>2, <1>3, <1>4, StoreInside

LEMMA StoreTakes ==
  ASSUME Typed, NEW t, Call(t), NEW at, Store(t, at), NEW r \in Rows
  PROVE  /\ taken'[r] = IF r \in DOMAIN t THEN Append(taken[r], t[r]) ELSE taken[r]
         /\ taken'[r] \in Seq(Int)
         /\ Len(taken'[r]) = IF r \in DOMAIN t THEN Len(taken[r]) + 1 ELSE Len(taken[r])
         /\ Len(taken[r]) \in Nat
<1>1. taken'[r] = IF r \in DOMAIN t THEN Append(taken[r], t[r]) ELSE taken[r]
  BY DEF Store
<1>2. taken[r] \in Seq(Int) /\ (r \in DOMAIN t => t[r] \in Int)
  BY DEF Typed, Call
<1> QED
  BY <1>1, <1>2, AppendProperties, LenProperties

LEMMA RecordTyped ==
  ASSUME Typed, NEW t, Call(t), Alone(t), Record(t)
  PROVE  Typed'
<1> DEFINE at == [q \in DOMAIN t |-> count[CountOf(q)]]
<1>0. Store(t, at)
  BY DEF Record
<1>1. mem' = [c \in Cells |-> mem'[c]]
  BY DEF Record, Store
<1>2. UNCHANGED <<racing, todo, report, seen>>
  BY DEF Record, Store
<1>3. \A r \in Rows : Raced(r)' <=> Raced(r)
  BY <1>2 DEF Raced
<1>4. ASSUME NEW a \in Apis
      PROVE  /\ count'[a] \in Nat /\ Base[a] + count'[a] <= End
             /\ ~Raced(a) => count'[a] < Size(a)
             /\ Raced(a) => count'[a] <= Len(taken'[a])
             /\ flag'[a] \in BOOLEAN
  <2>1. a \in Rows /\ CountOf(a) = a
    BY ApisAre
  <2>2. /\ count[a] \in Nat /\ Base[a] + count[a] <= End
        /\ ~Raced(a) => count[a] < Size(a)
        /\ Raced(a) => count[a] <= Len(taken[a])
        /\ flag[a] \in BOOLEAN
    BY DEF Typed
  <2>3. /\ a \in DOMAIN t /\ count[a] + 1 = Size(a) => count'[a] = 0 /\ flag'[a]
        /\ a \in DOMAIN t /\ count[a] + 1 # Size(a) => count'[a] = count[a] + 1
                                                       /\ flag'[a] = flag[a]
        /\ a \notin DOMAIN t => count'[a] = count[a] /\ flag'[a] = flag[a]
    BY <2>1, RecordCounts
  <2>4. flag'[a] \in BOOLEAN
    BY DEF Record
  <2>5. Base[a] \in Nat /\ Base[a] + Size(a) <= End /\ End \in Nat /\ Size(a) \in Nat
    BY <2>1, RowsEnd, SizeType
  <2>6. a \in DOMAIN t => ~Raced(a)
    BY DEF Alone
  <2>7. a \notin DOMAIN t => taken'[a] = taken[a]
    BY <2>1, <1>0, StoreTakes
  <2>8. CASE a \notin DOMAIN t
    BY <2>2, <2>3, <2>4, <2>7, <2>8
  <2>9. CASE a \in DOMAIN t
    <3>1. count'[a] \in Nat /\ count'[a] < Size(a)
      BY <2>2, <2>3, <2>5, <2>6, <2>9
    <3>2. Base[a] + count'[a] <= End
      BY <2>5, <3>1
    <3> QED
      BY <2>4, <2>6, <2>9, <3>1, <3>2
  <2> QED
    BY <2>8, <2>9
<1>5. \A r \in Rows : taken'[r] \in Seq(Int)
  BY <1>0, StoreTakes
<1>6. count' = [a \in Apis |-> count'[a]] /\ flag' = [a \in Apis |-> flag'[a]]
  BY DEF Record
<1>7. \A a \in Apis : Raced(a)' <=> Raced(a)
  BY <1>3, ApisAre
<1> QED
  BY <1>1, <1>2, <1>4, <1>5, <1>6, <1>7 DEF Typed

LEMMA RecordBehind ==
  ASSUME Typed, UnlinkBehind, NEW t, Call(t), Record(t),
         "unlink" \notin DOMAIN t \/ "access" \in DOMAIN t
  PROVE  UnlinkBehind'
<1>1. /\ "access" \in Apis /\ "unlink" \in Apis /\ "access" \in Rows /\ "unlink" \in Rows
      /\ CountOf("access") = "access" /\ CountOf("unlink") = "unlink"
      /\ Size("access") = MaxFile /\ Size("unlink") = MaxFile
      /\ ~Raced("access") /\ ~Raced("unlink")
  BY RowsAre, ApisAre, RacedIs DEF RowNames, Size, JobApis
<1>2. /\ count["access"] \in 0..MaxFile-1 /\ flag["access"] \in BOOLEAN
      /\ count["unlink"] \in 0..MaxFile-1 /\ flag["unlink"] \in BOOLEAN
      /\ MaxFile \in Nat /\ 1 < MaxFile
  BY <1>1, ReportsAssumption DEF Typed
<1>3. /\ "access" \in DOMAIN t /\ count["access"] + 1 = MaxFile =>
            count'["access"] = 0 /\ flag'["access"]
      /\ "access" \in DOMAIN t /\ count["access"] + 1 # MaxFile =>
            count'["access"] = count["access"] + 1 /\ flag'["access"] = flag["access"]
      /\ "access" \notin DOMAIN t =>
            count'["access"] = count["access"] /\ flag'["access"] = flag["access"]
  BY <1>1, RecordCounts
<1>4. /\ "unlink" \in DOMAIN t /\ count["unlink"] + 1 = MaxFile =>
            count'["unlink"] = 0 /\ flag'["unlink"]
      /\ "unlink" \in DOMAIN t /\ count["unlink"] + 1 # MaxFile =>
            count'["unlink"] = count["unlink"] + 1 /\ flag'["unlink"] = flag["unlink"]
      /\ "unlink" \notin DOMAIN t =>
            count'["unlink"] = count["unlink"] /\ flag'["unlink"] = flag["unlink"]
  BY <1>1, RecordCounts
<1>5. SUFFICES ASSUME ~flag'["access"]
               PROVE  ~flag'["unlink"] /\ count'["unlink"] <= count'["access"]
  BY DEF UnlinkBehind
<1>6. ~flag["access"]
  BY <1>2, <1>3, <1>5
<1>7. ~flag["unlink"] /\ count["unlink"] <= count["access"]
  BY <1>6 DEF UnlinkBehind
<1>8. CASE "unlink" \notin DOMAIN t
  BY <1>2, <1>3, <1>4, <1>5, <1>7, <1>8
<1>9. CASE "unlink" \in DOMAIN t /\ "access" \in DOMAIN t
  <2>1. count["access"] + 1 # MaxFile
    BY <1>3, <1>5, <1>9
  <2>2. count["unlink"] + 1 # MaxFile
    BY <1>2, <1>7, <2>1
  <2> QED
    BY <1>2, <1>3, <1>4, <1>7, <1>9, <2>1, <2>2
<1> QED
  BY <1>8, <1>9

(* A call among others leaves the counts of other APIs alone, ... *)
LEMMA RaceCounts ==
  ASSUME Typed, NEW t, NEW a, Call(t), Among(t, a), RaceRecord(a, t)
  PROVE  \E at \in [DOMAIN t -> 0..Len(taken[a])] :
            /\ Store(t, at) /\ a \in DOMAIN t /\ a \in Apis
            /\ ~flag[a] => at[a] <= count[a] /\ count'[a] = at[a] + 1
            /\ count'[a] \in {0, at[a] + 1} /\ Base[a] + at[a] \in Cells
            /\ count' = [b \in Apis |-> IF b = a THEN count'[a] ELSE count[b]]
            /\ flag' = flag
<1>1. PICK at \in [DOMAIN t -> 0..Len(taken[a])] :
         /\ ~flag[a] => at[a] <= count[a]
         /\ \A r \in DOMAIN t : Base[r] + at[r] \in Cells
         /\ Store(t, at)
         /\ \E n \in {at[a] + 1} \cup {k \in {0} : flag[a]} :
               count' = [count EXCEPT ![a] = n]
         /\ UNCHANGED flag
  BY DEF RaceRecord
<1>2. PICK n \in {at[a] + 1} \cup {k \in {0} : flag[a]} : count' = [count EXCEPT ![a] = n]
  BY <1>1
<1>3. a \in Apis /\ a \in Rows /\ CountOf(a) = a
  BY ApisAre DEF Among, JobApis, RowNames
<1>4. a \in DOMAIN t
  BY DEF Among
<1>5. count = [b \in Apis |-> count[b]]
  BY DEF Typed
<1>6. count' = [b \in Apis |-> IF b = a THEN n ELSE count[b]]
  BY <1>2, <1>3, <1>5
<1>7. count'[a] = n
  BY <1>3, <1>6
<1>8. ~flag[a] => n = at[a] + 1
  BY <1>2
<1>9. n \in {0, at[a] + 1}
  BY <1>2
<1> WITNESS at \in [DOMAIN t -> 0..Len(taken[a])]
<1> QED
  BY <1>1, <1>3, <1>4, <1>6, <1>7, <1>8, <1>9

LEMMA RaceTyped ==
  ASSUME Typed, UnlinkBehind, Race
  PROVE  Typed' /\ UnlinkBehind'
<1>1. PICK a, t : Call(t) /\ Among(t, a) /\ RaceRecord(a, t)
  BY RaceRecords
<1>2. PICK at \in [DOMAIN t -> 0..Len(taken[a])] :
            /\ Store(t, at) /\ a \in DOMAIN t /\ a \in Apis
            /\ ~flag[a] => at[a] <= count[a] /\ count'[a] = at[a] + 1
            /\ count'[a] \in {0, at[a] + 1} /\ Base[a] + at[a] \in Cells
            /\ count' = [b \in Apis |-> IF b = a THEN count'[a] ELSE count[b]]
            /\ flag' = flag
  BY <1>1, RaceCounts
<1>3. /\ mem' = [c \in Cells |-> mem'[c]]
      /\ UNCHANGED <<racing, todo, report, seen>>
  BY <1>2 DEF Store
<1>4. \A b \in Apis : Raced(b)' <=> Raced(b)
  BY <1>3 DEF Raced
<1>5. ASSUME NEW b \in Apis
      PROVE  /\ count'[b] \in Nat /\ Base[b] + count'[b] <= End
             /\ ~Raced(b) => count'[b] < Size(b)
             /\ Raced(b) => count'[b] <= Len(taken'[b])
             /\ flag'[b] \in BOOLEAN
  <2>1. /\ count[b] \in Nat /\ Base[b] + count[b] <= End
        /\ ~Raced(b) => count[b] < Size(b)
        /\ Raced(b) => count[b] <= Len(taken[b])
        /\ flag[b] \in BOOLEAN
    BY DEF Typed
  <2>2. b \in Rows
    BY ApisAre
  <2>3. /\ Len(taken'[b]) = IF b \in DOMAIN t THEN Len(taken[b]) + 1 ELSE Len(taken[b])
        /\ Len(taken[b]) \in Nat
    BY <1>1, <1>2, <2>2, StoreTakes
  <2>4. CASE b # a
    <3>1. count'[b] = count[b]
      BY <1>2, <2>4
    <3>2. flag'[b] = flag[b]
      BY <1>2
    <3> QED
      BY <2>1, <2>3, <3>1, <3>2
  <2>5. CASE b = a
    <3>1. at[b] \in 0..Len(taken[b]) /\ b \in DOMAIN t
      BY <1>2, <2>5
    <3>2. Base[b] \in Nat /\ End \in Nat /\ Base[b] + at[b] \in 0..End-1
      BY <1>2, <2>2, <2>5, RowsEnd
    <3>3. count'[b] = 0 \/ count'[b] = at[b] + 1
      BY <1>2, <2>5
    <3>4. Raced(b)
      BY <1>1, <2>2, <2>5, RacedIs DEF Among
    <3>5. flag'[b] = flag[b]
      BY <1>2
    <3>6. count'[b] \in Nat /\ count'[b] <= Len(taken[b]) + 1
      BY <2>3, <3>1, <3>3
    <3>7. Base[b] + count'[b] <= End
      <4>1. at[b] \in Nat
        BY <2>3, <3>1
      <4> QED
        BY <3>2, <3>3, <4>1
    <3> QED
      BY <2>1, <2>3, <3>1, <3>4, <3>5, <3>6, <3>7
  <2> QED
    BY <2>4, <2>5
<1>6. \A r \in Rows : taken'[r] \in Seq(Int)
  BY <1>1, <1>2, StoreTakes
<1>7. count' = [b \in Apis |-> count'[b]] /\ flag' = [b \in Apis |-> flag'[b]]
  <2>1. count' = [b \in Apis |-> count'[b]]
    BY <1>2
  <2>2. flag' = [b \in Apis |-> flag'[b]]
    BY <1>2 DEF Typed
  <2> QED
    BY <2>1, <2>2
<1>8. Typed'
  BY <1>3, <1>4, <1>5, <1>6, <1>7 DEF Typed
<1>9. UnlinkBehind'
  <2>1. /\ "access" \in Apis /\ "unlink" \in Apis /\ a # "access" /\ a # "unlink"
    BY <1>1, ApisAre DEF RowNames, Among, JobApis
  <2>2. /\ count'["access"] = count["access"] /\ count'["unlink"] = count["unlink"]
        /\ flag' = flag
    BY <1>2, <2>1
  <2> QED
    BY <2>2 DEF UnlinkBehind
<1> QED
  BY <1>8, <1>9

(* ... and, as long as its API was called no more often than the array has
   elements, the cells of other arrays. *)
LEMMA RaceCells ==
  ASSUME Typed, NEW t, NEW a, Call(t), Among(t, a), NEW at \in [DOMAIN t -> 0..Len(taken[a])],
         Store(t, at), Len(taken[a]) < Size(a),
         NEW r \in Rows, NEW i \in 0..Size(r)-1
  PROVE  mem'[Base[r] + i] = IF r \in DOMAIN t /\ i = at[r] THEN t[r] ELSE mem[Base[r] + i]
<1>1. DOMAIN t \subseteq Rows
  BY DEF Call
<1>2. ASSUME NEW q \in DOMAIN t PROVE at[q] \in 0..Size(q)-1
  <2>1. q \in Rows /\ CountOf(q) = a
    BY <1>1 DEF Among
  <2>2. Size(a) = Size(q) /\ Size(q) \in Nat
    BY <2>1, ApisAre, SizeType
  <2>3. Len(taken[a]) \in Nat
    BY <1>1, LenProperties DEF Typed, Among
  <2>4. at[q] \in 0..Len(taken[a])
    OBVIOUS
  <2> QED
    BY <2>2, <2>3, <2>4
<1> QED
  BY <1>1, <1>2, StoreInside

-----------------------------------------------------------------------------
(* The benches. *)

(* How many elements the bench of an array takes, ... *)
BenchLen(r) == Length(CountOf(r), IF r = "rename" THEN MaxFile ELSE MaxApi)
InBench(r, c) == c \in Base[r] .. Base[r] + BenchLen(r) - 1

(* ... what they are and become, ... *)
Old(r) == [i \in 1..BenchLen(r) |-> mem[Base[r] + i - 1]]
Sorted(r) == sys_bubble_sort(Old(r))

(* ... and where its sum starts from. *)
BenchSums(r) == IF r \in {"sync", "access", "unlink"} THEN Garbage ELSE {0}
ReportOf(r, sum) ==
    [min |-> Sorted(r)[1], max |-> Sorted(r)[BenchLen(r)],
     avg |-> CDiv(sum + SumOf(Old(r)), BenchLen(r)), count |-> BenchLen(r)]

Runs(r) ==
    IF TooFew(BenchLen(r)) THEN UNCHANGED <<mem, report>>
    ELSE \E sum \in BenchSums(r) :
           /\ mem' = [c \in Cells |-> IF InBench(r, c) THEN Sorted(r)[c - Base[r] + 1]
                                                       ELSE mem[c]]
           /\ report' = [q \in Rows |-> IF q = r THEN ReportOf(r, sum) ELSE report[q]]

LEMMA BenchRuns ==
  ASSUME Typed, NEW r \in Rows,
         Bench(r, IF r = "rename" THEN MaxFile ELSE MaxApi, BenchSums(r))
  PROVE  Runs(r)
<1>1. report = [q \in Rows |-> report[q]]
  BY DEF Typed
<1>2. CASE TooFew(BenchLen(r))
  BY <1>2 DEF Bench, Runs, BenchLen
<1>3. CASE ~TooFew(BenchLen(r))
  <2>1. PICK sum \in BenchSums(r) :
          /\ mem' = [c \in Cells |-> IF InBench(r, c) THEN Sorted(r)[c - Base[r] + 1]
                                                      ELSE mem[c]]
          /\ report' = [report EXCEPT ![r] = ReportOf(r, sum)]
    BY <1>3 DEF Bench, BenchLen, InBench, Sorted, Old, ReportOf
  <2>2. report' = [q \in Rows |-> IF q = r THEN ReportOf(r, sum) ELSE report[q]]
    BY <1>1, <2>1
  <2> QED
    BY <1>3, <2>1, <2>2 DEF Runs
<1> QED
  BY <1>2, <1>3

LEMMA RunBenchRuns ==
  ASSUME Typed, RunBench
  PROVE  /\ Head(todo) \in Rows /\ Tail(todo) \in Seq(Rows) /\ Runs(Head(todo))
         /\ seen' = [r \in Rows |-> IF r = Head(todo) THEN taken[r] ELSE seen[r]]
<1> DEFINE h == Head(todo)
           full == IF h = "rename" THEN MaxFile ELSE MaxApi
<1>1. h \in Rows /\ Tail(todo) \in Seq(Rows)
  BY DEF Typed, RunBench
<1>2. h \in RowNames
  BY <1>1, RowsAre
<1>3. ToSet(SyncRows) = {"fflush", "fileno", "fsync"}
  <2>1. SyncRows = <<"fflush", "fileno", "fsync">> /\ DOMAIN SyncRows = {1, 2, 3}
    BY DEF SyncRows
  <2> QED
    BY <2>1 DEF ToSet
<1>4. Bench(h, full, BenchSums(h))
  <2>1. CASE h \in {"rename", "fstat", "fopen", "fclose", "fwrite", "fread"}
    BY <2>1, <1>3 DEF RunBench, BenchSums, rename_bench, fstat_bench, fopen_bench, fclose_bench,
                fwrite_bench, fread_bench
  <2>2. CASE h \in {"sync", "access", "unlink"}
    BY <2>2, <1>3 DEF RunBench, BenchSums, sync_bench, access_bench, unlink_bench
  <2>3. CASE h \in {"fflush", "fileno", "fsync"}
    BY <2>3, <1>3 DEF RunBench, BenchSums, fsync_bench
  <2> QED
    BY <1>2, <2>1, <2>2, <2>3 DEF RowNames
<1>5. seen' = [seen EXCEPT ![h] = taken[h]] /\ seen = [r \in Rows |-> seen[r]]
  BY DEF RunBench, Typed
<1> HIDE DEF h
<1>6. Runs(h)
  BY <1>1, <1>4, BenchRuns
<1>7. seen' = [r \in Rows |-> IF r = h THEN taken[r] ELSE seen[r]]
  BY <1>5, <1>1
<1> QED
  BY <1>1, <1>6, <1>7 DEF h

(* A bench stores into the elements it takes, and nowhere else, ... *)
LEMMA RunsStores ==
  ASSUME Typed, NEW r \in Rows, Runs(r)
  PROVE  /\ mem' = [c \in Cells |-> mem'[c]]
         /\ report' = [q \in Rows |-> report'[q]]
         /\ \A c \in Cells : ~InBench(r, c) => mem'[c] = mem[c]
<1>1. CASE TooFew(BenchLen(r))
  BY <1>1 DEF Runs, Typed
<1>2. CASE ~TooFew(BenchLen(r))
  BY <1>2 DEF Runs
<1> QED
  BY <1>1, <1>2

(* ... and those are in mem, also where it takes the wrong length. *)
LEMMA BenchCells ==
  ASSUME Typed, NEW r \in Rows
  PROVE  /\ BenchLen(r) \in Nat /\ Base[r] \in Nat
         /\ \A i \in 1..BenchLen(r) : Base[r] + i - 1 \in Cells
<1> DEFINE a == CountOf(r)
           full == IF r = "rename" THEN MaxFile ELSE MaxApi
<1>1. a \in Apis
  BY ApisAre
<1>2. count[a] \in Nat /\ Base[a] + count[a] <= End
  BY <1>1 DEF Typed
<1>3. /\ End \in Nat /\ Cells = 0 .. End - 1 /\ Base[r] \in Nat
      /\ a \in Rows /\ Base[r] <= Base[a] /\ Base[r] + full <= End
  BY RowsEnd
<1>4. full \in Nat /\ Base[a] \in Nat
  BY <1>3, RowsEnd, ReportsAssumption
<1> HIDE DEF a, full
<1>5. BenchLen(r) = IF flag[a] THEN full ELSE count[a]
  BY DEF BenchLen, Length, a, full
<1>6. BenchLen(r) \in Nat /\ Base[r] + BenchLen(r) <= End
  BY <1>2, <1>3, <1>4, <1>5
<1> HIDE DEF BenchLen
<1> QED
  BY <1>3, <1>6

(* The length is right unless access or unlink is full, or a count has gone
   behind its array. *)
LEMMA LengthRight ==
  ASSUME Typed, UnlinkBehind, NEW r \in Rows, count[CountOf(r)] <= Size(r),
         r \in {"access", "unlink"} => ~flag["access"]
  PROVE  /\ BenchLen(r) = Length(CountOf(r), Size(r))
         /\ BenchLen(r) \in Nat /\ BenchLen(r) <= Size(r)
<1>1. /\ CountOf(r) \in Apis /\ count[CountOf(r)] \in Nat /\ Size(r) \in Nat
      /\ r \in {"access", "unlink"} => CountOf(r) = r
  BY SizeType, ApisAre, CountOfIs DEF Typed
<1>2. CASE r \in {"access", "unlink"}
  <2>1. ~flag["access"] /\ ~flag["unlink"]
    BY <1>2 DEF UnlinkBehind
  <2> QED
    BY <1>1, <1>2, <2>1 DEF BenchLen, Length
<1>3. CASE r \notin {"access", "unlink"}
  <2>1. Size(r) = IF r = "rename" THEN MaxFile ELSE MaxApi
    BY <1>3 DEF Size
  <2> QED
    BY <1>1, <2>1 DEF BenchLen, Length
<1> QED
  BY <1>2, <1>3

Inv == Typed /\ UnlinkBehind

(* As long as no store has left its array, no count has. *)
LEMMA CountFits ==
  ASSUME Typed, Contained, NEW r \in Rows
  PROVE  count[CountOf(r)] <= Size(r)
<1> DEFINE a == CountOf(r)
<1>1. a \in Apis /\ Size(a) = Size(r) /\ CountOf(a) = a /\ a \in Rows
  BY ApisAre
<1>2. count[a] \in Nat /\ Size(a) \in Nat /\ Len(taken[a]) \in Nat
  BY <1>1, SizeType, LenProperties DEF Typed
<1>3. CASE Raced(a)
  <2>1. racing /\ a \in JobApis
    BY <1>1, <1>3 DEF Raced
  <2>2. Len(taken[a]) <= Size(a)
    BY <2>1 DEF Contained
  <2>3. count[a] <= Len(taken[a])
    BY <1>1, <1>3 DEF Typed
  <2> QED
    BY <1>1, <1>2, <2>2, <2>3
<1>4. CASE ~Raced(a)
  <2>1. count[a] < Size(a)
    BY <1>1, <1>4 DEF Typed
  <2> QED
    BY <1>1, <1>2, <2>1
<1> QED
  BY <1>3, <1>4

LEMMA InvInit == Init => Inv
<1> SUFFICES ASSUME Init PROVE Inv
  OBVIOUS
<1>1. mem = [c \in Cells |-> mem[c]]
  BY DEF Init
<1>2. /\ count = [a \in Apis |-> 0] /\ flag = [a \in Apis |-> FALSE]
      /\ taken = [r \in Rows |-> << >>] /\ seen = [r \in Rows |-> << >>]
      /\ report = [r \in Rows |-> NoReport] /\ todo = << >> /\ racing \in BOOLEAN
  BY DEF Init
<1>3. ASSUME NEW a \in Apis
      PROVE  /\ count[a] \in Nat /\ Base[a] + count[a] <= End
             /\ ~Raced(a) => count[a] < Size(a)
             /\ Raced(a) => count[a] <= Len(taken[a])
             /\ flag[a] \in BOOLEAN
  <2>1. count[a] = 0 /\ flag[a] = FALSE /\ a \in Rows
    BY <1>2, ApisAre
  <2>2. Len(taken[a]) = 0
    BY <1>2, <2>1
  <2>3. Size(a) \in Nat \ {0} /\ Base[a] \in Nat /\ Base[a] + Size(a) <= End /\ End \in Nat
    BY <2>1, SizeType, RowsEnd
  <2>4. 0 \in Nat /\ Base[a] + 0 <= End /\ 0 < Size(a) /\ 0 <= 0
    BY <2>3
  <2> QED
    BY <2>1, <2>2, <2>4
<1>4. "access" \in Apis /\ "unlink" \in Apis
  BY ApisAre DEF RowNames
<1>5. \A r \in Rows : taken[r] \in Seq(Int)
  BY <1>2
<1>6. todo \in Seq(Rows)
  BY <1>2
<1>7. Typed
  BY <1>1, <1>2, <1>3, <1>5, <1>6 DEF Typed
<1>8. UnlinkBehind
  <2>1. count["unlink"] = 0 /\ count["access"] = 0 /\ ~flag["unlink"]
    BY <1>2, <1>4
  <2> QED
    BY <2>1 DEF UnlinkBehind
<1> QED
  BY <1>7, <1>8 DEF Inv

(* Nothing that Inv speaks of changes but as told. *)
LEMMA InvFindFull ==
  ASSUME Inv, NEW a \in JobApis, FindFull(a)
  PROVE  Inv'
<1>1. /\ a \in Apis /\ a \in Rows /\ a # "access" /\ a # "unlink"
      /\ "access" \in Apis /\ "unlink" \in Apis
  BY ApisAre DEF JobApis, RowNames
<1>2. /\ count' = [count EXCEPT ![a] = 0] /\ flag' = [flag EXCEPT ![a] = TRUE]
      /\ UNCHANGED <<mem, csv, report, step, todo, racing, taken, seen>>
  BY DEF FindFull
<1>3. /\ count = [b \in Apis |-> count[b]] /\ flag = [b \in Apis |-> flag[b]]
  BY DEF Inv, Typed
<1>4. /\ count' = [b \in Apis |-> IF b = a THEN 0 ELSE count[b]]
      /\ flag' = [b \in Apis |-> IF b = a THEN TRUE ELSE flag[b]]
  BY <1>1, <1>2, <1>3
<1>5. ASSUME NEW b \in Apis
      PROVE  /\ count'[b] \in Nat /\ Base[b] + count'[b] <= End
             /\ ~Raced(b)' => count'[b] < Size(b)
             /\ Raced(b)' => count'[b] <= Len(taken'[b])
             /\ flag'[b] \in BOOLEAN
  <2>1. /\ count[b] \in Nat /\ Base[b] + count[b] <= End
        /\ ~Raced(b) => count[b] < Size(b)
        /\ Raced(b) => count[b] <= Len(taken[b])
        /\ flag[b] \in BOOLEAN
    BY DEF Inv, Typed
  <2>2. Raced(b)' <=> Raced(b)
    BY <1>2 DEF Raced
  <2>3. CASE b # a
    BY <1>2, <1>4, <2>1, <2>2, <2>3
  <2>4. CASE b = a
    <3>1. count'[b] = 0 /\ flag'[b] = TRUE
      BY <1>4, <2>4
    <3>2. Size(b) \in Nat \ {0} /\ Base[b] \in Nat /\ End \in Nat /\ Base[b] + Size(b) <= End
      BY <1>1, <2>4, SizeType, RowsEnd
    <3>3. Len(taken'[b]) \in Nat
      BY <1>1, <1>2, <2>4, LenProperties DEF Inv, Typed
    <3>4. 0 \in Nat /\ Base[b] + 0 <= End /\ 0 < Size(b) /\ 0 <= Len(taken'[b])
      BY <3>2, <3>3
    <3> QED
      BY <3>1, <3>4
  <2> QED
    BY <2>3, <2>4
<1>6. Typed'
  <2>1. count' = [b \in Apis |-> count'[b]] /\ flag' = [b \in Apis |-> flag'[b]]
    BY <1>4
  <2> QED
    BY <1>2, <1>5, <2>1 DEF Inv, Typed
<1>7. UnlinkBehind'
  <2>1. /\ count'["access"] = count["access"] /\ count'["unlink"] = count["unlink"]
        /\ flag'["access"] = flag["access"] /\ flag'["unlink"] = flag["unlink"]
    BY <1>1, <1>4
  <2> QED
    BY <2>1 DEF Inv, UnlinkBehind
<1> QED
  BY <1>6, <1>7 DEF Inv

LEMMA InvSame ==
  ASSUME Inv, UNCHANGED <<count, flag, racing, taken>>, todo' \in Seq(Rows),
         mem' = [c \in Cells |-> mem'[c]],
         report' = [r \in Rows |-> report'[r]], seen' = [r \in Rows |-> seen'[r]]
  PROVE  Inv'
<1>1. \A a \in Apis : Raced(a)' <=> Raced(a)
  BY DEF Raced
<1> QED
  BY <1>1 DEF Inv, Typed, UnlinkBehind

LEMMA InvStep == Inv /\ [Next]_vars => Inv'
<1> SUFFICES ASSUME Inv, [Next]_vars PROVE Inv'
  OBVIOUS
<1>1. CASE Work
  <2>1. PICK t : Call(t) /\ Alone(t) /\ Record(t) /\ "unlink" \notin DOMAIN t
    BY <1>1, WorkRecords
  <2> QED
    BY <2>1, RecordTyped, RecordBehind DEF Inv
<1>2. CASE Rm
  <2>1. PICK t : /\ Call(t) /\ Alone(t) /\ Record(t)
                 /\ DOMAIN t \subseteq {"fstat", "access", "unlink"}
                 /\ "unlink" \in DOMAIN t => "access" \in DOMAIN t
    BY <1>2, RmRecords
  <2> QED
    BY <2>1, RecordTyped, RecordBehind DEF Inv
<1>3. CASE Race
  BY <1>3, RaceTyped DEF Inv
<1>4. CASE \E a \in JobApis : FindFull(a)
  BY <1>4, InvFindFull
<1>5. CASE RunBench
  <2>1. /\ Head(todo) \in Rows /\ Tail(todo) \in Seq(Rows) /\ Runs(Head(todo))
        /\ seen' = [r \in Rows |-> IF r = Head(todo) THEN taken[r] ELSE seen[r]]
    BY <1>5, RunBenchRuns DEF Inv
  <2>2. mem' = [c \in Cells |-> mem'[c]] /\ report' = [r \in Rows |-> report'[r]]
    BY <2>1, RunsStores DEF Inv
  <2>3. UNCHANGED <<count, flag, racing, taken>> /\ todo' = Tail(todo)
    BY <1>5 DEF RunBench
  <2>4. seen' = [r \in Rows |-> seen'[r]]
    BY <2>1
  <2> QED
    BY <2>1, <2>2, <2>3, <2>4, InvSame
<1>6. CASE EndWork \/ StartClean \/ EndClean \/ UNCHANGED vars
  <2>1. UNCHANGED <<mem, count, flag, racing, taken, report, seen>>
    BY <1>6 DEF EndWork, StartClean, EndClean, vars
  <2>2. /\ mem' = [c \in Cells |-> mem'[c]]
        /\ report' = [r \in Rows |-> report'[r]] /\ seen' = [r \in Rows |-> seen'[r]]
    BY <2>1 DEF Inv, Typed
  <2>3. todo' \in Seq(Rows)
    <3>1. todo \in Seq(Rows)
      BY DEF Inv, Typed
    <3>2. /\ <<"access", "unlink">> \in Seq(Rows)
          /\ <<"rename", "fstat", "fopen", "fclose", "fwrite", "fread",
               "fflush", "fileno", "fsync", "sync">> \in Seq(Rows)
      BY RowsAre DEF RowNames
    <3> QED
      BY <1>6, <3>1, <3>2 DEF EndWork, StartClean, EndClean, vars
  <2> QED
    BY <2>1, <2>2, <2>3, InvSame
<1> QED
  BY <1>1, <1>2, <1>3, <1>4, <1>5, <1>6 DEF Next

(* With the right length a bench changes its own array only. *)
LEMMA RowUntouched ==
  ASSUME Inv, RunBench, Contained, NEW r \in Rows, r # Head(todo),
         Head(todo) \in {"access", "unlink"} => ~flag["access"], NEW i \in 0..Size(r)-1
  PROVE  mem'[Base[r] + i] = mem[Base[r] + i]
<1> DEFINE h == Head(todo)
           c == Base[r] + i
<1>1. h \in Rows /\ c \in Cells /\ (~InBench(h, c) => mem'[c] = mem[c])
  BY RunBenchRuns, RunsStores, RowsApart DEF Inv
<1>2. ASSUME InBench(h, c) PROVE FALSE
  <2>1. BenchLen(h) \in Nat /\ BenchLen(h) <= Size(h)
    BY <1>1, LengthRight, CountFits DEF Inv
  <2>2. Base[h] \in Nat /\ Base[r] \in Nat /\ Size(h) \in Nat
    BY <1>1, RowsApart, SizeType
  <2>3. c \in Base[h] .. Base[h] + BenchLen(h) - 1
    BY <1>2 DEF InBench
  <2>4. c - Base[h] \in 0..Size(h)-1 /\ Base[r] + i = Base[h] + (c - Base[h])
    BY <2>1, <2>2, <2>3
  <2>5. r = h
    BY <1>1, <2>4, CellOfOneRow
  <2> QED
    BY <2>5
<1> QED
  BY <1>1, <1>2

(* As long as access has not filled its array, and, with more than one job, no
   API has been called more often than its array has elements, a bench changes
   its own array only (posix/sys_posix_cmd.c:191 and :252 take a length the
   arrays do not have; libc/sys_libc_file.c:28 may be stepped over). *)
THEOREM OthersKept == Spec => BenchKeepsOthers
<1>1. Inv /\ [Next]_vars =>
        (RunBench => \A r \in Rows :
            (r # Head(todo) /\ ~flag["access"] /\ Contained)
            => \A i \in 0..Size(r)-1 : mem'[Base[r] + i] = mem[Base[r] + i])
  BY RowUntouched
<1> QED
  BY <1>1, InvInit, InvStep, PTL DEF Spec, BenchKeepsOthers

-----------------------------------------------------------------------------
(* The rings.  Up to the CSV file an array holds the last samples of its API,
   each at its number modulo the length of the array. *)

LEMMA DivIs ==
  ASSUME NEW a \in Nat, NEW b \in Nat \ {0}
  PROVE  /\ a \div b \in Nat
         /\ b * (a \div b) \in Nat
         /\ b * (a \div b) <= a
         /\ a < b * (a \div b) + b
  OBVIOUS

LEMMA Multiple ==
  ASSUME NEW b \in Nat \ {0}, NEW e \in Int, -b < b * e, b * e < b
  PROVE  e = 0
<1>1. ASSUME e >= 1 PROVE b * e >= b
  BY <1>1
<1>2. ASSUME e <= -1 PROVE b * e <= -b
  BY <1>2
<1> QED
  BY <1>1, <1>2

LEMMA DivUnique ==
  ASSUME NEW a \in Nat, NEW b \in Nat \ {0}, NEW q \in Nat, b * q <= a, a < b * q + b
  PROVE  a \div b = q
<1> DEFINE p == a \div b
<1>1. p \in Nat /\ b * p \in Nat /\ b * p <= a /\ a < b * p + b
  BY DivIs
<1> HIDE DEF p
<1>2. b * (p - q) = b * p - b * q /\ b * q \in Int
  BY <1>1
<1>3. -b < b * (p - q) /\ b * (p - q) < b
  BY <1>1, <1>2
<1>4. p - q \in Int
  BY <1>1
<1>5. p - q = 0
  BY <1>3, <1>4, Multiple
<1> QED
  BY <1>1, <1>5 DEF p

(* Where the sample is that element i keeps of n ... *)
Latest(n, i, size) == i + size * ((n - i) \div size)

LEMMA LatestRange ==
  ASSUME NEW size \in Nat \ {0}, NEW n \in Nat, NEW i \in 1..size, i <= n
  PROVE  Latest(n, i, size) \in 1..n
<1>1. n - i \in Nat
  OBVIOUS
<1> DEFINE d == size * ((n - i) \div size)
<1>2. d \in Nat /\ d <= n - i
  BY <1>1, DivIs
<1> HIDE DEF d
<1>3. i + d \in 1..n
  BY <1>2
<1> QED
  BY <1>3 DEF Latest, d

(* ... and after the next one, which goes to element k + 1. *)
Rounds(n, k, size) == \E q \in Nat : n = q * size + k

LEMMA LatestNext ==
  ASSUME NEW size \in Nat \ {0}, NEW n \in Nat, NEW k \in 0..size-1,
         Rounds(n, k, size), NEW i \in 1..size, i <= n + 1
  PROVE  Latest(n + 1, i, size) = IF i = k + 1 THEN n + 1 ELSE Latest(n, i, size)
<1> PICK q \in Nat : n = q * size + k
  BY DEF Rounds
<1>1. CASE i = k + 1
  <2>1. n + 1 - i = size * q /\ size * q \in Nat
    BY <1>1
  <2>2. (n + 1 - i) \div size = q
    BY <2>1, DivUnique
  <2> QED
    BY <1>1, <2>1, <2>2 DEF Latest
<1>2. CASE i # k + 1
  <2> DEFINE d == (n - i) \div size
             a == size * d
             b == size * q
  <2>1. b \in Nat /\ n = b + k
    OBVIOUS
  <2>2. i <= n /\ n - i \in Nat
    <3>1. i # n + 1
      <4>1. CASE q = 0
        <5>1. n = k
          BY <4>1
        <5> QED
          BY <1>2, <5>1
      <4>2. CASE q # 0
        <5>1. b >= size
          BY <4>2
        <5> HIDE DEF b
        <5> QED
          BY <2>1, <5>1
      <4> QED
        BY <4>1, <4>2
    <3> QED
      BY <3>1
  <2>3. d \in Nat /\ a \in Nat /\ a <= n - i /\ n - i < a + size
    BY <2>2, DivIs
  <2>4. n + 1 - i < a + size
    <3> SUFFICES ASSUME n + 1 - i = a + size PROVE FALSE
      <4> HIDE DEF a
      <4> QED
        BY <2>2, <2>3
    <3>1. size * (d + 1 - q) = a + size - b /\ d + 1 - q \in Int
      <4> HIDE DEF d
      <4> QED
        BY <2>3
    <3>2. a + size - b = k + 1 - i
      <4> HIDE DEF a, b
      <4> QED
        BY <2>1, <2>3
    <3>3. d + 1 - q = 0
      <4> DEFINE e == d + 1 - q
      <4>1. e \in Int /\ size * e = k + 1 - i
        BY <3>1, <3>2
      <4> HIDE DEF e
      <4>2. -size < size * e /\ size * e < size
        BY <4>1
      <4>3. e = 0
        BY <4>1, <4>2, Multiple
      <4> QED
        BY <4>3 DEF e
    <3>4. size * (d + 1 - q) = 0
      BY <3>3
    <3>5. a + size - b = 0
      BY <3>1, <3>4
    <3> HIDE DEF a, b
    <3> QED
      BY <1>2, <3>2, <3>5
  <2>5. (n + 1 - i) \div size = d
    <3>1. n + 1 - i \in Nat /\ a <= n + 1 - i
      <4> HIDE DEF a
      <4> QED
        BY <2>2, <2>3
    <3> HIDE DEF d
    <3> QED
      BY <2>3, <2>4, <3>1, DivUnique
  <2> QED
    BY <1>2, <2>5 DEF Latest
<1> QED
  BY <1>1, <1>2
(* The samples of an array that one thread fills. *)
Ring(r) ==
    /\ \E q \in Nat : /\ Len(taken[r]) = q * Size(r) + count[CountOf(r)]
                      /\ flag[CountOf(r)] <=> q > 0
    /\ \A i \in 1..Size(r) : i <= Len(taken[r]) =>
          mem[Base[r] + (i - 1)] = taken[r][Latest(Len(taken[r]), i, Size(r))]

(* Of one that several threads fill no more is known than that nothing is made
   up. *)
Mix(r) ==
    /\ flag[r] => Len(taken[r]) >= Size(r)
    /\ \A i \in 1..Size(r) : (flag[r] \/ i <= count[r]) =>
          mem[Base[r] + (i - 1)] \in ToSet(taken[r])

Filled(r) ==
    /\ ~Raced(r) => Ring(r)
    /\ Raced(r) /\ r \notin {"fflush", "fileno"} => Mix(r)

LEMMA RecordRing ==
  ASSUME Typed, NEW t, Call(t), Alone(t), Record(t), NEW r \in Rows, ~Raced(r), Ring(r)
  PROVE  Ring(r)'
<1> DEFINE a == CountOf(r)
           n == Len(taken[r])
           S == Size(r)
<1>0. /\ a \in Apis /\ S \in Nat \ {0} /\ S > 1 /\ Size(a) = S
      /\ ~Raced(a) /\ taken[r] \in Seq(Int)
  BY ApisAre, SizeType, RacedIs DEF Typed
<1>1. /\ a \in Apis /\ S \in Nat \ {0} /\ S > 1
      /\ count[a] \in 0..S-1 /\ flag[a] \in BOOLEAN /\ n \in Nat
  BY <1>0, LenProperties DEF Typed
<1>2. taken'[r] = IF r \in DOMAIN t THEN Append(taken[r], t[r]) ELSE taken[r]
  BY DEF Record, Store
<1>3. PICK q \in Nat : n = q * S + count[a] /\ (flag[a] <=> q > 0)
  BY DEF Ring
<1>4. \A i \in 1..S : mem'[Base[r] + (i - 1)] =
          IF r \in DOMAIN t /\ i - 1 = count[a] THEN t[r] ELSE mem[Base[r] + (i - 1)]
  <2> SUFFICES ASSUME NEW i \in 1..S
               PROVE  mem'[Base[r] + (i - 1)] =
                        IF r \in DOMAIN t /\ i - 1 = count[a] THEN t[r]
                                                             ELSE mem[Base[r] + (i - 1)]
    OBVIOUS
  <2>1. i - 1 \in 0..S-1
    BY <1>1
  <2> QED
    BY <2>1, RecordCells
<1>5. /\ r \in DOMAIN t /\ count[a] + 1 = S => count'[a] = 0 /\ flag'[a]
      /\ r \in DOMAIN t /\ count[a] + 1 # S => count'[a] = count[a] + 1
                                               /\ flag'[a] = flag[a]
      /\ r \notin DOMAIN t => count'[a] = count[a] /\ flag'[a] = flag[a]
  BY RecordCounts
<1>6. CASE r \notin DOMAIN t
  <2>1. \A i \in 1..S : mem'[Base[r] + (i - 1)] = mem[Base[r] + (i - 1)]
    BY <1>4, <1>6
  <2> QED
    BY <1>2, <1>5, <1>6, <2>1 DEF Ring
<1>7. CASE r \in DOMAIN t
  <2>1. /\ taken'[r] = Append(taken[r], t[r]) /\ t[r] \in Int
        /\ taken[r] \in Seq(Int)
    BY <1>0, <1>2, <1>7 DEF Call
  <2>2. /\ taken'[r] \in Seq(Int) /\ Len(taken'[r]) = n + 1
        /\ taken'[r][n + 1] = t[r]
        /\ \A j \in 1..n : taken'[r][j] = taken[r][j]
    BY <2>1
  <2>3. \E p \in Nat : n + 1 = p * S + count'[a] /\ (flag'[a] <=> p > 0)
    <3>1. CASE count[a] + 1 = S
      <4>1. (q + 1) * S = q * S + S /\ q * S \in Nat
        BY <1>1
      <4>2. n + 1 = (q + 1) * S + 0
        <5> DEFINE m == q * S
        <5> HIDE DEF m
        <5>1. n = m + count[a] /\ m \in Nat /\ (q + 1) * S = m + S
          BY <1>3, <4>1 DEF m
        <5> QED
          BY <1>1, <3>1, <5>1
      <4>3. count'[a] = 0 /\ flag'[a]
        BY <1>5, <1>7, <3>1
      <4>4. q + 1 \in Nat /\ q + 1 > 0
        OBVIOUS
      <4> HIDE DEF a, n, S
      <4> QED
        BY <4>2, <4>3, <4>4
    <3>2. CASE count[a] + 1 # S
      <4>1. count'[a] = count[a] + 1 /\ flag'[a] = flag[a]
        BY <1>5, <1>7, <3>2
      <4>2. q * S \in Nat
        BY <1>1
      <4>3. n + 1 = q * S + count'[a]
        <5> DEFINE m == q * S
        <5> HIDE DEF m
        <5>1. n = m + count[a] /\ m \in Nat
          BY <1>3, <4>2 DEF m
        <5>2. n + 1 = m + count'[a]
          BY <1>1, <4>1, <5>1
        <5> QED
          BY <5>2 DEF m
      <4> QED
        BY <1>3, <4>1, <4>3
    <3> QED
      BY <3>1, <3>2
  <2>4. ASSUME NEW i \in 1..S, i <= n + 1
        PROVE  mem'[Base[r] + (i - 1)] = taken'[r][Latest(n + 1, i, S)]
    <3>1. Latest(n + 1, i, S) = IF i = count[a] + 1 THEN n + 1 ELSE Latest(n, i, S)
      <4> DEFINE k == count[a]
      <4>1. /\ S \in Nat \ {0} /\ n \in Nat /\ k \in 0..S-1
            /\ i \in 1..S /\ i <= n + 1
        BY <1>1, <2>4
      <4>2. Rounds(n, k, S)
        BY <1>3 DEF Rounds
      <4> HIDE DEF n, S, a, k
      <4>3. Latest(n + 1, i, S) = IF i = k + 1 THEN n + 1 ELSE Latest(n, i, S)
        BY <4>1, <4>2, LatestNext
      <4> QED
        BY <4>3 DEF k
    <3>2. CASE i = count[a] + 1
      <4>1. i - 1 = count[a]
        BY <1>1, <3>2
      <4> QED
        BY <1>4, <1>7, <2>2, <3>1, <3>2, <4>1
    <3>3. CASE i # count[a] + 1
      <4>1. i - 1 # count[a]
        BY <1>1, <3>3
      <4>2. i <= n
        <5>1. CASE q = 0
          <6>1. n = count[a]
            BY <1>1, <1>3, <5>1
          <6> QED
            BY <1>1, <2>4, <3>3, <6>1
        <5>2. CASE q # 0
          <6>1. q * S >= S /\ q * S \in Nat
            BY <1>1, <5>2
          <6> DEFINE m == q * S
          <6>2. m >= S /\ m \in Nat /\ n = m + count[a]
            BY <1>3, <6>1
          <6> HIDE DEF m, n
          <6> QED
            BY <1>1, <6>2
        <5> QED
          BY <5>1, <5>2
      <4>3. Latest(n, i, S) \in 1..n
        <5> HIDE DEF n, S
        <5> QED
          BY <1>1, <4>2, LatestRange
      <4>4. mem[Base[r] + (i - 1)] = taken[r][Latest(n, i, S)]
        BY <4>2 DEF Ring
      <4> QED
        BY <1>4, <2>2, <3>1, <3>3, <4>1, <4>3, <4>4
    <3> QED
      BY <3>2, <3>3
  <2> QED
    BY <2>2, <2>3, <2>4 DEF Ring
<1> QED
  BY <1>6, <1>7

LEMMA FilledSame ==
  ASSUME Typed, NEW r \in Rows, Filled(r), racing' = racing, taken'[r] = taken[r],
         count'[CountOf(r)] = count[CountOf(r)], flag'[CountOf(r)] = flag[CountOf(r)],
         \A i \in 0..Size(r)-1 : mem'[Base[r] + i] = mem[Base[r] + i]
  PROVE  Filled(r)'
<1>1. \A i \in 1..Size(r) : mem'[Base[r] + (i - 1)] = mem[Base[r] + (i - 1)]
  <2>1. \A i \in 1..Size(r) : i - 1 \in 0..Size(r)-1
    BY SizeType
  <2> QED
    BY <2>1
<1>2. Raced(r)' <=> Raced(r)
  BY DEF Raced
<1>3. CASE ~Raced(r)
  BY <1>1, <1>2, <1>3 DEF Filled, Ring
<1>4. CASE Raced(r) /\ r \notin {"fflush", "fileno"}
  <2>1. CountOf(r) = r
    BY <1>4, CountOfIs
  <2>2. Mix(r)
    BY <1>4 DEF Filled
  <2>3. Mix(r)'
    BY <1>1, <2>1, <2>2 DEF Mix
  <2> QED
    BY <1>2, <1>4, <2>3 DEF Filled
<1>5. CASE Raced(r) /\ r \in {"fflush", "fileno"}
  BY <1>2, <1>5 DEF Filled
<1> QED
  BY <1>3, <1>4, <1>5

LEMMA RecordFills ==
  ASSUME Typed, NEW t, Call(t), Alone(t), Record(t), NEW r \in Rows, Filled(r)
  PROVE  Filled(r)'
<1>1. racing' = racing
  BY DEF Record, Store
<1>2. Raced(r)' <=> Raced(r)
  BY <1>1 DEF Raced
<1>3. CASE ~Raced(r)
  BY <1>2, <1>3, RecordRing DEF Filled
<1>4. CASE Raced(r)
  <2>1. r \notin DOMAIN t
    BY <1>4 DEF Alone
  <2>2. taken'[r] = taken[r]
    BY <2>1 DEF Record, Store
  <2>3. count'[CountOf(r)] = count[CountOf(r)] /\ flag'[CountOf(r)] = flag[CountOf(r)]
    BY <2>1, RecordCounts
  <2>4. \A i \in 0..Size(r)-1 : mem'[Base[r] + i] = mem[Base[r] + i]
    BY <2>1, RecordCells
  <2> QED
    BY <1>1, <2>2, <2>3, <2>4, FilledSame
<1> QED
  BY <1>3, <1>4

LEMMA ToSetAppend ==
  ASSUME NEW s \in Seq(Int), NEW x \in Int
  PROVE  ToSet(s) \subseteq ToSet(Append(s, x)) /\ x \in ToSet(Append(s, x))
<1> DEFINE u == Append(s, x)
<1>1. /\ u \in Seq(Int) /\ Len(u) = Len(s) + 1
      /\ u[Len(s) + 1] = x /\ \A i \in 1..Len(s) : u[i] = s[i]
  BY AppendProperties
<1> HIDE DEF u
<1>2. Len(s) \in Nat /\ DOMAIN s = 1..Len(s) /\ DOMAIN u = 1..Len(u)
  BY <1>1, LenProperties
<1>3. ToSet(s) \subseteq ToSet(u) /\ x \in ToSet(u)
  BY <1>1, <1>2 DEF ToSet
<1> QED
  BY <1>3 DEF u

LEMMA RaceFills ==
  ASSUME Typed, Race, Contained', NEW r \in Rows, Filled(r)
  PROVE  Filled(r)'
<1>1. PICK a, t : Call(t) /\ Among(t, a) /\ RaceRecord(a, t)
  BY RaceRecords
<1>2. PICK at \in [DOMAIN t -> 0..Len(taken[a])] :
            /\ Store(t, at) /\ a \in DOMAIN t /\ a \in Apis
            /\ ~flag[a] => at[a] <= count[a] /\ count'[a] = at[a] + 1
            /\ count'[a] \in {0, at[a] + 1} /\ Base[a] + at[a] \in Cells
            /\ count' = [b \in Apis |-> IF b = a THEN count'[a] ELSE count[b]]
            /\ flag' = flag
  BY <1>1, RaceCounts
<1>3. a \in Rows /\ CountOf(a) = a /\ a \in JobApis /\ racing /\ racing' = racing
  BY <1>1, <1>2, ApisAre DEF Among, Store
<1>4. /\ Len(taken'[a]) = Len(taken[a]) + 1 /\ Len(taken[a]) \in Nat /\ Size(a) \in Nat
  BY <1>1, <1>2, <1>3, StoreTakes, SizeType
<1>5. Len(taken'[a]) <= Size(a)
  BY <1>3 DEF Contained
<1>6. Len(taken[a]) < Size(a)
  BY <1>4, <1>5
<1>7. \A q \in Rows : \A i \in 0..Size(q)-1 :
         mem'[Base[q] + i] = IF q \in DOMAIN t /\ i = at[q] THEN t[q] ELSE mem[Base[q] + i]
  BY <1>1, <1>2, <1>6, RaceCells
<1>8. CASE r \notin DOMAIN t
  <2>1. CountOf(r) # a
    BY <1>1, <1>2, <1>3, <1>8 DEF Call
  <2>2. count'[CountOf(r)] = count[CountOf(r)] /\ flag'[CountOf(r)] = flag[CountOf(r)]
    BY <1>2, <2>1, ApisAre
  <2>3. \A i \in 0..Size(r)-1 : mem'[Base[r] + i] = mem[Base[r] + i]
    BY <1>7, <1>8
  <2>4. taken'[r] = taken[r]
    BY <1>2, <1>8 DEF Store
  <2> QED
    BY <1>3, <2>2, <2>3, <2>4, FilledSame
<1>9. CASE r \in DOMAIN t
  <2>1. CountOf(r) = a
    BY <1>1, <1>9 DEF Among
  <2>2. Raced(r) /\ Raced(r)'
    BY <1>3, <2>1 DEF Raced
  <2>3. CASE r \in {"fflush", "fileno"}
    BY <2>2, <2>3 DEF Filled
  <2>4. CASE r \notin {"fflush", "fileno"}
    <3>1. r = a
      BY <2>1, <2>4, <1>3, CountOfIs DEF JobApis
    <3>2. Mix(a)
      BY <2>2, <2>4, <3>1 DEF Filled
    <3>3. ~flag[a] /\ flag[a] \in BOOLEAN /\ count[a] \in Nat
      BY <1>2, <1>4, <1>6, <3>2 DEF Mix, Typed
    <3>4. at[a] \in 0..Len(taken[a]) /\ at[a] <= count[a] /\ count'[a] = at[a] + 1 /\ ~flag'[a]
      BY <1>2, <3>3
    <3>5. taken'[a] = Append(taken[a], t[a]) /\ taken[a] \in Seq(Int) /\ t[a] \in Int
      BY <1>1, <1>2, <1>3 DEF Store, Typed, Call
    <3>6. ToSet(taken[a]) \subseteq ToSet(taken'[a]) /\ t[a] \in ToSet(taken'[a])
      BY <3>5, ToSetAppend
    <3>7. ASSUME NEW i \in 1..Size(a), i <= count'[a]
          PROVE  mem'[Base[a] + (i - 1)] \in ToSet(taken'[a])
      <4>1. i - 1 \in 0..Size(a)-1
        BY <1>4
      <4>2. mem'[Base[a] + (i - 1)] = IF i - 1 = at[a] THEN t[a] ELSE mem[Base[a] + (i - 1)]
        BY <1>2, <1>3, <1>7, <4>1
      <4>3. CASE i - 1 = at[a]
        BY <3>6, <4>2, <4>3
      <4>4. CASE i - 1 # at[a]
        <5>1. i <= count[a]
          BY <3>3, <3>4, <3>7, <4>4
        <5>2. mem[Base[a] + (i - 1)] \in ToSet(taken[a])
          BY <3>2, <5>1 DEF Mix
        <5> QED
          BY <3>6, <4>2, <4>4, <5>2
      <4> QED
        BY <4>3, <4>4
    <3>8. Mix(a)'
      BY <3>4, <3>7 DEF Mix
    <3> QED
      BY <2>2, <3>1, <3>8 DEF Filled
  <2> QED
    BY <2>3, <2>4
<1> QED
  BY <1>8, <1>9

LEMMA FullFills ==
  ASSUME Typed, NEW a \in JobApis, FindFull(a), NEW r \in Rows, Filled(r)
  PROVE  Filled(r)'
<1>1. /\ a \in Apis /\ a \in Rows /\ CountOf(a) = a /\ a \notin {"fflush", "fileno"}
  BY ApisAre DEF JobApis, RowNames
<1>2. /\ Raced(a) /\ count[a] = Size(a)
      /\ count' = [count EXCEPT ![a] = 0] /\ flag' = [flag EXCEPT ![a] = TRUE]
      /\ UNCHANGED <<mem, racing, taken>>
  BY DEF FindFull
<1>3. count = [b \in Apis |-> count[b]] /\ flag = [b \in Apis |-> flag[b]]
  BY DEF Typed
<1>4. /\ count' = [b \in Apis |-> IF b = a THEN 0 ELSE count[b]]
      /\ flag' = [b \in Apis |-> IF b = a THEN TRUE ELSE flag[b]]
  BY <1>1, <1>2, <1>3
<1>5. CASE CountOf(r) # a
  <2>1. count'[CountOf(r)] = count[CountOf(r)] /\ flag'[CountOf(r)] = flag[CountOf(r)]
    BY <1>4, <1>5, ApisAre
  <2> QED
    BY <1>2, <2>1, FilledSame
<1>6. CASE CountOf(r) = a
  <2>1. Raced(r) /\ Raced(r)'
    BY <1>1, <1>2, <1>6 DEF Raced
  <2>2. CASE r \in {"fflush", "fileno"}
    BY <2>1, <2>2 DEF Filled
  <2>3. CASE r \notin {"fflush", "fileno"}
    <3>1. r = a
      BY <1>1, <1>6, <2>3, CountOfIs DEF JobApis
    <3>2. Mix(a)
      BY <2>1, <2>3, <3>1 DEF Filled
    <3>3. Len(taken[a]) >= Size(a)
      BY <1>1, <1>2 DEF Typed
    <3>4. \A i \in 1..Size(a) : i <= count[a]
      BY <1>2
    <3>5. \A i \in 1..Size(a) : mem[Base[a] + (i - 1)] \in ToSet(taken[a])
      BY <3>2, <3>4 DEF Mix
    <3>6. Mix(a)'
      BY <1>2, <3>3, <3>5 DEF Mix
    <3> QED
      BY <2>1, <3>1, <3>6 DEF Filled
  <2> QED
    BY <2>2, <2>3
<1> QED
  BY <1>5, <1>6

(* Stores that have stayed in their arrays have done so before. *)
LEMMA StaysContained ==
  ASSUME Inv, [Next]_vars, Contained'
  PROVE  Contained
<1>1. \A r \in Rows : Len(taken[r]) <= Len(taken'[r]) /\ Len(taken[r]) \in Nat
                      /\ Len(taken'[r]) \in Nat
  <2>1. ASSUME NEW t, NEW at, Call(t), Store(t, at), NEW r \in Rows
        PROVE  Len(taken[r]) <= Len(taken'[r]) /\ Len(taken[r]) \in Nat
               /\ Len(taken'[r]) \in Nat
    <3>1. /\ Len(taken'[r]) = IF r \in DOMAIN t THEN Len(taken[r]) + 1 ELSE Len(taken[r])
          /\ Len(taken[r]) \in Nat
      BY <2>1, StoreTakes DEF Inv
    <3> QED
      BY <3>1
  <2>2. CASE Work \/ Rm
    <3>1. \E t : Call(t) /\ Record(t)
      BY <2>2, WorkRecords, RmRecords
    <3>2. \E t, at : Call(t) /\ Store(t, at)
      BY <3>1 DEF Record
    <3> QED
      BY <2>1, <3>2
  <2>3. CASE Race
    <3>1. \E a, t : Call(t) /\ RaceRecord(a, t)
      BY <2>3, RaceRecords
    <3>2. \E t, at : Call(t) /\ Store(t, at)
      BY <3>1 DEF RaceRecord
    <3> QED
      BY <2>1, <3>2
  <2>4. ASSUME taken' = taken, NEW r \in Rows
        PROVE  Len(taken[r]) <= Len(taken'[r]) /\ Len(taken[r]) \in Nat
               /\ Len(taken'[r]) \in Nat
    <3>1. Len(taken[r]) \in Nat
      BY LenProperties DEF Inv, Typed
    <3> QED
      BY <2>4, <3>1
  <2>5. CASE (\E a \in JobApis : FindFull(a)) \/ RunBench \/ EndWork \/ StartClean
             \/ EndClean \/ UNCHANGED vars
    BY <2>4, <2>5 DEF FindFull, RunBench, EndWork, StartClean, EndClean, vars
  <2> QED
    BY <2>2, <2>3, <2>5 DEF Next
<1>2. racing' = racing
  <2>1. CASE Work \/ Rm
    BY <2>1, WorkRecords, RmRecords DEF Record, Store
  <2>2. CASE Race
    BY <2>2, RaceRecords DEF RaceRecord, Store
  <2>3. CASE (\E a \in JobApis : FindFull(a)) \/ RunBench \/ EndWork \/ StartClean
             \/ EndClean \/ UNCHANGED vars
    BY <2>3 DEF FindFull, RunBench, EndWork, StartClean, EndClean, vars
  <2> QED
    BY <2>1, <2>2, <2>3 DEF Next
<1>3. ASSUME racing, NEW a \in JobApis PROVE Len(taken[a]) <= Size(a)
  <2>1. a \in Rows
    BY RowsAre DEF JobApis, RowNames
  <2>2. Len(taken'[a]) <= Size(a)
    BY <1>2, <1>3 DEF Contained
  <2> QED
    BY <1>1, <2>1, <2>2, SizeType
<1> QED
  BY <1>3 DEF Contained

(* A row of several threads has nothing made up in it. *)
LEMMA RowIsMixed ==
  ASSUME Inv, Contained, NEW r \in Rows, Raced(r), r \notin {"fflush", "fileno"}, Mix(r)
  PROVE  /\ Length(CountOf(r), Size(r)) \in Nat
         /\ Length(CountOf(r), Size(r)) <= Len(taken[r])
         /\ \A i \in 1..Length(CountOf(r), Size(r)) :
               mem[Base[r] + (i - 1)] \in ToSet(taken[r])
<1> DEFINE n == Length(r, Size(r))
<1>1. r \in Apis /\ CountOf(r) = r
  BY ApisAre, RowsAre, CountOfIs
<1>2. /\ count[r] \in Nat /\ count[r] <= Len(taken[r]) /\ flag[r] \in BOOLEAN
      /\ Size(r) \in Nat /\ Len(taken[r]) \in Nat
  BY <1>1, SizeType, LenProperties DEF Inv, Typed
<1>3. count[r] <= Size(r)
  BY <1>1, CountFits DEF Inv
<1>4. n = IF flag[r] THEN Size(r) ELSE count[r]
  BY DEF Length
<1>5. n \in Nat /\ n <= Size(r) /\ n <= Len(taken[r])
  BY <1>2, <1>3, <1>4 DEF Mix
<1>6. ASSUME NEW i \in 1..n PROVE mem[Base[r] + (i - 1)] \in ToSet(taken[r])
  <2>1. i \in 1..Size(r) /\ (flag[r] \/ i <= count[r])
    BY <1>2, <1>4, <1>5
  <2> QED
    BY <2>1 DEF Mix
<1> QED
  BY <1>1, <1>5, <1>6

(* A row of the CSV file is what its array is to keep. *)
LEMMA RowIsKept ==
  ASSUME Inv, NEW r \in Rows, ~Raced(r), Ring(r)
  PROVE  Row(r) = Kept(r, taken[r])
<1> DEFINE a == CountOf(r)
           n == Len(taken[r])
           S == Size(r)
           len == IF n < S THEN n ELSE S
<1>0. /\ a \in Apis /\ S \in Nat \ {0} /\ Size(a) = S /\ ~Raced(a)
      /\ taken[r] \in Seq(Int) /\ Base[r] \in Nat
  BY ApisAre, SizeType, RowsApart, RacedIs DEF Inv, Typed
<1>1. /\ a \in Apis /\ S \in Nat \ {0} /\ count[a] \in 0..S-1 /\ n \in Nat
      /\ Base[r] \in Nat
  BY <1>0, LenProperties DEF Inv, Typed
<1>2. PICK q \in Nat : n = q * S + count[a] /\ (flag[a] <=> q > 0)
  BY DEF Ring
<1>3. Length(a, S) = len
  <2>1. CASE q = 0
    <3>1. n = count[a] /\ ~flag[a]
      BY <1>1, <1>2, <2>1
    <3> QED
      BY <1>1, <3>1 DEF Length
  <2>2. CASE q # 0
    <3> DEFINE m == q * S
    <3>1. q \in Nat /\ q > 0 /\ flag[a]
      BY <1>2, <2>2
    <3> HIDE DEF S
    <3>2. q * S = (q - 1) * S + S /\ (q - 1) * S \in Nat
      BY <1>1, <3>1
    <3>3. q * S >= S /\ q * S \in Nat /\ flag[a]
      BY <1>1, <3>1, <3>2
    <3>4. m >= S /\ m \in Nat /\ n = m + count[a]
      BY <1>2, <3>3
    <3> HIDE DEF m
    <3>5. ~(n < S)
      BY <1>1, <3>4
    <3> QED
      BY <3>3, <3>5 DEF Length
  <2> QED
    BY <2>1, <2>2
<1>4. Row(r) = [i \in 1..len |-> mem[Base[r] + i - 1]]
  BY <1>3 DEF Row
<1>5. Kept(r, taken[r]) = [i \in 1..len |-> taken[r][Latest(n, i, S)]]
  BY DEF Kept, Latest
<1>6. ASSUME NEW i \in 1..len
      PROVE  mem[Base[r] + i - 1] = taken[r][Latest(n, i, S)]
  <2>1. i \in 1..S /\ i <= n /\ Base[r] + i - 1 = Base[r] + (i - 1)
    BY <1>1
  <2> QED
    BY <2>1 DEF Ring
<1> HIDE DEF len, n, S
<1> QED
  BY <1>4, <1>5, <1>6

-----------------------------------------------------------------------------
(* The sort. *)

LEMMA LenIs ==
  ASSUME NEW S, NEW n \in Nat, NEW s \in [1..n -> S]
  PROVE  Len(s) = n
<1>1. s \in Seq(S)
  BY SeqDef
<1>2. Len(s) \in Nat /\ DOMAIN s = 1..Len(s) /\ DOMAIN s = 1..n
  BY <1>1, LenProperties
<1> QED
  BY <1>2

(* The partial sums of s. *)
Sums(s, n, g) ==
    /\ g \in [0..n -> Int] /\ g[0] = 0
    /\ \A k \in 1..n : g[k] = g[k - 1] + s[k]

LEMMA SumIs ==
  ASSUME NEW n \in Nat, NEW s \in [1..n -> Int]
  PROVE  \E g : Sums(s, n, g) /\ SumOf(s) = g[n]
<1> DEFINE Chain(g) == g = [k \in 0..n |-> IF k = 0 THEN 0 ELSE g[k - 1] + s[k]]
<1>1. SumOf(s) = (CHOOSE g : Chain(g))[n]
  BY LenIs DEF SumOf
<1>2. \E g : Chain(g)
  <2> DEFINE T == Int
             st == [k \in 1..n |-> [x \in T |-> x + s[k]]]
  <2>1. \A k \in 1..n : \A x \in T : st[k][x] = x + s[k] /\ st[k][x] \in T
    OBVIOUS
  <2>0. 0 \in T
    OBVIOUS
  <2> HIDE DEF T, st, Chain
  <2>2. PICK g : Follows(g, n, T, 0, st)
    BY <2>0, <2>1, RecursionExists
  <2>3. ASSUME NEW k \in 0..n PROVE g[k] = IF k = 0 THEN 0 ELSE g[k - 1] + s[k]
    <3>1. CASE k = 0
      BY <2>2, <3>1 DEF Follows
    <3>2. CASE k # 0
      <4>1. k \in 1..n /\ k - 1 \in 0..n
        BY <3>2
      <4> QED
        BY <2>1, <2>2, <3>2, <4>1 DEF Follows
    <3> QED
      BY <3>1, <3>2
  <2>4. g = [k \in 0..n |-> g[k]]
    BY <2>2 DEF Follows
  <2>5. Chain(g)
    BY <2>3, <2>4 DEF Chain
  <2> QED
    BY <2>5
<1> DEFINE sum == CHOOSE g : Chain(g)
<1>3. Chain(sum)
  <2> HIDE DEF Chain
  <2> QED
    BY <1>2
<1> HIDE DEF sum
<1>4. sum[0] = 0 /\ \A k \in 1..n : sum[k] = sum[k - 1] + s[k]
  BY <1>3
<1> HIDE DEF Chain
<1> DEFINE Good == {k \in 0..n : sum[k] \in Int}
<1>5. 0 \in Good
  BY <1>4
<1>6. ASSUME NEW k \in 0..n-1, k \in Good PROVE k + 1 \in Good
  <2>1. k + 1 \in 1..n /\ sum[k + 1] = sum[(k + 1) - 1] + s[k + 1] /\ (k + 1) - 1 = k
    BY <1>4
  <2> QED
    BY <1>6, <2>1
<1>7. 0..n \subseteq Good
  <2> HIDE DEF Good
  <2> QED
    BY <1>5, <1>6, IntervalInd
<1>8. sum \in [0..n -> Int]
  <2>1. sum = [k \in 0..n |-> sum[k]]
    BY <1>3 DEF Chain
  <2> QED
    BY <1>7, <2>1
<1> QED
  BY <1>1, <1>4, <1>8 DEF Sums, sum

LEMMA SumIsInt ==
  ASSUME NEW n \in Nat, NEW s \in [1..n -> Int]
  PROVE  SumOf(s) \in Int
BY SumIs DEF Sums

(* Exchanging two neighbours does not change the sum. *)
LEMMA SwapSum ==
  ASSUME NEW n \in Nat, NEW t \in [1..n -> Int], NEW j \in 1..n-1
  PROVE  SumOf(Swap(t, j)) = SumOf(t)
<1> DEFINE u == [t EXCEPT ![j] = t[j + 1], ![j + 1] = t[j]]
<1>1. /\ u \in [1..n -> Int] /\ u[j] = t[j + 1] /\ u[j + 1] = t[j]
      /\ \A k \in 1..n : k # j /\ k # j + 1 => u[k] = t[k]
  OBVIOUS
<1>2. Swap(t, j) = u
  BY DEF Swap
<1> HIDE DEF u
<1>3. PICK g : Sums(t, n, g) /\ SumOf(t) = g[n]
  BY SumIs
<1>4. PICK h : Sums(u, n, h) /\ SumOf(u) = h[n]
  BY <1>1, SumIs
<1> DEFINE Good == {k \in 0..n : h[k] = IF k = j THEN g[j - 1] + t[j + 1] ELSE g[k]}
<1>5. 0 \in Good
  BY <1>3, <1>4 DEF Sums
<1>6. ASSUME NEW k \in 0..n-1, k \in Good PROVE k + 1 \in Good
  <2>1. /\ k + 1 \in 1..n /\ (k + 1) - 1 = k
        /\ g[k + 1] = g[k] + t[k + 1] /\ h[k + 1] = h[k] + u[k + 1]
        /\ g[k] \in Int /\ h[k] \in Int
    BY <1>3, <1>4 DEF Sums
  <2>2. CASE k + 1 = j
    <3>1. k # j /\ j - 1 = k /\ k \in 0..n
      BY <2>2
    <3>2. h[k] = g[k]
      BY <1>6, <3>1
    <3>3. u[k + 1] = t[j + 1]
      BY <1>1, <2>2
    <3> QED
      BY <2>1, <2>2, <3>1, <3>2, <3>3
  <2>3. CASE k = j
    <3>1. h[k] = g[j - 1] + t[j + 1] /\ u[k + 1] = t[j] /\ t[k + 1] = t[j + 1]
      BY <1>1, <1>6, <2>3
    <3>2. g[j] = g[j - 1] + t[j] /\ g[j - 1] \in Int /\ t[j] \in Int /\ t[j + 1] \in Int
      BY <1>3 DEF Sums
    <3>3. h[k + 1] = g[k + 1]
      <4>1. h[k + 1] = (g[j - 1] + t[j + 1]) + t[j] /\ g[k + 1] = g[j] + t[j + 1]
        BY <2>1, <2>3, <3>1
      <4> QED
        BY <3>2, <4>1
    <3>4. k + 1 # j /\ k + 1 \in 0..n
      BY <2>1, <2>3
    <3> QED
      BY <3>3, <3>4
  <2>4. CASE k + 1 # j /\ k # j
    <3>1. h[k] = g[k] /\ u[k + 1] = t[k + 1]
      BY <1>1, <1>6, <2>1, <2>4
    <3> QED
      BY <2>1, <2>4, <3>1
  <2> QED
    BY <2>2, <2>3, <2>4
<1>7. 0..n \subseteq Good
  <2> HIDE DEF Good
  <2> QED
    BY <1>5, <1>6, IntervalInd
<1>8. h[n] = g[n]
  BY <1>7
<1> QED
  BY <1>2, <1>3, <1>4, <1>8

(* The body of the inner loop. *)
Compared(t, j) == IF t[j] > t[j + 1] THEN Swap(t, j) ELSE t

(* p is a permutation of 1..n. *)
Permutes(p, n) ==
    /\ p \in [1..n -> 1..n]
    /\ \A a, b \in 1..n : p[a] = p[b] => a = b
    /\ \A c \in 1..n : \E a \in 1..n : p[a] = c

(* One permutation after another. *)
LEMMA PermutesTwice ==
  ASSUME NEW n \in Nat, NEW p, NEW q, Permutes(p, n), Permutes(q, n)
  PROVE  Permutes([k \in 1..n |-> p[q[k]]], n)
<1> DEFINE o == [k \in 1..n |-> p[q[k]]]
<1>1. p \in [1..n -> 1..n] /\ q \in [1..n -> 1..n]
  BY DEF Permutes
<1>2. \A k \in 1..n : o[k] \in 1..n /\ o[k] = p[q[k]]
  BY <1>1
<1>3. o \in [1..n -> 1..n]
  BY <1>2
<1>4. ASSUME NEW a \in 1..n, NEW b \in 1..n, o[a] = o[b] PROVE a = b
  <2>1. p[q[a]] = p[q[b]] /\ q[a] \in 1..n /\ q[b] \in 1..n
    BY <1>1, <1>2, <1>4
  <2>2. q[a] = q[b]
    BY <2>1 DEF Permutes
  <2> QED
    BY <2>2 DEF Permutes
<1>5. ASSUME NEW c \in 1..n PROVE \E a \in 1..n : o[a] = c
  <2>1. PICK b \in 1..n : p[b] = c
    BY DEF Permutes
  <2>2. PICK a \in 1..n : q[a] = b
    BY DEF Permutes
  <2> QED
    BY <1>2, <2>1, <2>2
<1> HIDE DEF o
<1>6. Permutes(o, n)
  BY <1>3, <1>4, <1>5 DEF Permutes
<1> QED
  BY <1>6 DEF o

(* t has the elements of s in another order; those behind m are in their place. *)
Reordered(s, t, n, m) ==
    \E p : /\ Permutes(p, n)
           /\ \A k \in 1..n : t[k] = s[p[k]]
           /\ \A k \in m+1..n : p[k] = k

LEMMA ReorderedSame ==
  ASSUME NEW n \in Nat, NEW s, NEW m \in Nat
  PROVE  Reordered(s, s, n, m)
<1> DEFINE p == [k \in 1..n |-> k]
<1>1. Permutes(p, n)
  BY DEF Permutes
<1>2. \A k \in 1..n : p[k] = k /\ s[k] = s[p[k]]
  OBVIOUS
<1>3. \A k \in m+1..n : p[k] = k
  OBVIOUS
<1> HIDE DEF p
<1> QED
  BY <1>1, <1>2, <1>3 DEF Reordered

LEMMA ReorderedTwice ==
  ASSUME NEW n \in Nat, NEW s, NEW t, NEW u, NEW m, Reordered(s, t, n, n), Reordered(t, u, n, m)
  PROVE  Reordered(s, u, n, n)
<1>1. PICK p : Permutes(p, n) /\ \A k \in 1..n : t[k] = s[p[k]]
  BY DEF Reordered
<1>2. PICK q : Permutes(q, n) /\ \A k \in 1..n : u[k] = t[q[k]]
  BY DEF Reordered
<1> DEFINE o == [k \in 1..n |-> p[q[k]]]
<1>3. q \in [1..n -> 1..n]
  BY <1>2 DEF Permutes
<1>4. \A k \in 1..n : u[k] = s[o[k]]
  BY <1>1, <1>2, <1>3
<1>5. Permutes(o, n)
  BY <1>1, <1>2, PermutesTwice
<1> HIDE DEF o
<1>6. \A k \in n+1..n : o[k] = k
  OBVIOUS
<1> QED
  BY <1>4, <1>5, <1>6 DEF Reordered

(* The array after the first j comparisons of a round. *)
Bubbled(s, t, n, j) ==
    /\ t \in [1..n -> Int]
    /\ SumOf(t) = SumOf(s)
    /\ Reordered(s, t, n, j + 1)
    /\ \A k \in 1..j+1 : t[k] <= t[j + 1]

LEMMA ComparedBubbles ==
  ASSUME NEW n \in Nat, NEW s, NEW t, NEW j \in 1..n-1, Bubbled(s, t, n, j - 1)
  PROVE  Bubbled(s, Compared(t, j), n, j)
<1>1. /\ t \in [1..n -> Int] /\ j \in 1..n /\ j + 1 \in 1..n
      /\ SumOf(t) = SumOf(s)
      /\ \A k \in 1..j : t[k] <= t[j]
  BY DEF Bubbled
<1>2. PICK p : /\ Permutes(p, n)
               /\ \A k \in 1..n : t[k] = s[p[k]]
               /\ \A k \in j+1..n : p[k] = k
  BY DEF Bubbled, Reordered
<1>3. CASE ~ (t[j] > t[j + 1])
  <2>1. Compared(t, j) = t
    BY <1>3 DEF Compared
  <2>2. Reordered(s, t, n, j + 1)
    BY <1>2 DEF Reordered
  <2>3. t[j] \in Int /\ t[j + 1] \in Int /\ t[j] <= t[j + 1]
    BY <1>1, <1>3
  <2>4. ASSUME NEW k \in 1..j+1 PROVE t[k] <= t[j + 1]
    <3>1. CASE k = j + 1
      BY <2>3, <3>1
    <3>2. CASE k \in 1..j
      <4>1. t[k] \in Int /\ t[k] <= t[j]
        BY <1>1, <3>2
      <4> QED
        BY <2>3, <4>1
    <3> QED
      BY <3>1, <3>2
  <2> QED
    BY <1>1, <2>1, <2>2, <2>4 DEF Bubbled
<1>4. CASE t[j] > t[j + 1]
  <2> DEFINE u == [t EXCEPT ![j] = t[j + 1], ![j + 1] = t[j]]
             q == [p EXCEPT ![j] = p[j + 1], ![j + 1] = p[j]]
  <2>1. Compared(t, j) = u
    BY <1>4 DEF Compared, Swap
  <2>2. /\ u \in [1..n -> Int] /\ u[j] = t[j + 1] /\ u[j + 1] = t[j]
        /\ \A k \in 1..n : k # j /\ k # j + 1 => u[k] = t[k]
    BY <1>1
  <2>3. p \in [1..n -> 1..n]
    BY <1>2 DEF Permutes
  <2>4. /\ q \in [1..n -> 1..n] /\ q[j] = p[j + 1] /\ q[j + 1] = p[j]
        /\ \A k \in 1..n : k # j /\ k # j + 1 => q[k] = p[k]
    BY <1>1, <2>3
  <2> HIDE DEF u, q
  <2>5. ASSUME NEW a \in 1..n, NEW b \in 1..n, q[a] = q[b] PROVE a = b
    <3>1. \A x, y \in 1..n : p[x] = p[y] => x = y
      BY <1>2 DEF Permutes
    <3> QED
      BY <1>1, <2>4, <2>5, <3>1
  <2>6. ASSUME NEW c \in 1..n PROVE \E a \in 1..n : q[a] = c
    <3>1. PICK b \in 1..n : p[b] = c
      BY <1>2 DEF Permutes
    <3>2. q[IF b = j THEN j + 1 ELSE IF b = j + 1 THEN j ELSE b] = c
      BY <2>4, <3>1
    <3> QED
      BY <1>1, <3>2
  <2>7. Permutes(q, n)
    BY <2>4, <2>5, <2>6 DEF Permutes
  <2>8. \A k \in 1..n : u[k] = s[q[k]]
    <3>1. u[j] = s[q[j]] /\ u[j + 1] = s[q[j + 1]]
      BY <1>1, <1>2, <2>2, <2>4
    <3>2. \A k \in 1..n : k # j /\ k # j + 1 => u[k] = s[q[k]]
      BY <1>2, <2>2, <2>4
    <3>3. ASSUME NEW k \in 1..n PROVE u[k] = s[q[k]]
      <4>1. CASE k = j
        BY <3>1, <4>1
      <4>2. CASE k = j + 1
        BY <3>1, <4>2
      <4> QED
        BY <3>2, <4>1, <4>2
    <3> QED
      BY <3>3
  <2>9. ASSUME NEW k \in j+2..n PROVE q[k] = k
    <3>1. k \in 1..n /\ k # j /\ k # j + 1 /\ k \in j+1..n
      BY <1>1
    <3> QED
      BY <1>2, <2>4, <3>1
  <2>10. Reordered(s, u, n, j + 1)
    <3>1. \A k \in (j + 1)+1..n : q[k] = k
      BY <1>1, <2>9
    <3> QED
      BY <2>7, <2>8, <3>1 DEF Reordered
  <2>11. ASSUME NEW k \in 1..j+1 PROVE u[k] <= u[j + 1]
    BY <1>1, <1>4, <2>2
  <2>12. SumOf(u) = SumOf(s)
    <3>1. Swap(t, j) = u
      BY DEF Swap, u
    <3> QED
      BY <1>1, <3>1, SwapSum
  <2> QED
    BY <2>1, <2>2, <2>10, <2>11, <2>12 DEF Bubbled
<1> QED
  BY <1>3, <1>4

(* What a round of the sort does. *)
LEMMA BubblePassProps ==
  ASSUME NEW n \in Nat, NEW s \in [1..n -> Int], NEW i \in 1..n-1
  PROVE  Bubbled(s, BubblePass(s, i), n, n - i)
<1> DEFINE m == n - i
           T == [1..n -> Int]
           Chain(g) == g = [j \in 0..m |-> IF j = 0 THEN s
                                           ELSE LET t == g[j - 1]
                                                IN IF t[j] > t[j + 1] THEN Swap(t, j) ELSE t]
<1>1. m \in Nat /\ m <= n - 1 /\ Len(s) - i = m
  BY LenIs
<1>2. BubblePass(s, i) = (CHOOSE g : Chain(g))[m]
  BY <1>1 DEF BubblePass
<1>3. \E g : Chain(g)
  <2> DEFINE st == [j \in 1..m |-> [t \in T |-> Compared(t, j)]]
  <2>1. \A j \in 1..m : \A t \in T : st[j][t] \in T
    BY <1>1 DEF Compared, Swap
  <2>2. s \in T
    OBVIOUS
  <2>3. \A j \in 1..m : \A t \in T : st[j][t] = Compared(t, j)
    OBVIOUS
  <2>0. m \in Nat
    BY <1>1
  <2> HIDE DEF T, st, m, Chain
  <2>4. PICK g : Follows(g, m, T, s, st)
    BY <2>0, <2>1, <2>2, RecursionExists
  <2>5. ASSUME NEW j \in 0..m
        PROVE  g[j] = IF j = 0 THEN s ELSE Compared(g[j - 1], j)
    <3>1. CASE j = 0
      BY <2>4, <3>1 DEF Follows
    <3>2. CASE j # 0
      <4>1. j \in 1..m /\ j - 1 \in 0..m
        BY <1>1, <3>2
      <4> QED
        BY <2>3, <2>4, <3>2, <4>1 DEF Follows
    <3> QED
      BY <3>1, <3>2
  <2>6. g = [j \in 0..m |-> g[j]]
    BY <2>4 DEF Follows
  <2>7. Chain(g)
    BY <2>5, <2>6 DEF Compared, Chain
  <2> QED
    BY <2>7
<1> DEFINE at == CHOOSE g : Chain(g)
<1>4. Chain(at)
  <2> HIDE DEF Chain
  <2> QED
    BY <1>3
<1> HIDE DEF at
<1>5. at[0] = s /\ \A j \in 1..m : at[j] = Compared(at[j - 1], j)
  <2> HIDE DEF m
  <2>1. ASSUME NEW j \in 0..m
        PROVE  at[j] = IF j = 0 THEN s ELSE Compared(at[j - 1], j)
    BY <1>4 DEF Compared
  <2> QED
    BY <1>1, <2>1
<1> HIDE DEF Chain, m
<1> DEFINE Good == {j \in 0..m : Bubbled(s, at[j], n, j)}
<1>6. 0 \in Good
  <2>1. Reordered(s, s, n, 1)
    BY ReorderedSame
  <2>2. \A k \in 1..0+1 : s[k] <= s[0 + 1]
    BY <1>1
  <2> QED
    BY <1>1, <1>5, <2>1, <2>2 DEF Bubbled
<1>7. ASSUME NEW j \in 0..m-1, j \in Good PROVE j + 1 \in Good
  <2>1. j + 1 \in 1..m /\ j + 1 \in 1..n-1 /\ (j + 1) - 1 = j
    BY <1>1
  <2>2. Bubbled(s, at[(j + 1) - 1], n, (j + 1) - 1)
    BY <1>7, <2>1
  <2>3. Bubbled(s, Compared(at[(j + 1) - 1], j + 1), n, j + 1)
    BY <2>1, <2>2, ComparedBubbles
  <2> QED
    BY <1>1, <1>5, <2>1, <2>3
<1>8. 0..m \subseteq Good
  <2> HIDE DEF Good
  <2> QED
    BY <1>1, <1>6, <1>7, IntervalInd
<1>9. Bubbled(s, at[m], n, m)
  BY <1>1, <1>8
<1> QED
  BY <1>2, <1>9 DEF at, m

(* The last i elements are the largest ones, in order. *)
Settled(t, n, i) == \A a \in n-i+1..n : \A b \in 1..a : t[b] <= t[a]

(* A round settles one more element. *)
LEMMA RoundSettles ==
  ASSUME NEW n \in Nat, NEW s \in [1..n -> Int], NEW i \in 1..n-1, Settled(s, n, i - 1)
  PROVE  Settled(BubblePass(s, i), n, i)
<1> DEFINE t == BubblePass(s, i)
           m == n - i + 1
<1>1. /\ t \in [1..n -> Int]
      /\ Reordered(s, t, n, m)
      /\ \A k \in 1..m : t[k] <= t[m]
  BY BubblePassProps DEF Bubbled
<1> HIDE DEF t
<1>2. PICK p : /\ Permutes(p, n)
               /\ \A k \in 1..n : t[k] = s[p[k]]
               /\ \A k \in m+1..n : p[k] = k
  BY <1>1 DEF Reordered
<1>3. ASSUME NEW a \in m..n, NEW b \in 1..a PROVE t[b] <= t[a]
  <2>1. CASE a = m
    BY <1>1, <2>1
  <2>2. CASE a # m
    <3>1. a \in m+1..n /\ a \in 1..n /\ b \in 1..n /\ p[a] = a
      BY <1>2, <2>2
    <3>2. p[b] \in 1..n
      BY <1>2, <3>1 DEF Permutes
    <3>3. p[b] <= a
      <4>1. CASE b \in m+1..n
        BY <1>2, <4>1
      <4>2. CASE b \notin m+1..n
        <5>1. SUFFICES ASSUME p[b] > a PROVE FALSE
          BY <3>1, <3>2
        <5>2. p[b] \in m+1..n
          BY <3>1, <3>2, <5>1
        <5>3. p[p[b]] = p[b]
          BY <1>2, <5>2
        <5>4. p[b] = b
          BY <1>2, <3>1, <3>2, <5>3 DEF Permutes
        <5> QED
          BY <4>2, <5>2, <5>4
      <4> QED
        BY <4>1, <4>2
    <3>4. s[p[b]] <= s[a]
      <4>1. a \in n-(i-1)+1..n /\ p[b] \in 1..a
        BY <3>1, <3>2, <3>3
      <4> QED
        BY <4>1 DEF Settled
    <3> QED
      BY <1>2, <3>1, <3>4
  <2> QED
    BY <2>1, <2>2
<1> QED
  BY <1>3 DEF Settled, t

(* sys_bubble_sort sorts: the elements are the same, in ascending order. *)
LEMMA BubbleSorts ==
  ASSUME NEW n \in Nat \ {0}, NEW s \in [1..n -> Int]
  PROVE  /\ sys_bubble_sort(s) \in [1..n -> Int]
         /\ SumOf(sys_bubble_sort(s)) = SumOf(s)
         /\ Reordered(s, sys_bubble_sort(s), n, n)
         /\ \A a \in 1..n : \A b \in 1..a : sys_bubble_sort(s)[b] <= sys_bubble_sort(s)[a]
<1> DEFINE m == n - 1
           T == [1..n -> Int]
           Chain(g) == g = [i \in 0..m |-> IF i = 0 THEN s ELSE BubblePass(g[i - 1], i)]
<1>1. m \in Nat /\ Len(s) - 1 = m
  BY LenIs
<1>2. sys_bubble_sort(s) = (CHOOSE g : Chain(g))[m]
  BY <1>1 DEF sys_bubble_sort
<1>3. \E g : Chain(g)
  <2> DEFINE st == [i \in 1..m |-> [t \in T |-> BubblePass(t, i)]]
  <2>1. \A i \in 1..m : \A t \in T : st[i][t] \in T
    BY BubblePassProps DEF Bubbled
  <2>2. s \in T
    OBVIOUS
  <2>3. \A i \in 1..m : \A t \in T : st[i][t] = BubblePass(t, i)
    OBVIOUS
  <2>0. m \in Nat
    BY <1>1
  <2> HIDE DEF T, st, m, Chain
  <2>4. PICK g : Follows(g, m, T, s, st)
    BY <2>0, <2>1, <2>2, RecursionExists
  <2>5. ASSUME NEW i \in 0..m
        PROVE  g[i] = IF i = 0 THEN s ELSE BubblePass(g[i - 1], i)
    <3>1. CASE i = 0
      BY <2>4, <3>1 DEF Follows
    <3>2. CASE i # 0
      <4>1. i \in 1..m /\ i - 1 \in 0..m
        BY <1>1, <3>2
      <4> QED
        BY <2>3, <2>4, <3>2, <4>1 DEF Follows
    <3> QED
      BY <3>1, <3>2
  <2>6. g = [i \in 0..m |-> g[i]]
    BY <2>4 DEF Follows
  <2>7. Chain(g)
    BY <2>5, <2>6 DEF Chain
  <2> QED
    BY <2>7
<1> DEFINE round == CHOOSE g : Chain(g)
<1>4. Chain(round)
  <2> HIDE DEF Chain
  <2> QED
    BY <1>3
<1> HIDE DEF round
<1>5. round[0] = s /\ \A i \in 1..m : round[i] = BubblePass(round[i - 1], i)
  BY <1>1, <1>4
<1> HIDE DEF Chain
<1> DEFINE Good == {i \in 0..m : /\ round[i] \in [1..n -> Int]
                                 /\ SumOf(round[i]) = SumOf(s)
                                 /\ Reordered(s, round[i], n, n)
                                 /\ Settled(round[i], n, i)}
<1>6. 0 \in Good
  <2>1. Reordered(s, s, n, n)
    BY ReorderedSame
  <2>2. Settled(s, n, 0)
    BY DEF Settled
  <2> QED
    BY <1>1, <1>5, <2>1, <2>2
<1>7. ASSUME NEW i \in 0..m-1, i \in Good PROVE i + 1 \in Good
  <2> DEFINE r == round[i]
             u == BubblePass(r, i + 1)
  <2>1. i + 1 \in 1..m /\ i + 1 \in 1..n-1 /\ (i + 1) - 1 = i
    BY <1>1
  <2>2. r \in [1..n -> Int] /\ SumOf(r) = SumOf(s) /\ Reordered(s, r, n, n) /\ Settled(r, n, (i + 1) - 1)
    BY <1>7, <2>1
  <2>3. round[i + 1] = u
    BY <1>5, <2>1
  <2> HIDE DEF r, m
  <2>4. Bubbled(r, u, n, n - (i + 1)) /\ Settled(u, n, i + 1)
    BY <2>1, <2>2, BubblePassProps, RoundSettles
  <2> HIDE DEF u
  <2>5. u \in [1..n -> Int] /\ SumOf(u) = SumOf(r) /\ Reordered(r, u, n, n - (i + 1) + 1)
    BY <2>4 DEF Bubbled
  <2>6. Reordered(s, u, n, n)
    BY <2>2, <2>5, ReorderedTwice
  <2>7. i + 1 \in 0..m
    BY <1>1, <2>1
  <2> QED
    BY <2>2, <2>3, <2>4, <2>5, <2>6, <2>7
<1>8. 0..m \subseteq Good
  <2> HIDE DEF Good, m
  <2> QED
    BY <1>1, <1>6, <1>7, IntervalInd
<1> DEFINE z == round[m]
<1>9. z \in [1..n -> Int] /\ SumOf(z) = SumOf(s) /\ Reordered(s, z, n, n) /\ Settled(z, n, m)
  BY <1>1, <1>8
<1>10. sys_bubble_sort(s) = z
  BY <1>2 DEF round
<1> HIDE DEF z
<1>11. ASSUME NEW a \in 1..n, NEW b \in 1..a PROVE z[b] <= z[a]
  <2>1. CASE a = 1
    BY <1>9, <2>1
  <2>2. CASE a # 1
    BY <1>9, <2>2 DEF Settled
  <2> QED
    BY <2>1, <2>2
<1> QED
  BY <1>9, <1>10, <1>11

(* sys_bubble_sort sorts every array (common/utils.c:15): its elements are the
   same, each as often as before, in ascending order.  A sum taken after it, as
   of fsync_time, is the one before it. *)
THEOREM SortIsCorrect ==
  ASSUME NEW n \in Nat \ {0}, NEW s \in [1..n -> Int]
  PROVE  LET t == sys_bubble_sort(s)
         IN /\ \E p \in Bijection(1..n, 1..n) : t = [k \in 1..n |-> s[p[k]]]
            /\ \A a, b \in 1..n : a <= b => t[a] <= t[b]
            /\ SumOf(t) = SumOf(s)
<1> DEFINE t == sys_bubble_sort(s)
<1>1. /\ t \in [1..n -> Int] /\ Reordered(s, t, n, n) /\ SumOf(t) = SumOf(s)
      /\ \A a \in 1..n : \A b \in 1..a : t[b] <= t[a]
  BY BubbleSorts
<1> HIDE DEF t
<1>2. PICK p : Permutes(p, n) /\ \A k \in 1..n : t[k] = s[p[k]]
  BY <1>1 DEF Reordered
<1>3. p \in Bijection(1..n, 1..n)
  BY <1>2 DEF Permutes, Bijection, Injection, Surjection, IsInjective
<1>4. t = [k \in 1..n |-> s[p[k]]]
  BY <1>1, <1>2
<1>5. \A a, b \in 1..n : a <= b => t[a] <= t[b]
  BY <1>1
<1> QED
  BY <1>1, <1>3, <1>4, <1>5 DEF t

-----------------------------------------------------------------------------
(* What a bench does with its array. *)

LEMMA OldIs ==
  ASSUME Typed, mem \in [Cells -> Int], NEW r \in Rows
  PROVE  Old(r) \in [1..BenchLen(r) -> Int]
BY BenchCells DEF Old

LEMMA InBenchIs ==
  ASSUME Typed, NEW r \in Rows
  PROVE  /\ \A i \in 1..BenchLen(r) : InBench(r, Base[r] + i - 1)
         /\ \A c : InBench(r, c) => /\ c - Base[r] + 1 \in 1..BenchLen(r)
                                    /\ c = Base[r] + (c - Base[r] + 1) - 1
<1>1. BenchLen(r) \in Nat /\ Base[r] \in Nat
  BY BenchCells
<1> HIDE DEF BenchLen
<1> QED
  BY <1>1 DEF InBench

(* A bench that runs leaves its array sorted and the rest of mem as it was. *)
LEMMA RunsSorted ==
  ASSUME Typed, NEW r \in Rows, Runs(r), ~TooFew(BenchLen(r))
  PROVE  /\ mem' = [c \in Cells |-> mem'[c]]
         /\ \A i \in 1..BenchLen(r) : mem'[Base[r] + i - 1] = Sorted(r)[i]
         /\ \A c \in Cells : ~InBench(r, c) => mem'[c] = mem[c]
<1>1. mem' = [c \in Cells |-> IF InBench(r, c) THEN Sorted(r)[c - Base[r] + 1] ELSE mem[c]]
  BY DEF Runs
<1>2. ASSUME NEW i \in 1..BenchLen(r)
      PROVE  mem'[Base[r] + i - 1] = Sorted(r)[i]
  <2> DEFINE c == Base[r] + i - 1
  <2>1. InBench(r, c)
    BY InBenchIs
  <2>2. c \in Cells /\ c - Base[r] + 1 = i
    BY BenchCells
  <2> HIDE DEF c
  <2>3. mem'[c] = Sorted(r)[c - Base[r] + 1]
    BY <1>1, <2>1, <2>2
  <2> QED
    BY <2>2, <2>3 DEF c
<1> QED
  BY <1>1, <1>2

(* The cells of mem' are those of mem in another order. *)
Shuffled(f) ==
    /\ f \in [Cells -> Cells]
    /\ \A c, d \in Cells : f[c] = f[d] => c = d
    /\ \A d \in Cells : \E c \in Cells : f[c] = d
    /\ \A c \in Cells : mem'[c] = mem[f[c]]

LEMMA RunsShuffle ==
  ASSUME Typed, mem \in [Cells -> Int], NEW r \in Rows, Runs(r)
  PROVE  \E f : Shuffled(f)
<1> DEFINE len == BenchLen(r)
           b == Base[r]
<1>1. CASE TooFew(len)
  <2> DEFINE f == [c \in Cells |-> c]
  <2>1. mem' = mem
    BY <1>1 DEF Runs
  <2>2. Shuffled(f)
    BY <2>1 DEF Shuffled
  <2> HIDE DEF f
  <2> QED
    BY <2>2
<1>2. CASE ~TooFew(len)
  <2> DEFINE o == Old(r)
             z == Sorted(r)
  <2>1. len \in Nat \ {0} /\ b \in Nat
    BY <1>2, BenchCells DEF TooFew
  <2>2. PICK p : Permutes(p, len) /\ \A i \in 1..len : z[i] = o[p[i]]
    <3>1. o \in [1..len -> Int]
      BY OldIs
    <3> HIDE DEF o, z
    <3>2. z = sys_bubble_sort(o)
      BY DEF Sorted, o, z
    <3>3. Reordered(o, z, len, len)
      BY <2>1, <3>1, <3>2, BubbleSorts
    <3> QED
      BY <3>3 DEF Reordered
  <2>3. /\ p \in [1..len -> 1..len]
        /\ \A i, j \in 1..len : p[i] = p[j] => i = j
        /\ \A j \in 1..len : \E i \in 1..len : p[i] = j
    BY <2>2 DEF Permutes
  <2> DEFINE in(c) == InBench(r, c)
             at(c) == c - b + 1
             cell(i) == b + i - 1
             f == [c \in Cells |-> IF in(c) THEN cell(p[at(c)]) ELSE c]
  <2>4. \A i \in 1..len : cell(i) \in Cells /\ in(cell(i))
    BY BenchCells, InBenchIs
  <2>5. \A c : in(c) => at(c) \in 1..len /\ c = cell(at(c))
    BY InBenchIs
  <2>6. \A i \in 1..len : o[i] = mem[cell(i)] /\ mem'[cell(i)] = z[i]
    BY <1>2, RunsSorted DEF Old
  <2>7. \A c \in Cells : ~in(c) => mem'[c] = mem[c]
    BY <1>2, RunsSorted
  <2>8. \A i, j \in 1..len : cell(i) = cell(j) => i = j
    BY <2>1
  <2>9. \A i \in 1..len : at(cell(i)) = i
    BY <2>1
  <2> HIDE DEF o, z, in, at, cell
  <2>10. ASSUME NEW c \in Cells
         PROVE  f[c] \in Cells /\ (in(f[c]) <=> in(c))
    <3>1. CASE in(c)
      <4>1. at(c) \in 1..len /\ p[at(c)] \in 1..len /\ f[c] = cell(p[at(c)])
        BY <2>3, <2>5, <3>1
      <4> QED
        BY <2>4, <3>1, <4>1
    <3>2. CASE ~in(c)
      BY <3>2
    <3> QED
      BY <3>1, <3>2
  <2>11. ASSUME NEW c \in Cells, NEW d \in Cells, f[c] = f[d] PROVE c = d
    <3>1. CASE in(c) /\ in(d)
      <4>1. /\ at(c) \in 1..len /\ at(d) \in 1..len
            /\ p[at(c)] \in 1..len /\ p[at(d)] \in 1..len
            /\ cell(p[at(c)]) = cell(p[at(d)])
        BY <2>3, <2>5, <2>11, <3>1
      <4>2. at(c) = at(d)
        BY <2>3, <2>8, <4>1
      <4> QED
        BY <2>5, <3>1, <4>2
    <3>2. CASE ~in(c) /\ ~in(d)
      BY <2>11, <3>2
    <3>3. in(c) <=> in(d)
      BY <2>10, <2>11
    <3> QED
      BY <3>1, <3>2, <3>3
  <2>12. ASSUME NEW d \in Cells PROVE \E c \in Cells : f[c] = d
    <3>1. CASE in(d)
      <4>1. at(d) \in 1..len /\ d = cell(at(d))
        BY <2>5, <3>1
      <4>2. PICK i \in 1..len : p[i] = at(d)
        BY <2>3, <4>1
      <4>3. cell(i) \in Cells /\ f[cell(i)] = cell(p[i])
        BY <2>4, <2>9
      <4> QED
        BY <4>1, <4>2, <4>3
    <3>2. CASE ~in(d)
      BY <3>2
    <3> QED
      BY <3>1, <3>2
  <2>13. ASSUME NEW c \in Cells PROVE mem'[c] = mem[f[c]]
    <3>1. CASE in(c)
      <4>1. at(c) \in 1..len /\ c = cell(at(c)) /\ p[at(c)] \in 1..len
            /\ f[c] = cell(p[at(c)])
        BY <2>3, <2>5, <3>1
      <4>2. mem'[c] = z[at(c)] /\ o[p[at(c)]] = mem[f[c]]
        BY <2>6, <4>1
      <4> QED
        BY <2>2, <4>1, <4>2
    <3>2. CASE ~in(c)
      BY <2>7, <3>2
    <3> QED
      BY <3>1, <3>2
  <2>14. f \in [Cells -> Cells]
    BY <2>10
  <2> HIDE DEF f
  <2>15. Shuffled(f)
    BY <2>10, <2>11, <2>12, <2>13, <2>14 DEF Shuffled
  <2> QED
    BY <2>15
<1> QED
  BY <1>1, <1>2

(* So no value is lost, and none comes more often than before. *)
LEMMA ShuffleKeeps ==
  ASSUME NEW f, Shuffled(f), NEW v
  PROVE  Cardinality({c \in Cells : mem[c] = v}) = Cardinality({c \in Cells : mem'[c] = v})
<1> DEFINE A == {c \in Cells : mem[c] = v}
           B == {c \in Cells : mem'[c] = v}
           g == [c \in B |-> f[c]]
<1>1. IsFiniteSet(B)
  <2>1. IsFiniteSet(Cells)
    <3>1. 9 * MaxApi + 3 * MaxFile - 1 \in Int
      BY ReportsAssumption
    <3> QED
      BY <3>1, FS_Interval DEF Cells
  <2> QED
    BY <2>1, FS_Subset
<1>2. g \in [B -> A]
  BY DEF Shuffled
<1>3. \A c, d \in B : g[c] = g[d] => c = d
  BY DEF Shuffled
<1>4. ASSUME NEW d \in A PROVE \E c \in B : g[c] = d
  <2>1. PICK c \in Cells : f[c] = d
    BY DEF Shuffled
  <2>2. c \in B
    BY <2>1 DEF Shuffled
  <2> QED
    BY <2>1, <2>2
<1>5. ExistsBijection(B, A)
  <2> HIDE DEF A, B, g
  <2>1. g \in Injection(B, A)
    BY <1>2, <1>3 DEF Injection, IsInjective
  <2>2. g \in Surjection(B, A)
    BY <1>2, <1>4 DEF Surjection
  <2> QED
    BY <2>1, <2>2 DEF ExistsBijection, Bijection
<1> HIDE DEF A, B
<1> QED
  BY <1>1, <1>5, FS_Bijection DEF A, B

-----------------------------------------------------------------------------
(* Types: every value in mem is an initial one or was recorded. *)

Samples ==
    /\ mem \in [Cells -> Values]
    /\ \A r \in Rows : report[r] = NoReport \/ report[r].count > 1
    /\ step \in {"work", "step5", "clean", "step6"}
    /\ csv = << >> \/ DOMAIN csv = Rows
    /\ step = "work" => csv = << >>

LEMMA ValuesAreInts ==
  ASSUME \A r \in Rows : taken[r] \in Seq(Int)
  PROVE  Values \subseteq Int
<1>1. ASSUME NEW r \in Rows PROVE ToSet(taken[r]) \subseteq Int
  <2>1. taken[r] \in [1..Len(taken[r]) -> Int]
    BY LenProperties
  <2> QED
    BY <2>1 DEF ToSet
<1>2. ASSUME NEW v \in Values PROVE v \in Int
  <2>1. v \in {-1, 0} \/ \E r \in Rows : v \in ToSet(taken[r])
    BY DEF Values
  <2> QED
    BY <1>1, <2>1
<1> QED
  BY <1>2

LEMMA MemIsInt == Typed /\ Samples => mem \in [Cells -> Int]
BY ValuesAreInts DEF Typed, Samples

LEMMA StoreSamples ==
  ASSUME Typed, Samples, NEW t, Call(t), NEW at, Store(t, at)
  PROVE  Samples'
<1>1. ASSUME NEW r \in Rows
      PROVE  /\ ToSet(taken[r]) \subseteq ToSet(taken'[r])
             /\ r \in DOMAIN t => t[r] \in ToSet(taken'[r])
  <2>1. taken'[r] = IF r \in DOMAIN t THEN Append(taken[r], t[r]) ELSE taken[r]
    BY StoreTakes
  <2>2. taken[r] \in Seq(Int) /\ (r \in DOMAIN t => t[r] \in Int)
    BY DEF Typed, Call
  <2>3. CASE r \notin DOMAIN t
    BY <2>1, <2>3
  <2>4. CASE r \in DOMAIN t
    BY <2>1, <2>2, <2>4, ToSetAppend
  <2> QED
    BY <2>3, <2>4
<1>2. Values \subseteq Values'
  BY <1>1 DEF Values
<1>3. \A r \in DOMAIN t : t[r] \in Values'
  BY <1>1 DEF Values, Call
<1>4. mem' \in [Cells -> Values']
  <2>1. ASSUME NEW c \in Cells PROVE mem'[c] \in Values'
    <3>1. mem[c] \in Values'
      BY <1>2 DEF Samples
    <3>2. mem'[c] = mem[c] \/ \E q \in DOMAIN t : mem'[c] = t[q]
      BY StoreIs DEF Call
    <3> QED
      BY <1>3, <3>1, <3>2
  <2>2. mem' = [c \in Cells |-> mem'[c]]
    BY DEF Store
  <2> QED
    BY <2>1, <2>2
<1>5. UNCHANGED <<csv, report, step>>
  BY DEF Store
<1> QED
  BY <1>4, <1>5 DEF Samples

LEMMA RunBenchSamples ==
  ASSUME Typed, Samples, RunBench
  PROVE  Samples'
<1> DEFINE a == Head(todo)
<1>1. a \in Rows /\ Runs(a) /\ mem \in [Cells -> Int]
  BY RunBenchRuns, MemIsInt
<1>2. UNCHANGED <<csv, step, taken>>
  BY DEF RunBench
<1>3. Values' = Values
  BY <1>2 DEF Values
<1> HIDE DEF a
<1>4. PICK f : Shuffled(f)
  BY <1>1, RunsShuffle
<1>5. mem' = [c \in Cells |-> mem'[c]]
  BY <1>1, RunsStores
<1>6. \A c \in Cells : mem'[c] \in Values
  BY <1>4 DEF Shuffled, Samples
<1>7. ASSUME NEW r \in Rows PROVE report'[r] = NoReport \/ report'[r].count > 1
  <2>1. BenchLen(a) \in Nat
    BY <1>1, BenchCells
  <2>2. CASE TooFew(BenchLen(a))
    BY <1>1, <2>2 DEF Runs, Samples
  <2>3. CASE ~TooFew(BenchLen(a))
    <3>1. PICK sum : report' = [q \in Rows |-> IF q = a THEN ReportOf(a, sum) ELSE report[q]]
      BY <1>1, <2>3 DEF Runs
    <3>2. BenchLen(a) > 1
      BY <2>1, <2>3 DEF TooFew
    <3>3. ReportOf(a, sum).count = BenchLen(a)
      BY DEF ReportOf
    <3>4. report'[r] = IF r = a THEN ReportOf(a, sum) ELSE report[r]
      BY <3>1
    <3> QED
      BY <3>2, <3>3, <3>4 DEF Samples
  <2> QED
    BY <2>2, <2>3
<1> QED
  BY <1>2, <1>3, <1>5, <1>6, <1>7 DEF Samples

LEMMA SamplesInit == Init => Samples
<1> SUFFICES ASSUME Init PROVE Samples
  OBVIOUS
<1>1. \A r \in Rows : report[r] = NoReport
  BY DEF Init
<1>2. mem \in [Cells -> Values]
  <2>1. -1 \in Values /\ 0 \in Values
    BY DEF Values
  <2>2. mem = [c \in Cells |-> IF \E r \in Rows : c = Base[r] THEN -1 ELSE 0]
    BY DEF Init
  <2> HIDE DEF Values
  <2> QED
    BY <2>1, <2>2
<1> QED
  BY <1>1, <1>2 DEF Init, Samples

LEMMA SamplesStep == Inv /\ Samples /\ [Next]_vars => Samples'
<1> SUFFICES ASSUME Inv, Samples, [Next]_vars PROVE Samples'
  OBVIOUS
<1>1. CASE Work \/ Rm
  <2>1. \E t, at : Call(t) /\ Store(t, at)
    BY <1>1, WorkRecords, RmRecords DEF Record
  <2> QED
    BY <2>1, StoreSamples DEF Inv
<1>2. CASE Race
  <2>1. \E t, at : Call(t) /\ Store(t, at)
    BY <1>2, RaceRecords DEF RaceRecord
  <2> QED
    BY <2>1, StoreSamples DEF Inv
<1>3. CASE RunBench
  BY <1>3, RunBenchSamples DEF Inv
<1>4. CASE EndWork
  <2>1. UNCHANGED <<mem, report, taken>> /\ step' = "step5"
    BY <1>4 DEF EndWork
  <2>2. csv' = << >> \/ csv' = PosixCsv(LibcCsv)
    BY <1>4 DEF EndWork
  <2>3. DOMAIN PosixCsv(LibcCsv) = Rows
    BY RowsAre DEF PosixCsv, LibcCsv, PosixRows, RowNames
  <2> QED
    BY <2>1, <2>2, <2>3 DEF Samples, Values
<1>5. CASE (\E a \in JobApis : FindFull(a)) \/ StartClean \/ EndClean \/ UNCHANGED vars
  <2>1. /\ UNCHANGED <<mem, report, taken, csv>> /\ step' \in {step, "clean", "step6"}
        /\ step' = "work" => step = "work"
    BY <1>5 DEF FindFull, StartClean, EndClean, vars
  <2> QED
    BY <2>1 DEF Samples, Values
<1> QED
  BY <1>1, <1>2, <1>3, <1>4, <1>5 DEF Next

(* The arrays only ever hold what they started with or what was recorded,
   whatever lengths the benches sort and however the jobs race.  A count stays
   below MAX where one thread alone records; where several do it may pass MAX
   (libc/sys_libc_file.c:27). *)
THEOREM TypeCorrect == Spec => []TypeOK
<1>1. Inv /\ Samples => TypeOK
  <2> SUFFICES ASSUME Inv, Samples PROVE TypeOK
    OBVIOUS
  <2>1. ASSUME NEW a \in Apis, count[a] > 0 PROVE Base[a] + count[a] - 1 \in Cells
    <3>1. /\ a \in Rows /\ count[a] \in Nat /\ Base[a] + count[a] <= End
      BY ApisAre DEF Inv, Typed
    <3>2. Base[a] \in Nat /\ End \in Nat /\ Cells = 0 .. End - 1
      BY <3>1, RowsEnd
    <3> QED
      BY <2>1, <3>1, <3>2
  <2> QED
    BY <2>1 DEF Inv, Typed, Samples, TypeOK
<1> QED
  BY <1>1, InvInit, InvStep, SamplesInit, SamplesStep, PTL DEF Spec

(* No bench loses a sample or makes one up, also where it takes a length that
   its array does not have (posix/sys_posix_cmd.c:191, :252) or a count that
   racing jobs have brought beyond MAX, and sorts the arrays behind, too. *)
THEOREM BenchesPermute == Spec => BenchPermutes
<1>1. Inv /\ Samples /\ [Next]_vars =>
        (RunBench => \A v \in Values :
            Cardinality({c \in Cells : mem[c] = v}) = Cardinality({c \in Cells : mem'[c] = v}))
  <2> SUFFICES ASSUME Inv, Samples, RunBench, NEW v
               PROVE  Cardinality({c \in Cells : mem[c] = v})
                        = Cardinality({c \in Cells : mem'[c] = v})
    OBVIOUS
  <2>1. Head(todo) \in Rows /\ Runs(Head(todo)) /\ mem \in [Cells -> Int]
    BY RunBenchRuns, MemIsInt DEF Inv
  <2>2. PICK f : Shuffled(f)
    BY <2>1, RunsShuffle DEF Inv
  <2> QED
    BY <2>2, ShuffleKeeps
<1> QED
  BY <1>1, InvInit, InvStep, SamplesInit, SamplesStep, PTL DEF Spec, BenchPermutes

-----------------------------------------------------------------------------
(* The reports. *)

Late == {"access", "unlink"}

(* Division of C misses the quotient by less than one. *)
LEMMA CDivNear ==
  ASSUME NEW a \in Int, NEW n \in Nat \ {0}
  PROVE  CDiv(a, n) * n - a \in (1 - n)..(n - 1)
<1>1. CASE a >= 0
  <2> DEFINE q == a \div n
             m == n * q
  <2>1. a \in Nat /\ q \in Nat /\ m \in Nat /\ m <= a /\ a < m + n
    BY <1>1, DivIs
  <2>2. CDiv(a, n) = q
    BY <1>1 DEF CDiv
  <2> HIDE DEF q
  <2>3. q * n = m
    BY <2>1
  <2> HIDE DEF m
  <2> QED
    BY <2>1, <2>2, <2>3
<1>2. CASE ~(a >= 0)
  <2> DEFINE b == -a
             q == b \div n
             m == n * q
  <2>1. b \in Nat
    BY <1>2
  <2>2. q \in Nat /\ m \in Nat /\ m <= b /\ b < m + n
    BY <2>1, DivIs
  <2>3. CDiv(a, n) = -q
    BY <1>2 DEF CDiv
  <2>4. a = -b
    OBVIOUS
  <2> HIDE DEF q, b
  <2>5. (-q) * n = -m
    BY <2>2
  <2> HIDE DEF m
  <2> QED
    BY <2>1, <2>2, <2>3, <2>4, <2>5
<1> QED
  BY <1>1, <1>2

(* What the report of an array is to tell. *)
Tells(r) ==
    LET s == Kept(r, seen[r])
        told == report[r]
    IN /\ ~Raced(r) =>
             /\ told.count = Len(s)
             /\ told.min \in ToSet(s) /\ told.max \in ToSet(s)
             /\ \A t \in ToSet(s) : told.min <= t /\ t <= told.max
             /\ r \notin {"sync", "access", "unlink"} =>
                   told.avg * Len(s) - SumOf(s) \in (1 - Len(s))..(Len(s) - 1)
       /\ (Raced(r) /\ r \notin {"fflush", "fileno"}) =>
             /\ told.count <= Len(seen[r])
             /\ {told.min, told.max} \subseteq ToSet(seen[r])
             /\ told.min <= told.max

(* A report of n samples, from s sorted into z. *)
LEMMA ReportTells ==
  ASSUME NEW n \in Nat \ {0}, NEW s \in [1..n -> Int], NEW sum \in Int,
         NEW z, z = sys_bubble_sort(s)
  PROVE  /\ z[1] \in ToSet(s) /\ z[n] \in ToSet(s)
         /\ \A t \in ToSet(s) : z[1] <= t /\ t <= z[n]
         /\ CDiv(0 + SumOf(s), n) * n - SumOf(s) \in (1 - n)..(n - 1)
<1>1. /\ z \in [1..n -> Int] /\ Reordered(s, z, n, n)
      /\ \A a \in 1..n : \A b \in 1..a : z[b] <= z[a]
  BY BubbleSorts
<1>2. PICK p : Permutes(p, n) /\ \A k \in 1..n : z[k] = s[p[k]]
  BY <1>1 DEF Reordered
<1>3. /\ p \in [1..n -> 1..n]
      /\ \A c \in 1..n : \E a \in 1..n : p[a] = c
  BY <1>2 DEF Permutes
<1>4. DOMAIN s = 1..n /\ 1 \in 1..n /\ n \in 1..n
  OBVIOUS
<1>5. z[1] \in ToSet(s) /\ z[n] \in ToSet(s)
  BY <1>2, <1>3, <1>4 DEF ToSet
<1>6. ASSUME NEW t \in ToSet(s) PROVE z[1] <= t /\ t <= z[n]
  <2>1. PICK c \in 1..n : t = s[c]
    BY <1>4 DEF ToSet
  <2>2. PICK a \in 1..n : p[a] = c
    BY <1>3
  <2>3. t = z[a] /\ 1 \in 1..a /\ a \in 1..n
    BY <1>2, <2>1, <2>2
  <2> QED
    BY <1>1, <1>4, <2>3
<1>7. CDiv(0 + SumOf(s), n) * n - SumOf(s) \in (1 - n)..(n - 1)
  <2> DEFINE x == SumOf(s)
  <2>1. x \in Int
    BY SumIsInt
  <2> HIDE DEF x
  <2>2. 0 + x = x
    BY <2>1
  <2>3. CDiv(x, n) * n - x \in (1 - n)..(n - 1)
    BY <2>1, CDivNear
  <2> QED
    BY <2>2, <2>3 DEF x
<1> QED
  BY <1>5, <1>6, <1>7

(* The bench of an array that is filled tells of its samples. *)
LEMMA BenchTells ==
  ASSUME Inv, Samples, Contained, RunBench, NEW r \in Rows, r = Head(todo), Filled(r),
         r \in Late => ~flag["access"], report[r] = NoReport
  PROVE  report'[r] = NoReport \/ Tells(r)'
<1> DEFINE n == BenchLen(r)
           s == Old(r)
           z == sys_bubble_sort(s)
<1>1. /\ r \in Rows /\ Runs(r) /\ mem \in [Cells -> Int]
      /\ seen' = [q \in Rows |-> IF q = r THEN taken[q] ELSE seen[q]]
  BY RunBenchRuns, MemIsInt DEF Inv
<1>2. seen'[r] = taken[r] /\ UNCHANGED <<racing, taken>>
  BY <1>1 DEF RunBench
<1>3. n = Length(CountOf(r), Size(r)) /\ n \in Nat /\ Base[r] \in Nat
  BY <1>1, LengthRight, CountFits, BenchCells DEF Inv, Late
<1>4. s \in [1..n -> Int]
  BY <1>1, OldIs DEF Inv
<1>5. s = Row(r)
  <2>1. s = [i \in 1..n |-> mem[Base[r] + i - 1]]
    BY DEF Old
  <2> HIDE DEF n, s
  <2> QED
    BY <1>3, <2>1 DEF Row
<1>6. Raced(r)' <=> Raced(r)
  BY <1>2 DEF Raced
<1>7. CASE TooFew(n)
  BY <1>1, <1>7 DEF Runs
<1>8. CASE ~TooFew(n)
  <2>1. PICK sum \in BenchSums(r) :
          report' = [q \in Rows |-> IF q = r THEN ReportOf(r, sum) ELSE report[q]]
    BY <1>1, <1>8 DEF Runs
  <2>2. report'[r] = [min |-> z[1], max |-> z[n], avg |-> CDiv(sum + SumOf(s), n), count |-> n]
    BY <1>1, <2>1 DEF ReportOf, Sorted
  <2>3. n \in Nat \ {0}
    BY <1>3, <1>8 DEF TooFew
  <2>4. sum \in Int /\ (r \notin {"sync", "access", "unlink"} => sum = 0)
    BY ReportsAssumption DEF BenchSums
  <2> HIDE DEF n, s
  <2>5. /\ z[1] \in ToSet(s) /\ z[n] \in ToSet(s)
        /\ \A t \in ToSet(s) : z[1] <= t /\ t <= z[n]
        /\ CDiv(0 + SumOf(s), n) * n - SumOf(s) \in (1 - n)..(n - 1)
    BY <1>4, <2>3, <2>4, ReportTells
  <2>6. Len(s) = n /\ DOMAIN s = 1..n
    BY <1>4, <2>3, LenIs
  <2> HIDE DEF z
  <2>7. /\ report'[r].min = z[1] /\ report'[r].max = z[n] /\ report'[r].count = n
        /\ report'[r].avg = CDiv(sum + SumOf(s), n)
    BY <2>2
  <2>8. CASE ~Raced(r)
    <3>1. s = Kept(r, taken[r])
      BY <1>1, <1>5, <2>8, RowIsKept DEF Filled
    <3>2. Kept(r, seen[r])' = s
      BY <1>2, <3>1 DEF Kept
    <3>3. SumOf(Kept(r, seen[r]))' = SumOf(s)
      BY <3>2
    <3> QED
      BY <1>6, <2>4, <2>5, <2>6, <2>7, <2>8, <3>2, <3>3 DEF Tells
  <2>9. CASE Raced(r) /\ r \notin {"fflush", "fileno"}
    <3>1. /\ n <= Len(taken[r])
          /\ \A i \in 1..n : mem[Base[r] + (i - 1)] \in ToSet(taken[r])
      BY <1>1, <1>3, <2>9, RowIsMixed DEF Filled
    <3>2. \A i \in 1..n : s[i] = mem[Base[r] + (i - 1)]
      <4>1. \A i \in 1..n : s[i] = mem[Base[r] + i - 1]
        BY DEF s, n, Old
      <4>2. \A i \in 1..n : Base[r] + i - 1 = Base[r] + (i - 1)
        BY <1>3
      <4> QED
        BY <4>1, <4>2
    <3>3. ToSet(s) \subseteq ToSet(taken[r])
      BY <2>6, <3>1, <3>2 DEF ToSet
    <3>4. z[1] <= z[n]
      BY <2>5
    <3> QED
      BY <1>2, <1>6, <2>5, <2>7, <2>9, <3>1, <3>3, <3>4 DEF Tells
  <2>10. CASE Raced(r) /\ r \in {"fflush", "fileno"}
    BY <1>6, <2>10 DEF Tells
  <2> QED
    BY <2>8, <2>9, <2>10
<1> QED
  BY <1>7, <1>8

-----------------------------------------------------------------------------
(* Main's plan: the arrays whose bench is still to come, each once. *)

Pending(r) ==
    \/ step = "work"
    \/ r \in ToSet(todo)
    \/ step \in {"step5", "clean"} /\ r \in Late

Planned ==
    /\ step \in {"work", "clean"} => todo = << >>
    /\ step = "step5" => ToSet(todo) \cap Late = {}
    /\ step = "step6" => ToSet(todo) \subseteq Late
    /\ \A i, j \in 1..Len(todo) : todo[i] = todo[j] => i = j

(* Up to its bench an array is filled with its samples and has no report.  From
   there on the report tells of the samples it had. *)
Telling ==
    \A r \in Rows :
      /\ Pending(r) => report[r] = NoReport
      /\ Contained /\ Pending(r) /\ (step = "step6" => ~flag["access"]) => Filled(r)
      /\ Contained /\ ~Pending(r) /\ report[r] # NoReport /\ (r \in Late => ~flag["access"])
         => Tells(r)

LEMMA TellingInit == Init => Planned /\ Telling
<1> SUFFICES ASSUME Init PROVE Planned /\ Telling
  OBVIOUS
<1>1. \A r \in Rows : Pending(r) /\ report[r] = NoReport
  BY DEF Init, Pending
<1>2. ASSUME NEW r \in Rows PROVE Filled(r)
  <2>1. Len(taken[r]) = 0 /\ Size(r) \in Nat \ {0}
    BY SizeType DEF Init
  <2>2. CountOf(r) \in Apis /\ count[CountOf(r)] = 0 /\ flag[CountOf(r)] = FALSE
    BY ApisAre DEF Init
  <2>3. 0 = 0 * Size(r) + 0 /\ \A i \in 1..Size(r) : ~(i <= 0)
    BY <2>1
  <2>4. Ring(r)
    BY <2>1, <2>2, <2>3 DEF Ring
  <2>5. r \notin {"fflush", "fileno"} => Mix(r)
    <3>1. r \notin {"fflush", "fileno"} => CountOf(r) = r
      BY CountOfIs
    <3> QED
      BY <2>2, <2>3, <3>1 DEF Mix
  <2> QED
    BY <2>4, <2>5 DEF Filled
<1>3. Planned
  BY DEF Init, Planned
<1> QED
  BY <1>1, <1>2, <1>3 DEF Telling

(* Recording leaves the reports alone and the arrays filled. *)
LEMMA TellingRecords ==
  ASSUME Inv, Planned, Telling, [Next]_vars,
         UNCHANGED <<report, step, todo, racing, seen>>, step \in {"work", "clean"},
         \A r \in Rows : Contained' /\ Filled(r) => Filled(r)'
  PROVE  Planned' /\ Telling'
<1>1. Planned'
  BY DEF Planned
<1>2. \A r \in Rows : Pending(r)' <=> Pending(r)
  BY DEF Pending
<1>3. Contained' => Contained
  BY StaysContained
<1>4. ASSUME NEW r \in Rows, Contained', Pending(r) PROVE Filled(r)'
  BY <1>3, <1>4 DEF Telling
<1>5. ASSUME NEW r \in Rows PROVE Tells(r)' <=> Tells(r)
  <2>1. Kept(r, seen[r])' = Kept(r, seen[r])
    BY DEF Kept
  <2>2. SumOf(Kept(r, seen[r]))' = SumOf(Kept(r, seen[r]))
    BY <2>1 DEF SumOf
  <2>3. Raced(r)' <=> Raced(r)
    BY DEF Raced
  <2> QED
    BY <2>1, <2>2, <2>3 DEF Tells
<1>6. ASSUME NEW r \in Rows, Contained', ~Pending(r), report'[r] # NoReport
      PROVE  Tells(r)'
  <2>1. r \notin Late
    BY <1>6 DEF Pending
  <2> QED
    BY <1>3, <1>5, <1>6, <2>1 DEF Telling
<1> QED
  BY <1>1, <1>2, <1>4, <1>6 DEF Telling

(* The head of todo is not in the rest. *)
LEMMA TailOfPlan ==
  ASSUME Typed, Planned, todo # << >>
  PROVE  /\ ToSet(Tail(todo)) = ToSet(todo) \ {Head(todo)}
         /\ Head(todo) \in ToSet(todo)
         /\ \A i, j \in 1..Len(Tail(todo)) : Tail(todo)[i] = Tail(todo)[j] => i = j
<1> DEFINE n == Len(todo)
           u == Tail(todo)
<1>1. n \in Nat \ {0} /\ DOMAIN todo = 1..n /\ todo \in Seq(Rows)
  BY LenProperties, EmptySeq DEF Typed
<1>2. u \in Seq(Rows) /\ Len(u) = n - 1 /\ \A i \in 1..n-1 : u[i] = todo[i + 1]
  BY <1>1
<1>3. DOMAIN u = 1..n-1
  BY <1>2, LenProperties
<1>4. Head(todo) = todo[1]
  BY <1>1
<1>5. \A i, j \in 1..n : todo[i] = todo[j] => i = j
  BY DEF Planned
<1> HIDE DEF n, u
<1>6. ToSet(u) = ToSet(todo) \ {todo[1]}
  <2>1. ASSUME NEW x \in ToSet(u) PROVE x \in ToSet(todo) /\ x # todo[1]
    <3>1. PICK i \in 1..n-1 : x = u[i]
      BY <1>3 DEF ToSet
    <3>2. x = todo[i + 1] /\ i + 1 \in 1..n /\ i + 1 # 1 /\ 1 \in 1..n
      BY <1>1, <1>2, <3>1
    <3> QED
      BY <1>1, <1>5, <3>2 DEF ToSet
  <2>2. ASSUME NEW x \in ToSet(todo), x # todo[1] PROVE x \in ToSet(u)
    <3>1. PICK i \in 1..n : x = todo[i]
      BY <1>1 DEF ToSet
    <3>2. i - 1 \in 1..n-1 /\ (i - 1) + 1 = i
      BY <1>1, <2>2, <3>1
    <3>3. u[i - 1] = x
      BY <1>2, <3>1, <3>2
    <3> QED
      BY <1>3, <3>2, <3>3 DEF ToSet
  <2> QED
    BY <2>1, <2>2
<1>7. todo[1] \in ToSet(todo)
  BY <1>1 DEF ToSet
<1>8. ASSUME NEW i \in 1..n-1, NEW j \in 1..n-1, u[i] = u[j] PROVE i = j
  <2>1. i + 1 \in 1..n /\ j + 1 \in 1..n /\ todo[i + 1] = todo[j + 1]
    BY <1>1, <1>2, <1>8
  <2>2. i + 1 = j + 1
    BY <1>5, <2>1
  <2> QED
    BY <2>2
<1> QED
  BY <1>2, <1>4, <1>6, <1>7, <1>8 DEF u

LEMMA PlannedBench ==
  ASSUME Typed, Samples, Planned, RunBench
  PROVE  /\ Planned'
         /\ \A r \in Rows : Pending(r)' <=> Pending(r) /\ r # Head(todo)
         /\ Pending(Head(todo))
         /\ step = "step6" => Head(todo) \in Late
         /\ step # "step6" => Head(todo) \notin Late
<1>1. todo # << >> /\ todo' = Tail(todo) /\ step' = step
  BY DEF RunBench
<1>2. step \in {"work", "clean"} => FALSE
  BY <1>1 DEF Planned
<1>3. /\ ToSet(todo') = ToSet(todo) \ {Head(todo)} /\ Head(todo) \in ToSet(todo)
      /\ \A i, j \in 1..Len(todo') : todo'[i] = todo'[j] => i = j
  BY <1>1, TailOfPlan
<1>4. /\ step = "step6" => Head(todo) \in Late
      /\ step = "step5" => Head(todo) \notin Late
  BY <1>3 DEF Planned
<1>5. Planned'
  BY <1>1, <1>2, <1>3 DEF Planned
<1>6. ASSUME NEW r \in Rows
      PROVE  Pending(r)' <=> Pending(r) /\ r # Head(todo)
  <2>1. step # "work"
    BY <1>2
  <2>2. Pending(r) <=> r \in ToSet(todo) \/ (step \in {"step5", "clean"} /\ r \in Late)
    BY <2>1 DEF Pending
  <2>3. Pending(r)' <=> r \in ToSet(todo') \/ (step \in {"step5", "clean"} /\ r \in Late)
    BY <1>1, <2>1 DEF Pending
  <2>4. step \in {"step5", "clean"} /\ r \in Late => r # Head(todo)
    BY <1>2, <1>4
  <2> QED
    BY <1>3, <2>2, <2>3, <2>4
<1>7. Pending(Head(todo))
  BY <1>3 DEF Pending
<1>8. step # "step6" => Head(todo) \notin Late
  <2>1. step = "step5" \/ step = "step6"
    BY <1>2 DEF Samples
  <2> QED
    BY <1>4, <2>1
<1> QED
  BY <1>4, <1>5, <1>6, <1>7, <1>8

LEMMA TellingBench ==
  ASSUME Inv, Samples, Planned, Telling, RunBench
  PROVE  Telling'
<1>1. UNCHANGED <<count, flag, csv, step, taken, racing>> /\ step \in {"step5", "step6"}
  BY DEF RunBench, Planned, Samples
<1>2. PICK a \in Rows : a = Head(todo)
  BY RunBenchRuns DEF Inv
<1>3. Runs(a) /\ seen' = [r \in Rows |-> IF r = a THEN taken[r] ELSE seen[r]]
  BY <1>2, RunBenchRuns DEF Inv
<1>4. /\ \A r \in Rows : Pending(r)' <=> Pending(r) /\ r # a
      /\ Pending(a)
      /\ step = "step6" => a \in Late
      /\ step # "step6" => a \notin Late
  BY <1>2, PlannedBench DEF Inv
<1>5. ASSUME NEW r \in Rows, r # a
      PROVE  report'[r] = report[r] /\ (Tells(r)' <=> Tells(r))
  <2>1. report'[r] = report[r]
    BY <1>3, <1>5 DEF Runs
  <2>2. seen'[r] = seen[r]
    BY <1>3, <1>5
  <2>3. Kept(r, seen[r])' = Kept(r, seen[r])
    BY <2>2 DEF Kept
  <2>4. SumOf(Kept(r, seen[r]))' = SumOf(Kept(r, seen[r]))
    BY <2>3
  <2>5. Raced(r)' <=> Raced(r)
    BY <1>1 DEF Raced
  <2> QED
    BY <2>1, <2>2, <2>3, <2>4, <2>5 DEF Tells
<1>6. Contained' => Contained
  BY <1>1 DEF Contained
<1>7. ASSUME NEW r \in Rows, Pending(r)' PROVE report'[r] = NoReport
  BY <1>4, <1>5, <1>7 DEF Telling
<1>8. ASSUME NEW r \in Rows, Contained, Pending(r)', step = "step6" => ~flag["access"]
      PROVE  Filled(r)'
  <2>1. Pending(r) /\ r # a /\ Filled(r)
    BY <1>4, <1>8 DEF Telling
  <2>2. a \in {"access", "unlink"} => ~flag["access"]
    BY <1>4, <1>8 DEF Late
  <2>3. \A i \in 0..Size(r)-1 : mem'[Base[r] + i] = mem[Base[r] + i]
    BY <1>2, <1>8, <2>1, <2>2, RowUntouched
  <2> QED
    BY <1>1, <2>1, <2>3, FilledSame DEF Inv
<1>9. ASSUME NEW r \in Rows, Contained, ~Pending(r)', report'[r] # NoReport,
             r \in Late => ~flag["access"]
      PROVE  Tells(r)'
  <2>1. CASE r # a
    BY <1>4, <1>5, <1>9, <2>1 DEF Telling
  <2>2. CASE r = a
    <3>1. report[r] = NoReport
      BY <1>4, <2>2 DEF Telling
    <3>2. Filled(r)
      BY <1>4, <1>9, <2>2 DEF Telling
    <3> QED
      BY <1>2, <1>9, <2>2, <3>1, <3>2, BenchTells
  <2> QED
    BY <2>1, <2>2
<1> QED
  BY <1>1, <1>6, <1>7, <1>8, <1>9 DEF Telling

(* Main goes from one step to the next. *)
LEMMA TellingElse ==
  ASSUME Inv, Planned, Telling, EndWork \/ StartClean \/ EndClean \/ UNCHANGED vars
  PROVE  Planned' /\ Telling'
<1>1. UNCHANGED <<mem, count, flag, report, racing, taken, seen>>
  BY DEF EndWork, StartClean, EndClean, vars
<1>2. \A r \in Rows : (Filled(r)' <=> Filled(r)) /\ (Tells(r)' <=> Tells(r))
  <2>1. ASSUME NEW r \in Rows PROVE Tells(r)' <=> Tells(r)
    <3>1. Kept(r, seen[r])' = Kept(r, seen[r])
      BY <1>1 DEF Kept
    <3>2. SumOf(Kept(r, seen[r]))' = SumOf(Kept(r, seen[r]))
      BY <3>1
    <3>3. Raced(r)' <=> Raced(r)
      BY <1>1 DEF Raced
    <3> QED
      BY <1>1, <3>1, <3>2, <3>3 DEF Tells
  <2>2. ASSUME NEW r \in Rows PROVE Filled(r)' <=> Filled(r)
    BY <1>1 DEF Filled, Raced, Ring, Mix
  <2> QED
    BY <2>1, <2>2
<1>3. Contained' <=> Contained
  BY <1>1 DEF Contained
<1>4. /\ Planned'
      /\ \A r \in Rows : Pending(r)' <=> Pending(r)
      /\ step = "step6" => step' = "step6"
  <2>1. CASE EndWork
    <3> DEFINE u == <<"rename", "fstat", "fopen", "fclose", "fwrite", "fread",
                      "fflush", "fileno", "fsync", "sync">>
               names == {"rename", "fstat", "fopen", "fclose", "fwrite", "fread",
                         "fflush", "fileno", "fsync", "sync"}
    <3>1. step = "work" /\ step' = "step5" /\ todo' = u
      BY <2>1 DEF EndWork
    <3>2. ToSet(u) = names /\ \A i, j \in 1..Len(u) : u[i] = u[j] => i = j
      <4>1. DOMAIN u = 1..10 /\ Len(u) = 10
        OBVIOUS
      <4>2. 1..10 = {1, 2, 3, 4, 5, 6, 7, 8, 9, 10}
        OBVIOUS
      <4>3. /\ u[1] = "rename" /\ u[2] = "fstat" /\ u[3] = "fopen" /\ u[4] = "fclose"
            /\ u[5] = "fwrite" /\ u[6] = "fread" /\ u[7] = "fflush" /\ u[8] = "fileno"
            /\ u[9] = "fsync" /\ u[10] = "sync"
        OBVIOUS
      <4> HIDE DEF u
      <4>4. ToSet(u) = names
        BY <4>1, <4>2, <4>3 DEF ToSet
      <4>5. \A i, j \in 1..10 : u[i] = u[j] => i = j
        BY <4>2, <4>3
      <4> QED
        BY <4>1, <4>4, <4>5
    <3> HIDE DEF u
    <3>3. \A r \in Rows : r \in ToSet(u) \/ r \in Late
      BY <3>2, RowsAre DEF RowNames, Late
    <3> QED
      BY <3>1, <3>2, <3>3 DEF Planned, Pending, Late
  <2>2. CASE StartClean
    <3>1. step = "step5" /\ step' = "clean" /\ todo = << >> /\ todo' = todo
      BY <2>2 DEF StartClean
    <3> QED
      BY <3>1 DEF Planned, Pending
  <2>3. CASE EndClean
    <3> DEFINE u == <<"access", "unlink">>
    <3>1. step = "clean" /\ step' = "step6" /\ todo' = u /\ todo = << >>
      BY <2>3 DEF EndClean, Planned
    <3>2. ToSet(u) = Late /\ \A i, j \in 1..Len(u) : u[i] = u[j] => i = j
      BY DEF ToSet, Late
    <3>3. ToSet(todo) = {}
      BY <3>1 DEF ToSet
    <3> HIDE DEF u
    <3> QED
      BY <3>1, <3>2, <3>3 DEF Planned, Pending
  <2>4. CASE UNCHANGED vars
    BY <2>4 DEF vars, Planned, Pending
  <2> QED
    BY <2>1, <2>2, <2>3, <2>4
<1>5. ASSUME NEW r \in Rows
      PROVE  /\ Pending(r)' => report'[r] = NoReport
             /\ Contained' /\ Pending(r)' /\ (step' = "step6" => ~flag'["access"])
                => Filled(r)'
             /\ Contained' /\ ~Pending(r)' /\ report'[r] # NoReport
                /\ (r \in Late => ~flag'["access"]) => Tells(r)'
  BY <1>1, <1>2, <1>3, <1>4 DEF Telling
<1> QED
  BY <1>4, <1>5 DEF Telling

LEMMA TellingStep == Inv /\ Samples /\ Planned /\ Telling /\ [Next]_vars => Planned' /\ Telling'
<1> SUFFICES ASSUME Inv, Samples, Planned, Telling, [Next]_vars PROVE Planned' /\ Telling'
  OBVIOUS
<1>1. CASE Work \/ Rm
  <2>1. step \in {"work", "clean"}
    BY <1>1 DEF Work, Rm
  <2>2. PICK t : Call(t) /\ Alone(t) /\ Record(t)
    BY <1>1, WorkRecords, RmRecords
  <2>3. UNCHANGED <<report, step, todo, racing, seen>>
    BY <2>2 DEF Record, Store
  <2>4. \A r \in Rows : Filled(r) => Filled(r)'
    BY <2>2, RecordFills DEF Inv
  <2> QED
    BY <2>1, <2>3, <2>4, TellingRecords
<1>2. CASE Race
  <2>1. step = "work"
    BY <1>2 DEF Race
  <2>2. UNCHANGED <<report, step, todo, racing, seen>>
    BY <1>2, RaceRecords DEF RaceRecord, Store
  <2>3. \A r \in Rows : Contained' /\ Filled(r) => Filled(r)'
    BY <1>2, RaceFills DEF Inv
  <2> QED
    BY <2>1, <2>2, <2>3, TellingRecords
<1>3. CASE \E a \in JobApis : FindFull(a)
  <2>1. step = "work" /\ UNCHANGED <<report, step, todo, racing, seen>>
    BY <1>3 DEF FindFull
  <2>2. \A r \in Rows : Filled(r) => Filled(r)'
    BY <1>3, FullFills DEF Inv
  <2> QED
    BY <2>1, <2>2, TellingRecords
<1>4. CASE RunBench
  BY <1>4, PlannedBench, TellingBench DEF Inv
<1>5. CASE EndWork \/ StartClean \/ EndClean \/ UNCHANGED vars
  BY <1>5, TellingElse
<1> QED
  BY <1>1, <1>2, <1>3, <1>4, <1>5 DEF Next

(* A report tells the number, the extrema and the mean of the samples its own
   API had, however often the array has wrapped around and whatever the benches
   sorted under it or the unlink scan records after it (libc/sys_libc_file.c:42,
   :425); of access and unlink unless access has filled its array
   (posix/sys_posix_cmd.c:191); of the APIs that several jobs raced for it tells
   nothing that was not recorded, as long as none was called more often than its
   array has elements. *)
THEOREM ReportsTold == Spec => []ReportsTellSamples
<1>1. Planned /\ Telling /\ Samples => ReportsTellSamples
  <2> SUFFICES ASSUME Planned, Telling, Samples, NEW r \in Rows, report[r] # NoReport, Contained,
                      r \in Late => ~flag["access"]
               PROVE  Tells(r)
    BY DEF ReportsTellSamples, Tells, Late
  <2>1. ~Pending(r)
    BY DEF Telling
  <2> QED
    BY <2>1 DEF Telling
<1> QED
  BY <1>1, InvInit, InvStep, SamplesInit, SamplesStep, TellingInit, TellingStep, PTL DEF Spec

-----------------------------------------------------------------------------
(* The CSV file. *)

(* Its rows hold the last samples of every API in their places, however often
   an array has wrapped around (libc/sys_libc_file.c:605,
   posix/sys_posix_cmd.c:415), where one thread alone called it.  Where several
   did, a row has no more elements than samples were taken and none that was
   not, as long as no API was called more often than its array has elements. *)
THEOREM CsvIsOfSamples == Spec => CsvHoldsSamples
<1>1. Inv /\ Samples /\ Planned /\ Telling /\ [Next]_vars =>
        ((csv' # csv /\ Contained) =>
           \A r \in Rows :
             /\ ~Raced(r) => csv'[r] = Kept(r, taken[r])
             /\ (Raced(r) /\ r \notin {"fflush", "fileno"}) =>
                   /\ Len(csv'[r]) <= Len(taken[r])
                   /\ ToSet(csv'[r]) \subseteq ToSet(taken[r]))
  <2> SUFFICES ASSUME Inv, Samples, Telling, [Next]_vars, csv' # csv, Contained, NEW r \in Rows
               PROVE  /\ ~Raced(r) => csv'[r] = Kept(r, taken[r])
                      /\ (Raced(r) /\ r \notin {"fflush", "fileno"}) =>
                            /\ Len(csv'[r]) <= Len(taken[r])
                            /\ ToSet(csv'[r]) \subseteq ToSet(taken[r])
    OBVIOUS
  <2>1. EndWork
    <3>1. ~Work /\ ~Rm
      BY WorkRecords, RmRecords DEF Record, Store
    <3>2. ~Race
      BY RaceRecords DEF RaceRecord, Store
    <3>3. /\ ~RunBench /\ ~StartClean /\ ~EndClean /\ ~UNCHANGED vars
          /\ ~ \E a \in JobApis : FindFull(a)
      BY DEF RunBench, StartClean, EndClean, vars, FindFull
    <3> QED
      BY <3>1, <3>2, <3>3 DEF Next
  <2>2. Filled(r)
    BY <2>1 DEF EndWork, Telling, Pending
  <2>3. csv'[r] = Row(r)
    <3>1. csv' = << >> \/ csv' = PosixCsv(LibcCsv)
      BY <2>1 DEF EndWork
    <3>2. csv' = PosixCsv(LibcCsv)
      <4>1. csv = << >>
        BY <2>1 DEF EndWork, Samples
      <4> QED
        BY <3>1, <4>1
    <3>3. PosixRows \subseteq Rows
      BY RowsAre DEF PosixRows, RowNames
    <3>4. PosixCsv(LibcCsv) = [q \in Rows |-> Row(q)]
      BY <3>3 DEF LibcCsv, PosixCsv
    <3> QED
      BY <3>2, <3>4
  <2>4. ASSUME ~Raced(r) PROVE csv'[r] = Kept(r, taken[r])
    BY <2>2, <2>3, <2>4, RowIsKept DEF Filled
  <2>5. ASSUME Raced(r), r \notin {"fflush", "fileno"}
        PROVE  Len(csv'[r]) <= Len(taken[r]) /\ ToSet(csv'[r]) \subseteq ToSet(taken[r])
    <3> DEFINE n == Length(CountOf(r), Size(r))
               row == Row(r)
    <3>1. /\ n \in Nat /\ n <= Len(taken[r])
          /\ \A i \in 1..n : mem[Base[r] + (i - 1)] \in ToSet(taken[r])
      BY <2>2, <2>5, RowIsMixed DEF Filled
    <3>2. row = [i \in 1..n |-> mem[Base[r] + i - 1]]
      BY DEF Row
    <3> HIDE DEF n, row
    <3>3. \A i \in 1..n : row[i] \in ToSet(taken[r])
      <4>1. \A i \in 1..n : Base[r] + i - 1 = Base[r] + (i - 1)
        BY <3>1, RowsApart
      <4> QED
        BY <3>1, <3>2, <4>1
    <3>4. row \in [1..n -> ToSet(taken[r])]
      BY <3>2, <3>3
    <3>5. Len(row) = n /\ DOMAIN row = 1..n
      BY <3>1, <3>4, LenIs
    <3>6. ToSet(row) \subseteq ToSet(taken[r])
      BY <3>3, <3>5 DEF ToSet
    <3> QED
      BY <2>3, <3>1, <3>5, <3>6 DEF row
  <2> QED
    BY <2>4, <2>5
<1> QED
  BY <1>1, InvInit, InvStep, SamplesInit, SamplesStep, TellingInit, TellingStep,
     PTL DEF Spec, CsvHoldsSamples

-----------------------------------------------------------------------------
(* Reports and the abstract log. *)

(* The samples in an array, the oldest first, as Window in SampleRing. *)
Window(r) ==
    LET k == count[CountOf(r)]
        n == Length(CountOf(r), Size(r))
        from == IF flag[CountOf(r)] THEN k ELSE 0
    IN [i \in 1..n |-> mem[Base[r] + (IF i <= n - from THEN from + i - 1
                                                     ELSE from + i - 1 - n)]]

LogOf(r) == INSTANCE SampleLog WITH Capacity <- Size(r), Samples <- Int, window <- Window(r)

(* No bench has changed the array of r yet. *)
Unbenched(r) == Pending(r) /\ (step = "step6" => ~flag["access"])

(* Up to its bench an array that one thread alone records into is the log of
   the calls of its API, as SampleRing shows of the recorder of one caller.  No
   such log is claimed of the APIs that several jobs call at once, and none
   when a store of those jobs may have left its array. *)
ImplementsLogs ==
    /\ \A r \in Rows : LogOf(r)!Init
    /\ [][\A r \in Rows : (~Raced(r) /\ Contained' /\ Unbenched(r)')
                         => [LogOf(r)!Next]_(Window(r))]_vars

(* A bench leaves an array that one thread alone recorded into as its log
   sorted, unless access is full. *)
BenchSortsLog ==
    [][RunBench => \A r \in Rows :
         LET n == Len(Window(r))
             row == [i \in 1..n |-> mem'[Base[r] + (i - 1)]]
         IN (r = Head(todo) /\ ~Raced(r) /\ ~TooFew(n) /\ (r \in Late => ~flag["access"]))
            => /\ \E p \in Bijection(1..n, 1..n) : row = [i \in 1..n |-> Window(r)[p[i]]]
               /\ \A i, j \in 1..n : i <= j => row[i] <= row[j]]_vars

(* Appending to a sequence that is given element by element, ... *)
LEMMA AppendIs ==
  ASSUME NEW k \in Nat, NEW w, w = [i \in 1..k |-> w[i]], NEW x, NEW v,
         v = [i \in 1..k+1 |-> IF i = k + 1 THEN x ELSE w[i]]
  PROVE  v = Append(w, x) /\ Len(w) = k
<1> DEFINE S == {w[i] : i \in 1..k} \cup {x}
<1>1. w \in [1..k -> S] /\ x \in S
  OBVIOUS
<1>2. w \in Seq(S) /\ Len(w) = k
  <2> HIDE DEF S
  <2> QED
    BY <1>1, SeqDef, LenIs
<1>3. Append(w, x) = [i \in 1..k+1 |-> IF i = k + 1 THEN x ELSE w[i]]
  <2> HIDE DEF S
  <2> QED
    BY <1>1, <1>2, AppendProperties
<1> QED
  BY <1>2, <1>3

(* ... after its first element is gone. *)
LEMMA TailAppendIs ==
  ASSUME NEW n \in Nat \ {0}, NEW w, w = [i \in 1..n |-> w[i]], NEW x, NEW v,
         v = [i \in 1..n |-> IF i = n THEN x ELSE w[i + 1]]
  PROVE  v = Append(Tail(w), x) /\ Len(w) = n
<1> DEFINE S == {w[i] : i \in 1..n}
           u == Tail(w)
<1>1. w \in [1..n -> S]
  OBVIOUS
<1>2. w \in Seq(S) /\ Len(w) = n /\ w # << >>
  <2> HIDE DEF S
  <2> QED
    BY <1>1, SeqDef, LenIs, EmptySeq
<1>3. u \in Seq(S) /\ Len(u) = n - 1 /\ \A i \in 1..n-1 : u[i] = w[i + 1]
  <2> HIDE DEF S
  <2> QED
    BY <1>2, HeadTailProperties
<1>4. u = [i \in 1..n-1 |-> u[i]]
  BY <1>3, LenProperties
<1>5. v = [i \in 1..(n-1)+1 |-> IF i = (n - 1) + 1 THEN x ELSE u[i]]
  <2>1. (n - 1) + 1 = n
    OBVIOUS
  <2>2. \A i \in 1..n : i # n => i \in 1..n-1
    OBVIOUS
  <2> HIDE DEF u
  <2> QED
    BY <1>3, <2>1, <2>2
<1> HIDE DEF u
<1>6. v = Append(u, x)
  <2>1. n - 1 \in Nat
    OBVIOUS
  <2> QED
    BY <1>4, <1>5, <2>1, AppendIs
<1> QED
  BY <1>2, <1>6 DEF u

(* A record appends its sample to the windows of its arrays and leaves the
   others alone. *)
LEMMA RecordIsLogged ==
  ASSUME Typed, NEW t, Call(t), Alone(t), Record(t), NEW r \in Rows, ~Raced(r)
  PROVE  [LogOf(r)!Next]_(Window(r))
<1> DEFINE a == CountOf(r)
           S == Size(r)
           k == count[a]
           w == Window(r)
           v == Window(r)'
           cell(i) == mem[Base[r] + i]
           cell2(i) == mem'[Base[r] + i]
<1>1. /\ a \in Apis /\ S \in Nat /\ S > 1 /\ k \in 0..S-1 /\ flag[a] \in BOOLEAN
      /\ Size(a) = S
  BY ApisAre, SizeType, RacedIs DEF Typed
<1>2. /\ flag[a] => w = [i \in 1..S |-> cell(IF i <= S - k THEN k + i - 1 ELSE k + i - 1 - S)]
      /\ ~flag[a] => w = [i \in 1..k |-> cell(i - 1)]
  <2>1. CASE flag[a]
    BY <2>1 DEF Window, Length
  <2>2. CASE ~flag[a]
    <3>1. \A i \in 1..k : i <= k - 0 /\ 0 + i - 1 = i - 1
      BY <1>1
    <3> QED
      BY <2>2, <3>1 DEF Window, Length
  <2> QED
    BY <2>1, <2>2
<1>3. /\ flag'[a] => v = [i \in 1..S |-> cell2(IF i <= S - count'[a] THEN count'[a] + i - 1
                                                           ELSE count'[a] + i - 1 - S)]
      /\ ~flag'[a] => v = [i \in 1..count'[a] |-> cell2(IF i <= count'[a] - 0 THEN 0 + i - 1
                                                           ELSE 0 + i - 1 - count'[a])]
  BY DEF Window, Length
<1>4. ASSUME NEW i \in 0..S-1
      PROVE  cell2(i) = IF r \in DOMAIN t /\ i = k THEN t[r] ELSE cell(i)
  BY RecordCells
<1>5. /\ r \in DOMAIN t /\ k + 1 = S => count'[a] = 0 /\ flag'[a]
      /\ r \in DOMAIN t /\ k + 1 # S => count'[a] = k + 1 /\ flag'[a] = flag[a]
      /\ r \notin DOMAIN t => count'[a] = k /\ flag'[a] = flag[a]
  BY RecordCounts
<1> HIDE DEF a, S, k, w, v, cell, cell2
<1>6. CASE r \notin DOMAIN t
  <2>1. count'[a] = k /\ flag'[a] = flag[a] /\ \A i \in 0..S-1 : cell2(i) = cell(i)
    BY <1>4, <1>5, <1>6
  <2>2. CASE flag[a]
    <3> DEFINE at(i) == IF i <= S - k THEN k + i - 1 ELSE k + i - 1 - S
    <3>1. w = [i \in 1..S |-> cell(at(i))] /\ v = [i \in 1..S |-> cell2(at(i))]
      BY <1>2, <1>3, <2>1, <2>2
    <3>2. \A i \in 1..S : at(i) \in 0..S-1
      BY <1>1
    <3> HIDE DEF at
    <3>3. v = w
      BY <2>1, <3>1, <3>2
    <3> QED
      BY <3>3 DEF v, w
  <2>3. CASE ~flag[a]
    <3> DEFINE at(i) == IF i <= k - 0 THEN 0 + i - 1 ELSE 0 + i - 1 - k
    <3>1. w = [i \in 1..k |-> cell(i - 1)] /\ v = [i \in 1..k |-> cell2(at(i))]
      BY <1>2, <1>3, <2>1, <2>3
    <3>2. \A i \in 1..k : at(i) = i - 1 /\ i - 1 \in 0..S-1
      BY <1>1
    <3> HIDE DEF at
    <3>3. v = w
      BY <2>1, <3>1, <3>2
    <3> QED
      BY <3>3 DEF v, w
  <2> QED
    BY <2>2, <2>3
<1>7. CASE r \in DOMAIN t
  <2>1. t[r] \in Int
    BY <1>7 DEF Call
  <2>2. CASE ~flag[a]
    <3>1. v = [i \in 1..k+1 |-> cell2(i - 1)]
      <4>1. CASE k + 1 = S
        <5>1. v = [i \in 1..S |-> cell2(IF i <= S - 0 THEN 0 + i - 1 ELSE 0 + i - 1 - S)]
          BY <1>3, <1>5, <1>7, <4>1
        <5>2. \A i \in 1..S : i <= S - 0 /\ 0 + i - 1 = i - 1
          BY <1>1
        <5> QED
          BY <4>1, <5>1, <5>2
      <4>2. CASE k + 1 # S
        <5> DEFINE at(i) == IF i <= (k + 1) - 0 THEN 0 + i - 1 ELSE 0 + i - 1 - (k + 1)
        <5>1. v = [i \in 1..k+1 |-> cell2(at(i))]
          BY <1>3, <1>5, <1>7, <2>2, <4>2
        <5>2. \A i \in 1..k+1 : at(i) = i - 1
          BY <1>1
        <5> HIDE DEF at
        <5> QED
          BY <5>1, <5>2
      <4> QED
        BY <4>1, <4>2
    <3>2. \A i \in 1..k+1 : cell2(i - 1) = IF i = k + 1 THEN t[r] ELSE cell(i - 1)
      <4>1. \A i \in 1..k+1 : i - 1 \in 0..S-1 /\ (i - 1 = k <=> i = k + 1)
        BY <1>1
      <4> QED
        BY <1>4, <1>7, <4>1
    <3>3. w = [i \in 1..k |-> cell(i - 1)]
      BY <1>2, <2>2
    <3>4. v = Append(w, t[r]) /\ Len(w) = k
      BY <1>1, <3>1, <3>2, <3>3, AppendIs
    <3>5. Len(w) < S
      BY <1>1, <3>4
    <3> QED
      BY <2>1, <3>4, <3>5 DEF LogOf!Next, LogOf!Record, v, w, S
  <2>3. CASE flag[a]
    <3> DEFINE at(i) == IF i <= S - k THEN k + i - 1 ELSE k + i - 1 - S
    <3>1. w = [i \in 1..S |-> cell(at(i))]
      BY <1>2, <2>3
    <3>2. v = [i \in 1..S |-> IF i = S THEN t[r] ELSE cell(at(i + 1))]
      <4> DEFINE to(i) == IF i <= S - count'[a] THEN count'[a] + i - 1
                                               ELSE count'[a] + i - 1 - S
      <4>1. v = [i \in 1..S |-> cell2(to(i))]
        BY <1>3, <1>5, <1>7, <2>3
      <4>2. ASSUME NEW i \in 1..S
            PROVE  /\ to(i) \in 0..S-1
                   /\ i = S => to(i) = k
                   /\ i # S => to(i) = at(i + 1) /\ to(i) # k
        <5>1. CASE k + 1 = S
          BY <1>1, <1>5, <1>7, <5>1
        <5>2. CASE k + 1 # S
          BY <1>1, <1>5, <1>7, <5>2
        <5> QED
          BY <5>1, <5>2
      <4> HIDE DEF at, to
      <4>3. \A i \in 1..S : cell2(to(i)) = IF i = S THEN t[r] ELSE cell(at(i + 1))
        BY <1>4, <1>7, <4>2
      <4> QED
        BY <4>1, <4>3
    <3>3. v = Append(Tail(w), t[r]) /\ Len(w) = S
      <4> DEFINE f == [i \in 1..S |-> cell(at(i))]
      <4>1. \A i \in 1..S-1 : f[i + 1] = cell(at(i + 1))
        BY <1>1
      <4> HIDE DEF at
      <4>2. \A i \in 1..S : i # S => i \in 1..S-1
        BY <1>1
      <4>3. v = [i \in 1..S |-> IF i = S THEN t[r] ELSE f[i + 1]]
        BY <3>2, <4>1, <4>2
      <4> HIDE DEF f
      <4>4. w = f /\ f = [i \in 1..S |-> f[i]]
        BY <3>1 DEF f
      <4> QED
        BY <1>1, <4>3, <4>4, TailAppendIs
    <3>4. ~ (Len(w) < S)
      BY <1>1, <3>3
    <3> QED
      BY <2>1, <3>3, <3>4 DEF LogOf!Next, LogOf!Record, v, w, S
  <2> QED
    BY <2>2, <2>3
<1> QED
  BY <1>6, <1>7

(* A window looks at the cells of its own array only. *)
LEMMA WindowSame ==
  ASSUME Typed, NEW r \in Rows, ~Raced(r),
         count'[CountOf(r)] = count[CountOf(r)], flag'[CountOf(r)] = flag[CountOf(r)],
         \A i \in 0..Size(r)-1 : mem'[Base[r] + i] = mem[Base[r] + i]
  PROVE  Window(r)' = Window(r)
<1> DEFINE a == CountOf(r)
           S == Size(r)
           n == Length(a, S)
           from == IF flag[a] THEN count[a] ELSE 0
           at(i) == IF i <= n - from THEN from + i - 1 ELSE from + i - 1 - n
<1>1. a \in Apis /\ S \in Nat /\ count[a] \in 0..S-1
  BY ApisAre, SizeType, RacedIs DEF Typed
<1>2. \A i \in 1..n : at(i) \in 0..S-1
  BY <1>1 DEF Length
<1>3. Window(r) = [i \in 1..n |-> mem[Base[r] + at(i)]]
  BY DEF Window
<1>4. Window(r)' = [i \in 1..n |-> mem'[Base[r] + at(i)]]
  BY DEF Window, Length
<1> HIDE DEF n, at, S
<1> QED
  BY <1>2, <1>3, <1>4 DEF S

(* The steps up to the bench of an array are steps of its log, those of the jobs
   that race for other arrays, too. *)
THEOREM LogsImplemented == Spec => ImplementsLogs
<1>1. Init => \A r \in Rows : LogOf(r)!Init
  <2> SUFFICES ASSUME Init, NEW r \in Rows PROVE Window(r) = << >>
    BY DEF LogOf!Init
  <2>1. count[CountOf(r)] = 0 /\ ~flag[CountOf(r)]
    BY ApisAre DEF Init
  <2>2. Length(CountOf(r), Size(r)) = 0
    BY <2>1 DEF Length
  <2> QED
    BY <2>2 DEF Window
<1>2. Inv /\ Samples /\ Planned /\ Telling /\ [Next]_vars =>
        \A r \in Rows : (~Raced(r) /\ Contained' /\ Unbenched(r)')
                        => [LogOf(r)!Next]_(Window(r))
  <2> SUFFICES ASSUME Inv, Samples, Planned, [Next]_vars, NEW r \in Rows, ~Raced(r),
                      Contained', Unbenched(r)'
               PROVE  [LogOf(r)!Next]_(Window(r))
    OBVIOUS
  <2>1. CASE Work \/ Rm
    BY <2>1, WorkRecords, RmRecords, RecordIsLogged DEF Inv
  <2>2. CASE Race
    <3>1. PICK a, t : Call(t) /\ Among(t, a) /\ RaceRecord(a, t)
      BY <2>2, RaceRecords
    <3>2. PICK at \in [DOMAIN t -> 0..Len(taken[a])] :
             /\ Store(t, at) /\ a \in DOMAIN t /\ a \in Apis
             /\ count' = [b \in Apis |-> IF b = a THEN count'[a] ELSE count[b]]
             /\ flag' = flag
      BY <3>1, RaceCounts DEF Inv
    <3>3. racing' = racing /\ racing /\ a \in JobApis /\ a \in Rows
      BY <3>1, <3>2, ApisAre DEF Store, Among
    <3>4. r \notin DOMAIN t /\ CountOf(r) # a /\ CountOf(r) \in Apis
      <4>1. Raced(a)
        BY <3>3, RacedIs
      <4>2. CountOf(r) # a
        BY <4>1, RacedIs
      <4> QED
        BY <3>1, <4>2, ApisAre DEF Among
    <3>5. Len(taken[a]) < Size(a)
      <4>1. Len(taken'[a]) <= Size(a)
        BY <3>3 DEF Contained
      <4>2. Len(taken'[a]) = Len(taken[a]) + 1 /\ Len(taken[a]) \in Nat
        BY <3>1, <3>2, <3>3, StoreTakes DEF Inv
      <4> QED
        BY <4>1, <4>2, SizeType
    <3>6. \A i \in 0..Size(r)-1 : mem'[Base[r] + i] = mem[Base[r] + i]
      BY <3>1, <3>2, <3>4, <3>5, RaceCells DEF Inv
    <3>7. count'[CountOf(r)] = count[CountOf(r)] /\ flag'[CountOf(r)] = flag[CountOf(r)]
      BY <3>2, <3>4
    <3> QED
      BY <3>6, <3>7, WindowSame DEF Inv
  <2>3. CASE \E a \in JobApis : FindFull(a)
    <3>1. PICK a \in JobApis : FindFull(a)
      BY <2>3
    <3>2. CountOf(r) # a
      <4>1. Raced(a) /\ a \in Apis
        BY <3>1, ApisAre DEF FindFull, JobApis, RowNames
      <4>2. Raced(CountOf(a)) /\ CountOf(a) = a
        BY <4>1, ApisAre, RacedIs
      <4> QED
        BY <4>2, RacedIs
    <3>3. mem' = mem /\ count'[CountOf(r)] = count[CountOf(r)] /\ flag'[CountOf(r)] = flag[CountOf(r)]
      BY <3>1, <3>2, ApisAre DEF FindFull, Inv, Typed
    <3> QED
      BY <3>3, WindowSame DEF Inv
  <2>4. CASE RunBench
    <3>1. UNCHANGED <<count, flag, step>>
      BY <2>4 DEF RunBench
    <3>2. /\ Pending(r)' => r # Head(todo)
          /\ step = "step6" \/ Head(todo) \notin Late
      BY <2>4, PlannedBench DEF Inv
    <3>3. r # Head(todo) /\ (Head(todo) \in {"access", "unlink"} => ~flag["access"])
      BY <3>1, <3>2 DEF Unbenched, Late
    <3>4. Contained
      BY StaysContained
    <3>5. \A i \in 0..Size(r)-1 : mem'[Base[r] + i] = mem[Base[r] + i]
      BY <2>4, <3>3, <3>4, RowUntouched
    <3> QED
      BY <3>1, <3>5, WindowSame DEF Inv
  <2>5. CASE EndWork \/ StartClean \/ EndClean \/ UNCHANGED vars
    <3>1. UNCHANGED <<mem, count, flag>>
      BY <2>5 DEF EndWork, StartClean, EndClean, vars
    <3> QED
      BY <3>1, WindowSame DEF Inv
  <2> QED
    BY <2>1, <2>2, <2>3, <2>4, <2>5 DEF Next
<1> QED
  BY <1>1, <1>2, InvInit, InvStep, SamplesInit, SamplesStep, TellingInit, TellingStep,
     PTL DEF Spec, ImplementsLogs

(* The array from its first element on is the window, turned. *)
LEMMA WindowTurned ==
  ASSUME Typed, mem \in [Cells -> Int], NEW r \in Rows, ~Raced(r), NEW n, n = Length(CountOf(r), Size(r))
  PROVE  /\ n \in Nat /\ n <= Size(r) /\ Window(r) \in [1..n -> Int] /\ Len(Window(r)) = n
         /\ \E q : /\ Permutes(q, n)
                   /\ \A i \in 1..n : mem[Base[r] + (i - 1)] = Window(r)[q[i]]
<1> DEFINE a == CountOf(r)
           S == Size(r)
           from == IF flag[a] THEN count[a] ELSE 0
           at(i) == IF i <= n - from THEN from + i - 1 ELSE from + i - 1 - n
           w == Window(r)
           q == [i \in 1..n |-> IF i > from THEN i - from ELSE i - from + n]
<1>1. a \in Apis /\ S \in Nat /\ count[a] \in 0..S-1
  BY ApisAre, SizeType, RacedIs DEF Typed
<1>2. n \in Nat /\ n <= S /\ from \in 0..n /\ (n # 0 => from < n)
  BY <1>1 DEF Length
<1> HIDE DEF S, from
<1>3. \A i \in 1..n : at(i) \in 0..n-1
  BY <1>2
<1>4. w = [i \in 1..n |-> mem[Base[r] + at(i)]]
  BY DEF Window, from
<1>5. \A j \in 0..n-1 : Base[r] + j \in Cells /\ mem[Base[r] + j] \in Int
  <2>1. 0..n-1 \subseteq 0..S-1
    BY <1>1, <1>2
  <2> QED
    BY <2>1, RowsApart DEF S
<1>6. \A i \in 1..n : q[i] \in 1..n /\ at(q[i]) = i - 1
  BY <1>2
<1>7. Permutes(q, n)
  <2>1. q \in [1..n -> 1..n]
    BY <1>6
  <2>2. ASSUME NEW c \in 1..n, NEW d \in 1..n, q[c] = q[d] PROVE c = d
    <3>1. at(q[c]) = c - 1 /\ at(q[d]) = d - 1
      BY <1>6
    <3> HIDE DEF at, q
    <3>2. c - 1 = d - 1
      BY <2>2, <3>1
    <3> QED
      BY <3>2
  <2>3. ASSUME NEW c \in 1..n PROVE \E d \in 1..n : q[d] = c
    <3>1. CASE c <= n - from
      <4>1. from + c \in 1..n /\ from + c > from /\ (from + c) - from = c
        BY <1>2, <3>1
      <4> QED
        BY <4>1
    <3>2. CASE ~ (c <= n - from)
      <4>1. /\ from + c - n \in 1..n /\ ~ (from + c - n > from)
            /\ (from + c - n) - from + n = c
        BY <1>2, <3>2
      <4> QED
        BY <4>1
    <3> QED
      BY <3>1, <3>2
  <2> HIDE DEF q
  <2> QED
    BY <2>1, <2>2, <2>3 DEF Permutes
<1> HIDE DEF at, q
<1>8. w \in [1..n -> Int]
  BY <1>3, <1>4, <1>5
<1>9. \A i \in 1..n : mem[Base[r] + (i - 1)] = w[q[i]]
  BY <1>4, <1>6
<1> HIDE DEF w
<1>10. Len(w) = n
  BY <1>2, <1>8, LenIs
<1> QED
  BY <1>2, <1>7, <1>8, <1>9, <1>10 DEF w, S

(* The benches sort the logs of the arrays that one thread alone recorded into. *)
THEOREM LogsSorted == Spec => BenchSortsLog
<1>1. Inv /\ Samples /\ [Next]_vars =>
        (RunBench => \A r \in Rows :
           LET n == Len(Window(r))
               row == [i \in 1..n |-> mem'[Base[r] + (i - 1)]]
           IN (r = Head(todo) /\ ~Raced(r) /\ ~TooFew(n) /\ (r \in Late => ~flag["access"]))
              => /\ \E p \in Bijection(1..n, 1..n) : row = [i \in 1..n |-> Window(r)[p[i]]]
                 /\ \A i, j \in 1..n : i <= j => row[i] <= row[j])
  <2> DEFINE w(r) == Window(r)
             n(r) == Len(w(r))
             row(r) == [i \in 1..n(r) |-> mem'[Base[r] + (i - 1)]]
  <2> SUFFICES ASSUME Inv, Samples, RunBench, NEW r \in Rows, r = Head(todo),
                      ~Raced(r), ~TooFew(n(r)), r \in Late => ~flag["access"]
               PROVE  /\ \E p \in Bijection(1..n(r), 1..n(r)) :
                             row(r) = [i \in 1..n(r) |-> w(r)[p[i]]]
                      /\ \A i, j \in 1..n(r) : i <= j => row(r)[i] <= row(r)[j]
    OBVIOUS
  <2> DEFINE m == Length(CountOf(r), Size(r))
             s == Old(r)
             z == Sorted(r)
  <2>1. Runs(r) /\ mem \in [Cells -> Int] /\ Typed
    BY RunBenchRuns, MemIsInt DEF Inv
  <2>2. count[CountOf(r)] <= Size(r)
    BY ApisAre, SizeType, RacedIs DEF Inv, Typed
  <2>3. BenchLen(r) = m
    BY <2>2, LengthRight DEF Inv, Late
  <2>4. /\ m \in Nat /\ m <= Size(r) /\ n(r) = m
        /\ \E q : /\ Permutes(q, m)
                  /\ \A i \in 1..m : mem[Base[r] + (i - 1)] = w(r)[q[i]]
    BY <2>1, WindowTurned
  <2>5. PICK q : /\ Permutes(q, m)
                 /\ \A i \in 1..m : mem[Base[r] + (i - 1)] = w(r)[q[i]]
    BY <2>4
  <2>6. m # 0 /\ ~TooFew(BenchLen(r))
    BY <2>3, <2>4 DEF TooFew
  <2>7. \A i \in 1..m : Base[r] + i - 1 = Base[r] + (i - 1)
    BY RowsApart
  <2>8. s \in [1..m -> Int] /\ \A i \in 1..m : s[i] = w(r)[q[i]]
    BY <2>1, <2>3, <2>5, <2>7, OldIs DEF Old
  <2>9. \A i \in 1..m : mem'[Base[r] + (i - 1)] = z[i]
    BY <2>1, <2>3, <2>6, <2>7, RunsSorted
  <2>10. z = sys_bubble_sort(s)
    BY DEF Sorted
  <2> HIDE DEF m, s, w, z
  <2>11. /\ \E p \in Bijection(1..m, 1..m) : z = [k \in 1..m |-> s[p[k]]]
         /\ \A i, j \in 1..m : i <= j => z[i] <= z[j]
    <3>1. m \in Nat \ {0}
      BY <2>4, <2>6
    <3> QED
      BY <2>8, <2>10, <3>1, SortIsCorrect
  <2> HIDE DEF n
  <2>12. row(r) = [i \in 1..m |-> z[i]]
    BY <2>4, <2>9
  <2>13. PICK p \in Bijection(1..m, 1..m) : z = [k \in 1..m |-> s[p[k]]]
    BY <2>11
  <2>14. Permutes(p, m)
    BY <2>13 DEF Permutes, Bijection, Injection, Surjection, IsInjective
  <2> DEFINE o == [i \in 1..m |-> q[p[i]]]
  <2>15. Permutes(o, m)
    BY <2>4, <2>5, <2>14, PermutesTwice
  <2>16. \A i \in 1..m : z[i] = w(r)[o[i]]
    BY <2>8, <2>13, <2>14 DEF Permutes
  <2> HIDE DEF o, row
  <2>17. o \in Bijection(1..m, 1..m)
    BY <2>15 DEF Permutes, Bijection, Injection, Surjection, IsInjective
  <2>18. row(r) = [i \in 1..m |-> w(r)[o[i]]]
    BY <2>12, <2>16
  <2>19. \A i, j \in 1..m : i <= j => row(r)[i] <= row(r)[j]
    BY <2>11, <2>12
  <2> QED
    BY <2>4, <2>17, <2>18, <2>19
<1> QED
  BY <1>1, InvInit, InvStep, SamplesInit, SamplesStep, PTL DEF Spec, BenchSortsLog
=============================================================================
