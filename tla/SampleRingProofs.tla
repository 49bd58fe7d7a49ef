-------------------------- MODULE SampleRingProofs ---------------------------
(***************************************************************************)
(* What holds of SampleRing for every number of threads, every capacity    *)
(* and every number of calls.                                              *)
(***************************************************************************)
EXTENDS SampleRing, FiniteSetTheorems, SequenceTheorems, TLAPS

LEMMA TypeInit == Init => TypeOK
<1> SUFFICES ASSUME Init PROVE TypeOK
  OBVIOUS
<1>1. slot \in [1..Arrays -> [0..Max-1 -> 0..calls]]
  BY RingAssumption DEF Init
<1>2. arr \in [Callers -> 1..Arrays]
  BY RingAssumption DEF Init
<1>3. calls \in 0..MaxCalls /\ spill \in SUBSET ((1..Arrays) \X Nat \X (1..calls))
  BY RingAssumption DEF Init
<1>4. /\ pc \in [Callers -> Labels]
      /\ reg \in [Callers -> Nat]
      /\ mine \in [Callers -> 0..calls]
  BY RingAssumption DEF Init, Labels
<1>5. \A c \in Callers : pc[c] = "idle"
  BY DEF Init
<1>6. count \in Nat /\ flag \in BOOLEAN
  BY DEF Init
<1> QED
  BY <1>1, <1>2, <1>3, <1>4, <1>5, <1>6 DEF TypeOK

LEMMA TypeStep == TypeOK /\ [Next]_vars => TypeOK'
<1> SUFFICES ASSUME TypeOK, [Next]_vars PROVE TypeOK'
  OBVIOUS
<1> USE RingAssumption DEF TypeOK, Labels
<1>1. ASSUME NEW c \in Callers, Begin(c) PROVE TypeOK'
  <2>1. calls' \in 0..MaxCalls /\ 0..calls \subseteq 0..calls' /\ 1..calls \subseteq 1..calls'
    BY <1>1 DEF Begin
  <2>2. slot' \in [1..Arrays -> [0..Max-1 -> 0..calls']]
    <3>1. slot' = slot /\ 0..calls \subseteq 0..calls'
      BY <1>1, <2>1 DEF Begin
    <3>2. [0..Max-1 -> 0..calls] \subseteq [0..Max-1 -> 0..calls']
      BY <3>1
    <3> QED
      BY <3>1, <3>2
  <2>3. spill' \in SUBSET ((1..Arrays) \X Nat \X (1..calls'))
    BY <1>1, <2>1 DEF Begin
  <2>4. mine' \in [Callers -> 0..calls']
    BY <1>1, <2>1 DEF Begin
  <2>5. pc' \in [Callers -> Labels] /\ arr' \in [Callers -> 1..Arrays]
    BY <1>1 DEF Begin, Goto
  <2>6. \A d \in Callers :
           /\ pc'[d] \in {"load", "store", "bump"} => mine'[d] # 0
           /\ pc'[d] \in {"bump", "check", "flag", "reset"} => arr'[d] = Arrays
    BY <1>1 DEF Begin, Goto
  <2> QED
    BY <1>1, <2>1, <2>2, <2>3, <2>4, <2>5, <2>6 DEF Begin
<1>2. ASSUME NEW c \in Callers, LoadCount(c) PROVE TypeOK'
  BY <1>2 DEF LoadCount, Goto
<1>3. ASSUME NEW c \in Callers, BumpCount(c) PROVE TypeOK'
  <2>1. count' \in Nat /\ pc' \in [Callers -> Labels]
    BY <1>3 DEF BumpCount, Goto
  <2>2. \A d \in Callers :
           /\ pc'[d] \in {"load", "store", "bump"} => mine[d] # 0
           /\ pc'[d] \in {"bump", "check", "flag", "reset"} => arr[d] = Arrays
    BY <1>3 DEF BumpCount, Goto
  <2> QED
    BY <2>1, <2>2, <1>3 DEF BumpCount, local
<1>4. ASSUME NEW c \in Callers, StoreSample(c) PROVE TypeOK'
  <2> DEFINE a == arr[c]
             r == reg[c]
  <2>1. slot' \in [1..Arrays -> [0..Max-1 -> 0..calls]]
    <3>1. CASE r < Max
      <4>1. [slot[a] EXCEPT ![r] = mine[c]] \in [0..Max-1 -> 0..calls]
        BY <3>1
      <4>2. slot' = [slot EXCEPT ![a] = [slot[a] EXCEPT ![r] = mine[c]]]
        BY <1>4, <3>1 DEF StoreSample, NextArray
      <4> QED
        BY <4>1, <4>2
    <3>2. CASE ~(r < Max)
      BY <3>2, <1>4 DEF StoreSample, NextArray
    <3> QED
      BY <3>1, <3>2
  <2>2. spill' \in SUBSET ((1..Arrays) \X Nat \X (1..calls))
    <3>1. mine[c] \in 1..calls
      BY <1>4 DEF StoreSample, NextArray
    <3> QED
      BY <3>1, <1>4 DEF StoreSample, NextArray
  <2>3. pc' \in [Callers -> Labels]
    BY <1>4 DEF StoreSample, NextArray, Goto
  <2>4. arr' \in [Callers -> 1..Arrays]
    <3>1. CASE a = Arrays
      BY <3>1, <1>4 DEF StoreSample, NextArray
    <3>2. CASE a # Arrays
      <4>1. a + 1 \in 1..Arrays
        <5>1. a \in 1..Arrays
          OBVIOUS
        <5> HIDE DEF TypeOK, a
        <5> QED
          BY <3>2, <5>1
      <4>2. arr' = [arr EXCEPT ![c] = a + 1]
        BY <3>2, <1>4 DEF StoreSample, NextArray
      <4> QED
        BY <4>1, <4>2
    <3> QED
      BY <3>1, <3>2
  <2>5. \A d \in Callers :
           /\ pc'[d] \in {"load", "store", "bump"} => mine'[d] # 0
           /\ pc'[d] \in {"bump", "check", "flag", "reset"} => arr'[d] = Arrays
    BY <1>4 DEF StoreSample, NextArray, Goto
  <2> QED
    BY <2>1, <2>2, <2>3, <2>4, <2>5, <1>4 DEF StoreSample, NextArray
<1>5. ASSUME NEW c \in Callers, CheckFull(c) PROVE TypeOK'
  BY <1>5 DEF CheckFull, Full, Goto, local
<1>6. ASSUME NEW c \in Callers, SetFlag(c) PROVE TypeOK'
  BY <1>6 DEF SetFlag, Goto, local
<1>7. ASSUME NEW c \in Callers, ResetCount(c) PROVE TypeOK'
  BY <1>7 DEF ResetCount, Goto, local
<1>8. CASE AllRecorded
  BY <1>8 DEF AllRecorded, vars
<1>9. CASE UNCHANGED vars
  BY <1>9 DEF vars
<1> QED
  BY <1>1, <1>2, <1>3, <1>4, <1>5, <1>6, <1>7, <1>8, <1>9 DEF Next, Record

(* The variables have their types, for any Callers, Max, Arrays. *)
THEOREM TypeCorrect == Spec => []TypeOK
BY TypeInit, TypeStep, PTL DEF Spec

-----------------------------------------------------------------------------
(* Element i of the last array is written, or a caller is about to write it. *)
Covered(i) ==
    \/ Written(Arrays, i)
    \/ \E c \in Callers : pc[c] = "store" /\ arr[c] = Arrays /\ reg[c] = i

CoveredBelow(n) == \A i \in Nat : i < n => Covered(i)

(* The strengthening of NoPhantomSample.  A caller bumps the count to one more
   than what it loaded, which other callers may have moved on or reset since;
   that is why the elements below every loaded register are covered too. *)
CoverInv ==
    /\ CoveredBelow(count)
    /\ \A c \in Callers :
          /\ pc[c] \in {"bump", "store"} => CoveredBelow(reg[c])
          /\ pc[c] \in {"flag", "reset"} => CoveredBelow(Max)
    /\ flag => CoveredBelow(Max)

(* An element that is covered stays covered. *)
LEMMA CoveredStable ==
  ASSUME TypeOK, [Next]_vars, NEW i \in Nat, Covered(i)
  PROVE  Covered(i)'
<1> USE RingAssumption
<1>1. ASSUME NEW c \in Callers, Begin(c) PROVE Covered(i)'
  <2>1. Written(Arrays, i) => Written(Arrays, i)'
    <3>1. slot' = slot /\ spill' = spill /\ 1..calls \subseteq 1..calls'
      BY <1>1 DEF Begin, TypeOK
    <3> QED
      BY <3>1 DEF Written
  <2>2. ASSUME NEW d \in Callers, pc[d] = "store" PROVE pc'[d] = pc[d] /\ arr'[d] = arr[d] /\ reg'[d] = reg[d]
    BY <1>1, <2>2 DEF Begin, Goto, TypeOK
  <2> QED
    BY <2>1, <2>2 DEF Covered
<1>2. ASSUME NEW c \in Callers, StoreSample(c) PROVE Covered(i)'
  <2>1. mine[c] \in 1..calls /\ arr[c] \in 1..Arrays /\ reg[c] \in Nat
    BY <1>2 DEF StoreSample, NextArray, TypeOK
  <2>2. Written(Arrays, i) => Written(Arrays, i)'
    <3>1. CASE i < Max
      <4>1. i \in 0..Max-1 /\ Arrays \in 1..Arrays
        BY <3>1
      <4>2. slot'[Arrays][i] = slot[Arrays][i] \/ slot'[Arrays][i] = mine[c]
        <5>1. CASE reg[c] < Max
          <6>1. slot' = [slot EXCEPT ![arr[c]][reg[c]] = mine[c]]
            BY <1>2, <5>1 DEF StoreSample, NextArray
          <6>2. slot \in [1..Arrays -> [0..Max-1 -> 0..calls]]
            BY DEF TypeOK
          <6> QED
            BY <6>1, <6>2, <4>1, <2>1
        <5>2. CASE ~(reg[c] < Max)
          BY <5>2, <1>2 DEF StoreSample, NextArray
        <5> QED
          BY <5>1, <5>2
      <4> QED
        BY <3>1, <4>2, <2>1 DEF Written
    <3>2. CASE ~(i < Max)
      <4>1. spill \subseteq spill' /\ calls' = calls
        BY <1>2 DEF StoreSample, NextArray
      <4> QED
        BY <3>2, <4>1 DEF Written
    <3> QED
      BY <3>1, <3>2
  <2>3. ASSUME NEW d \in Callers, pc[d] = "store", arr[d] = Arrays, reg[d] = i
        PROVE  Covered(i)'
    <3>1. CASE d = c
      <4>1. CASE i < Max
        <5>1. slot' = [slot EXCEPT ![Arrays][i] = mine[c]]
          BY <1>2, <2>3, <3>1, <4>1 DEF StoreSample, NextArray
        <5>2. slot'[Arrays][i] = mine[c]
          BY <5>1, <4>1 DEF TypeOK
        <5> QED
          BY <5>2, <4>1, <2>1 DEF Covered, Written
      <4>2. CASE ~(i < Max)
        <5>1. <<Arrays, i, mine[c]>> \in spill' /\ calls' = calls
          BY <1>2, <2>3, <3>1, <4>2 DEF StoreSample, NextArray
        <5> QED
          BY <5>1, <4>2, <2>1 DEF Covered, Written
      <4> QED
        BY <4>1, <4>2
    <3>2. CASE d # c
      <4>1. pc'[d] = pc[d] /\ arr'[d] = arr[d] /\ reg'[d] = reg[d]
        BY <1>2, <3>2 DEF StoreSample, NextArray, Goto, TypeOK
      <4> QED
        BY <4>1, <2>3 DEF Covered
    <3> QED
      BY <3>1, <3>2
  <2> QED
    BY <2>2, <2>3 DEF Covered
<1>3. ASSUME NEW c \in Callers,
             \/ LoadCount(c) \/ BumpCount(c) \/ CheckFull(c) \/ SetFlag(c) \/ ResetCount(c)
      PROVE  Covered(i)'
  <2>1. slot' = slot /\ spill' = spill /\ calls' = calls /\ arr' = arr
    BY <1>3 DEF LoadCount, BumpCount, CheckFull, Full, SetFlag, ResetCount, local
  <2>2. ASSUME NEW d \in Callers, pc[d] = "store"
        PROVE  pc'[d] = "store" /\ reg'[d] = reg[d]
    BY <1>3, <2>2 DEF LoadCount, BumpCount, CheckFull, Full, SetFlag, ResetCount, local, Goto, TypeOK
  <2> QED
    BY <2>1, <2>2 DEF Covered, Written
<1>4. ASSUME AllRecorded \/ UNCHANGED vars PROVE Covered(i)'
  BY <1>4 DEF AllRecorded, vars, Covered, Written
<1> QED
  BY <1>1, <1>2, <1>3, <1>4 DEF Next, Record

LEMMA CoverStep == TypeOK /\ CoverInv /\ [Next]_vars => CoverInv'
<1> SUFFICES ASSUME TypeOK, CoverInv, [Next]_vars PROVE CoverInv'
  OBVIOUS
<1> USE RingAssumption
<1>0. ASSUME NEW n \in Nat, CoveredBelow(n)
      PROVE  \A i \in Nat : i < n => Covered(i)'
  BY <1>0, CoveredStable DEF CoveredBelow
<1>1. ASSUME NEW c \in Callers, Begin(c) PROVE CoverInv'
  <2>1. count' = count /\ flag' = flag /\ reg' = reg
    BY <1>1 DEF Begin
  <2>2. \A d \in Callers : pc'[d] \in {"bump", "store", "flag", "reset"} => pc[d] = pc'[d]
    BY <1>1 DEF Begin, Goto, TypeOK
  <2> QED
    BY <1>0, <2>1, <2>2 DEF CoverInv, CoveredBelow, TypeOK
<1>2. ASSUME NEW c \in Callers, LoadCount(c) PROVE CoverInv'
  <2>1. count' = count /\ flag' = flag
    BY <1>2 DEF LoadCount
  <2>2. \A d \in Callers : pc'[d] \in {"bump", "store"} =>
            \/ reg'[d] = count
            \/ pc[d] = pc'[d] /\ reg'[d] = reg[d]
    BY <1>2 DEF LoadCount, Goto, TypeOK
  <2>3. \A d \in Callers : pc'[d] \in {"flag", "reset"} => pc[d] = pc'[d]
    BY <1>2 DEF LoadCount, Goto, TypeOK
  <2> QED
    BY <1>0, <2>1, <2>2, <2>3 DEF CoverInv, CoveredBelow, TypeOK
<1>3. ASSUME NEW c \in Callers, BumpCount(c) PROVE CoverInv'
  <2>1. count' = reg[c] + 1 /\ flag' = flag /\ reg' = reg /\ arr' = arr /\ pc'[c] = "store"
    BY <1>3 DEF BumpCount, Goto, local, TypeOK
  <2>2. \A d \in Callers : pc'[d] \in {"bump", "store"} => pc[d] \in {"bump", "store"}
    BY <1>3 DEF BumpCount, Goto, TypeOK
  <2>3. \A d \in Callers : pc'[d] \in {"flag", "reset"} => pc[d] = pc'[d]
    BY <1>3 DEF BumpCount, Goto, TypeOK
  <2>4. \A i \in Nat : i = reg[c] => Covered(i)'
    BY <1>3, <2>1 DEF Covered, BumpCount, TypeOK
  <2>5. CoveredBelow(reg[c])
    BY <1>3 DEF BumpCount, CoverInv
  <2>6. ASSUME NEW i \in Nat, i < count' PROVE Covered(i)'
    <3>1. reg[c] \in Nat
      BY DEF TypeOK
    <3>2. i = reg[c] \/ i < reg[c]
      BY <3>1, <2>1, <2>6
    <3> QED
      BY <3>1, <3>2, <2>4, <2>5, <1>0
  <2> QED
    BY <1>0, <2>1, <2>2, <2>3, <2>6 DEF CoverInv, CoveredBelow, TypeOK
<1>4. ASSUME NEW c \in Callers, StoreSample(c) PROVE CoverInv'
  <2>1. count' = count /\ flag' = flag /\ reg' = reg
    BY <1>4 DEF StoreSample, NextArray
  <2>2. \A d \in Callers : pc'[d] \in {"bump", "store", "flag", "reset"} => pc[d] = pc'[d]
    BY <1>4 DEF StoreSample, NextArray, Goto, TypeOK
  <2> QED
    BY <1>0, <2>1, <2>2 DEF CoverInv, CoveredBelow, TypeOK
<1>5. ASSUME NEW c \in Callers, CheckFull(c) PROVE CoverInv'
  <2>1. count' = count /\ flag' = flag /\ reg' = reg
    BY <1>5 DEF CheckFull, Full, local
  <2>2. \A d \in Callers : pc'[d] \in {"bump", "store"} => pc[d] = pc'[d]
    BY <1>5 DEF CheckFull, Full, Goto, TypeOK
  <2>3. \A d \in Callers : pc'[d] \in {"flag", "reset"} => pc[d] = pc'[d] \/ count = Max
    BY <1>5 DEF CheckFull, Full, Goto, TypeOK
  <2> QED
    BY <1>0, <2>1, <2>2, <2>3 DEF CoverInv, CoveredBelow, TypeOK
<1>6. ASSUME NEW c \in Callers, SetFlag(c) PROVE CoverInv'
  <2>1. count' = count /\ reg' = reg /\ CoveredBelow(Max)
    BY <1>6 DEF SetFlag, local, CoverInv
  <2>2. \A d \in Callers : pc'[d] \in {"bump", "store"} => pc[d] = pc'[d]
    BY <1>6 DEF SetFlag, Goto, TypeOK
  <2> QED
    BY <1>0, <2>1, <2>2 DEF CoverInv, CoveredBelow, TypeOK
<1>7. ASSUME NEW c \in Callers, ResetCount(c) PROVE CoverInv'
  <2>1. count' = 0 /\ flag' = flag /\ reg' = reg /\ CoveredBelow(Max)
    BY <1>7 DEF ResetCount, local, CoverInv
  <2>2. \A d \in Callers : pc'[d] \in {"bump", "store"} => pc[d] = pc'[d]
    BY <1>7 DEF ResetCount, Goto, TypeOK
  <2>3. CoveredBelow(count)' /\ CoveredBelow(Max)'
    BY <1>0, <2>1 DEF CoveredBelow
  <2>4. ASSUME NEW d \in Callers, pc'[d] \in {"bump", "store"}
        PROVE  CoveredBelow(reg[d])'
    BY <1>0, <2>1, <2>2, <2>4 DEF CoverInv, CoveredBelow, TypeOK
  <2> QED
    BY <2>3, <2>4 DEF CoverInv
<1>8. ASSUME AllRecorded \/ UNCHANGED vars PROVE CoverInv'
  <2>1. count' = count /\ flag' = flag /\ reg' = reg /\ pc' = pc
    BY <1>8 DEF AllRecorded, vars
  <2> QED
    BY <1>0, <2>1 DEF CoverInv, CoveredBelow, TypeOK
<1> QED
  BY <1>1, <1>2, <1>3, <1>4, <1>5, <1>6, <1>7, <1>8 DEF Next, Record

(* However many threads record at the same time, the bench averages no element
   that no call wrote. *)
THEOREM NoPhantom == Spec => []NoPhantomSample
<1>1. Init => CoverInv
  BY DEF Init, CoverInv, CoveredBelow
<1>2. TypeOK /\ CoverInv => NoPhantomSample
  <2> SUFFICES ASSUME TypeOK, CoverInv, Quiet, NEW i \in 0..BenchLen-1
               PROVE  Written(Arrays, i)
    BY DEF NoPhantomSample
  <2>1. i \in Nat /\ Max \in Nat /\ BenchLen \in Nat
    BY RingAssumption DEF BenchLen, TypeOK
  <2>2. CoveredBelow(BenchLen)
    BY DEF CoverInv, BenchLen
  <2>3. Covered(i)
    BY <2>1, <2>2 DEF CoveredBelow
  <2> QED
    BY <2>3 DEF Covered, Quiet
<1> QED
  BY <1>1, <1>2, CoverStep, TypeCorrect, PTL DEF Spec

-----------------------------------------------------------------------------
(* Callers that have begun a call and not yet incremented the count for it. *)
Unbumped == {c \in Callers : \/ pc[c] \in {"load", "bump"}
                             \/ pc[c] = "store" /\ arr[c] < Arrays}

(* Every call increments the count at most once, so the count and every loaded
   register leave room for the calls that are still to increment it. *)
RoomInv ==
    /\ count + Cardinality(Unbumped) <= calls
    /\ \A c \in Callers :
          /\ pc[c] = "bump" => reg[c] + Cardinality(Unbumped) <= calls
          /\ pc[c] = "store" => reg[c] < calls
    /\ calls <= Max => spill = {}

LEMMA UnbumpedFinite == IsFiniteSet(Unbumped) /\ Cardinality(Unbumped) \in Nat
<1>1. Unbumped \in SUBSET Callers
  BY DEF Unbumped
<1> QED
  BY <1>1, RingAssumption, FS_Subset, FS_CardinalityType

LEMMA RoomStep == TypeOK /\ RoomInv /\ [Next]_vars => RoomInv'
<1> SUFFICES ASSUME TypeOK, RoomInv, [Next]_vars PROVE RoomInv'
  OBVIOUS
<1> DEFINE U == Cardinality(Unbumped)
<1> USE RingAssumption
<1>0. U \in Nat /\ calls \in Nat /\ count \in Nat /\ Max \in Nat /\ \A c \in Callers : reg[c] \in Nat
  BY UnbumpedFinite DEF TypeOK
<1>1. ASSUME NEW c \in Callers, Begin(c) PROVE RoomInv'
  <2>1. Unbumped' = Unbumped \cup {c} /\ c \notin Unbumped
    BY <1>1 DEF Begin, Goto, TypeOK, Unbumped
  <2>2. U' = U + 1
    BY <2>1, UnbumpedFinite, FS_AddElement
  <2>3. count' = count /\ calls' = calls + 1 /\ spill' = spill /\ reg' = reg
    BY <1>1 DEF Begin
  <2>4. \A d \in Callers : pc'[d] \in {"bump", "store"} => pc'[d] = pc[d]
    BY <1>1 DEF Begin, Goto, TypeOK
  <2> HIDE DEF U
  <2> QED
    BY <1>0, <2>2, <2>3, <2>4 DEF RoomInv, U
<1>2. ASSUME NEW c \in Callers, LoadCount(c) PROVE RoomInv'
  <2>1. Unbumped' = Unbumped /\ c \in Unbumped
    <3>1. /\ pc[c] = "load" /\ arr' = arr /\ arr[c] \in 1..Arrays
          /\ pc' = [pc EXCEPT ![c] = IF arr[c] = Arrays THEN "bump" ELSE "store"]
      BY <1>2 DEF LoadCount, Goto, TypeOK
    <3>2. arr[c] # Arrays => arr[c] < Arrays
      BY <3>1
    <3>3. \A d \in Callers : d # c => pc'[d] = pc[d]
      BY <3>1 DEF TypeOK
    <3>4. pc'[c] = "bump" \/ (pc'[c] = "store" /\ arr'[c] < Arrays)
      BY <3>1, <3>2 DEF TypeOK
    <3> QED
      BY <3>1, <3>3, <3>4 DEF Unbumped
  <2>2. U >= 1
    BY <2>1, UnbumpedFinite, FS_EmptySet, <1>0
  <2>3. count' = count /\ calls' = calls /\ spill' = spill
    BY <1>2 DEF LoadCount
  <2>4. \A d \in Callers : pc'[d] \in {"bump", "store"} =>
            \/ reg'[d] = count
            \/ pc'[d] = pc[d] /\ reg'[d] = reg[d]
    BY <1>2 DEF LoadCount, Goto, TypeOK
  <2> HIDE DEF U
  <2> QED
    BY <1>0, <2>1, <2>2, <2>3, <2>4 DEF RoomInv, U
<1>3. ASSUME NEW c \in Callers, BumpCount(c) PROVE RoomInv'
  <2>1. Unbumped' = Unbumped \ {c} /\ c \in Unbumped
    <3>1. /\ pc[c] = "bump" /\ arr' = arr /\ arr[c] = Arrays
          /\ pc' = [pc EXCEPT ![c] = "store"]
      BY <1>3 DEF BumpCount, Goto, local, TypeOK
    <3>2. \A d \in Callers : d # c => pc'[d] = pc[d]
      BY <3>1 DEF TypeOK
    <3>3. pc'[c] = "store" /\ ~(arr'[c] < Arrays)
      BY <3>1 DEF TypeOK
    <3> QED
      BY <3>1, <3>2, <3>3 DEF Unbumped
  <2>2. U' = U - 1 /\ U >= 1
    BY <2>1, UnbumpedFinite, FS_RemoveElement, FS_EmptySet, <1>0
  <2>3. count' = reg[c] + 1 /\ calls' = calls /\ spill' = spill /\ reg' = reg
    BY <1>3 DEF BumpCount, local
  <2>4. reg[c] + U <= calls
    BY <1>3 DEF BumpCount, RoomInv
  <2>5. \A d \in Callers : /\ pc'[d] = "bump" => pc[d] = "bump"
                           /\ pc'[d] = "store" => pc[d] = "store" \/ d = c
    BY <1>3 DEF BumpCount, Goto, TypeOK
  <2> HIDE DEF U
  <2> QED
    BY <1>0, <2>2, <2>3, <2>4, <2>5 DEF RoomInv, U
<1>4. ASSUME NEW c \in Callers, StoreSample(c) PROVE RoomInv'
  <2>1. Unbumped' = Unbumped
    <3>1. /\ pc[c] = "store" /\ arr[c] \in 1..Arrays
          /\ pc' = [pc EXCEPT ![c] = IF arr[c] = Arrays THEN "check" ELSE "load"]
          /\ \A d \in Callers : d # c => arr'[d] = arr[d]
      BY <1>4 DEF StoreSample, NextArray, Goto, TypeOK
    <3>2. arr[c] # Arrays <=> arr[c] < Arrays
      BY <3>1
    <3>3. \A d \in Callers : d # c => pc'[d] = pc[d]
      BY <3>1 DEF TypeOK
    <3>4. pc'[c] = IF arr[c] = Arrays THEN "check" ELSE "load"
      BY <3>1 DEF TypeOK
    <3> QED
      BY <3>1, <3>2, <3>3, <3>4 DEF Unbumped
  <2>2. count' = count /\ calls' = calls /\ reg' = reg
    BY <1>4 DEF StoreSample, NextArray
  <2>3. \A d \in Callers : pc'[d] \in {"bump", "store"} => pc'[d] = pc[d]
    BY <1>4 DEF StoreSample, NextArray, Goto, TypeOK
  <2>4. calls <= Max => spill' = spill
    BY <1>4, <1>0 DEF StoreSample, NextArray, RoomInv
  <2> HIDE DEF U
  <2> QED
    BY <1>0, <2>1, <2>2, <2>3, <2>4 DEF RoomInv, U
<1>5. ASSUME NEW c \in Callers, CheckFull(c) \/ SetFlag(c) \/ ResetCount(c) PROVE RoomInv'
  <2>1. Unbumped' = Unbumped
    BY <1>5 DEF CheckFull, Full, SetFlag, ResetCount, local, Goto, TypeOK, Unbumped
  <2>2. /\ count' = count \/ count' = 0
        /\ calls' = calls /\ reg' = reg /\ spill' = spill
    BY <1>5 DEF CheckFull, Full, SetFlag, ResetCount, local
  <2>3. \A d \in Callers : pc'[d] \in {"bump", "store"} => pc'[d] = pc[d]
    BY <1>5 DEF CheckFull, Full, SetFlag, ResetCount, Goto, TypeOK
  <2>4. count' + U' <= calls'
    <3>1. U' = U /\ count + U <= calls
      BY <2>1 DEF RoomInv
    <3> HIDE DEF U
    <3> QED
      BY <1>0, <2>2, <3>1
  <2>5. \A d \in Callers :
          /\ pc'[d] = "bump" => reg'[d] + U' <= calls'
          /\ pc'[d] = "store" => reg'[d] < calls'
    BY <2>1, <2>2, <2>3 DEF RoomInv
  <2> QED
    BY <2>2, <2>4, <2>5 DEF RoomInv
<1>6. ASSUME AllRecorded \/ UNCHANGED vars PROVE RoomInv'
  BY <1>6 DEF AllRecorded, vars, RoomInv, Unbumped
<1> QED
  BY <1>1, <1>2, <1>3, <1>4, <1>5, <1>6 DEF Next, Record

(* The recorder stays inside the array if it is called no more often than the
   array is long. *)
LEMMA RoomInit == Init => RoomInv
<1> SUFFICES ASSUME Init PROVE RoomInv
  OBVIOUS
<1>1. Unbumped = {}
  BY DEF Init, Unbumped
<1> QED
  BY <1>1, FS_EmptySet DEF Init, RoomInv

-----------------------------------------------------------------------------
(* What a thread that is alone keeps: the elements before its own are rows of
   one call each, the count it has incremented is the count it tests, and so
   the count is below Max again whenever it is loaded. *)
Busy(c) == pc[c] \in {"load", "bump", "store"}
Current(c) == IF pc[c] = "store" THEN reg[c] ELSE count

LoneCount(c) ==
    /\ (\/ pc[c] \in {"idle", "load", "bump"}
        \/ pc[c] = "store" /\ arr[c] < Arrays
        \/ pc[c] = "flag" /\ ~FlagFirst) => count < Max
    /\ pc[c] = "bump" \/ (pc[c] = "store" /\ arr[c] < Arrays) => reg[c] = count
    /\ pc[c] = "store" /\ arr[c] = Arrays => reg[c] < Max /\ count = reg[c] + 1
    /\ pc[c] = "flag" => count = IF FlagFirst THEN Max ELSE 0
    /\ pc[c] = "reset" => count = Max /\ (FlagFirst => flag)

LoneRows(c) ==
    \A a \in 1..Arrays, i \in 0..Max-1 :
       IF Busy(c) /\ i = Current(c)
         THEN a < arr[c] => slot[a][i] = mine[c]
         ELSE slot[a][i] = slot[Arrays][i]

LoneInv ==
    /\ \A c \in Callers : mine[c] = 0 => pc[c] = "idle"
    /\ (\A c \in Callers : mine[c] = 0) =>
          /\ count = 0 /\ flag = FALSE /\ spill = {}
          /\ \A a \in 1..Arrays, i \in 0..Max-1 : slot[a][i] = 0
    /\ Lone => /\ count <= Max
               /\ spill = {}
               /\ \A c \in Callers : mine[c] # 0 => LoneCount(c) /\ LoneRows(c)

LEMMA LoneInit == Init => LoneInv
<1> SUFFICES ASSUME Init PROVE LoneInv
  OBVIOUS
<1>1. \A a \in 1..Arrays, i \in 0..Max-1 : slot[a][i] = 0
  BY DEF Init
<1>2. \A c \in Callers : mine[c] = 0 /\ pc[c] = "idle"
  BY DEF Init
<1> QED
  BY <1>1, <1>2, RingAssumption DEF Init, LoneInv

(* A step of c leaves the other callers where they are, and c has called. *)
LEMMA OthersStay ==
  ASSUME TypeOK, LoneInv, NEW c \in Callers, Record(c)
  PROVE  /\ mine'[c] # 0
         /\ \A d \in Callers : d # c => pc'[d] = pc[d] /\ mine'[d] = mine[d]
         /\ Begin(c) \/ mine[c] # 0
<1>1. CASE Begin(c)
  <2>1. mine' = [mine EXCEPT ![c] = calls + 1] /\ pc' = [pc EXCEPT ![c] = "load"]
    BY <1>1 DEF Begin, Goto
  <2>2. calls + 1 # 0
    BY DEF TypeOK
  <2> QED
    BY <1>1, <2>1, <2>2 DEF TypeOK
<1>2. CASE ~Begin(c)
  <2>1. pc[c] # "idle"
    BY <1>2 DEF Record, LoadCount, BumpCount, StoreSample, CheckFull, SetFlag, ResetCount
  <2>2. mine[c] # 0
    BY <2>1 DEF LoneInv
  <2>3. mine' = mine
    BY <1>2 DEF Record, LoadCount, BumpCount, StoreSample, CheckFull, SetFlag, ResetCount, local
  <2>4. \A d \in Callers : d # c => pc'[d] = pc[d]
    BY <1>2 DEF Record, LoadCount, BumpCount, StoreSample, NextArray, CheckFull, Full,
                SetFlag, ResetCount, Goto, TypeOK
  <2> QED
    BY <2>2, <2>3, <2>4
<1> QED
  BY <1>1, <1>2

(* A step that leaves c alone was taken by a caller that was alone. *)
LEMMA LoneBefore ==
  ASSUME TypeOK, LoneInv, NEW c \in Callers, Record(c), Lone'
  PROVE  Lone /\ \A d \in Callers : d # c => mine[d] = 0 /\ mine'[d] = 0 /\ pc[d] = "idle"
<1>1. \A d \in Callers : mine'[d] # 0 => d = c
  BY OthersStay DEF Lone
<1>2. \A d \in Callers : d # c => mine[d] = 0
  BY <1>1, OthersStay
<1> QED
  BY <1>1, <1>2 DEF Lone, LoneInv

(* What a caller that is alone finds. *)
LEMMA LoneNow ==
  ASSUME TypeOK, LoneInv, Lone
  PROVE  count <= Max /\ spill = {}
BY DEF LoneInv

(* Every step of a thread that is alone keeps the rows together and the count
   in range. *)
LEMMA LoneAction ==
  ASSUME TypeOK, LoneInv, NEW c \in Callers, Record(c), Lone'
  PROVE  count' <= Max /\ spill' = {} /\ LoneCount(c)' /\ LoneRows(c)'
<1> USE RingAssumption
<1>1. Lone
  BY LoneBefore
<1>2. mine[c] # 0 => LoneCount(c) /\ LoneRows(c)
  BY <1>1 DEF LoneInv
<1>3. count <= Max /\ spill = {}
  BY <1>1 DEF LoneInv
<1>4. Begin(c) \/ mine[c] # 0
  BY OthersStay
<1>5. /\ count \in Nat /\ reg[c] \in Nat /\ arr[c] \in 1..Arrays /\ Max \in Nat
      /\ Arrays \in Nat
  BY DEF TypeOK
<1>6. ASSUME Begin(c) PROVE count' <= Max /\ spill' = {} /\ LoneCount(c)' /\ LoneRows(c)'
  <2>1. count' = count /\ spill' = spill /\ slot' = slot
    BY <1>6 DEF Begin
  <2>2. pc[c] = "idle" /\ pc'[c] = "load" /\ arr'[c] = 1
    BY <1>6 DEF Begin, Goto, TypeOK
  <2>3. count < Max
    <3>1. CASE mine[c] # 0
      BY <3>1, <1>2, <2>2 DEF LoneCount
    <3>2. CASE mine[c] = 0
      <4>1. \A d \in Callers : mine[d] = 0
        BY <3>2, LoneBefore, <1>6 DEF Record
      <4> QED
        BY <4>1 DEF LoneInv
    <3> QED
      BY <3>1, <3>2
  <2>4. \A a \in 1..Arrays, i \in 0..Max-1 : slot[a][i] = slot[Arrays][i]
    <3>1. CASE mine[c] # 0
      BY <3>1, <1>2, <2>2 DEF LoneRows, Busy
    <3>2. CASE mine[c] = 0
      <4>1. \A d \in Callers : mine[d] = 0
        BY <3>2, LoneBefore, <1>6 DEF Record
      <4>2. \A a \in 1..Arrays, i \in 0..Max-1 : slot[a][i] = 0
        BY <4>1 DEF LoneInv
      <4> QED
        BY <4>2, <1>5
    <3> QED
      BY <3>1, <3>2
  <2>5. LoneCount(c)'
    BY <2>1, <2>2, <2>3 DEF LoneCount
  <2>6. LoneRows(c)'
    BY <2>1, <2>2, <2>4 DEF LoneRows
  <2> QED
    BY <1>3, <2>1, <2>5, <2>6
<1>7. ASSUME LoadCount(c) PROVE count' <= Max /\ spill' = {} /\ LoneCount(c)' /\ LoneRows(c)'
  <2>1. /\ count' = count /\ spill' = spill /\ slot' = slot /\ arr' = arr /\ mine' = mine
        /\ reg'[c] = count /\ pc[c] = "load"
        /\ pc'[c] = IF arr[c] = Arrays THEN "bump" ELSE "store"
    BY <1>7 DEF LoadCount, Goto, TypeOK
  <2>2. LoneCount(c) /\ LoneRows(c)
    BY <1>2, <1>4, <2>1 DEF Begin
  <2>3. LoneCount(c)'
    BY <1>5, <2>1, <2>2 DEF LoneCount
  <2>4. LoneRows(c)'
    BY <2>1, <2>2 DEF LoneRows, Busy, Current
  <2> QED
    BY <1>3, <2>1, <2>3, <2>4
<1>8. ASSUME BumpCount(c) PROVE count' <= Max /\ spill' = {} /\ LoneCount(c)' /\ LoneRows(c)'
  <2>1. /\ count' = reg[c] + 1 /\ spill' = spill /\ slot' = slot /\ arr' = arr
        /\ mine' = mine /\ reg' = reg /\ pc[c] = "bump" /\ pc'[c] = "store"
        /\ arr[c] = Arrays
    BY <1>8 DEF BumpCount, Goto, local, TypeOK
  <2>2. LoneCount(c) /\ LoneRows(c)
    BY <1>2, <1>4, <2>1 DEF Begin
  <2>3. reg[c] = count /\ count < Max
    BY <2>1, <2>2 DEF LoneCount
  <2>4. LoneCount(c)'
    BY <1>5, <2>1, <2>3 DEF LoneCount
  <2>5. LoneRows(c)'
    BY <2>1, <2>2, <2>3 DEF LoneRows, Busy, Current
  <2> QED
    BY <1>3, <1>5, <2>1, <2>3, <2>4, <2>5
<1>9. ASSUME StoreSample(c) PROVE count' <= Max /\ spill' = {} /\ LoneCount(c)' /\ LoneRows(c)'
  <2>1. /\ count' = count /\ mine' = mine /\ reg' = reg /\ pc[c] = "store"
        /\ pc'[c] = IF arr[c] = Arrays THEN "check" ELSE "load"
        /\ arr'[c] = IF arr[c] = Arrays THEN arr[c] ELSE arr[c] + 1
    BY <1>9 DEF StoreSample, NextArray, Goto, TypeOK
  <2>2. LoneCount(c) /\ LoneRows(c)
    BY <1>2, <1>4, <2>1 DEF Begin
  <2>3. arr[c] = Arrays \/ arr[c] < Arrays
    BY <1>5
  <2>4. reg[c] < Max /\ count = IF arr[c] = Arrays THEN reg[c] + 1 ELSE reg[c]
    BY <1>5, <2>1, <2>2, <2>3 DEF LoneCount
  <2>5. slot' = [slot EXCEPT ![arr[c]][reg[c]] = mine[c]] /\ spill' = spill
    BY <1>9, <2>4 DEF StoreSample, NextArray
  <2>6. \A a \in 1..Arrays, i \in 0..Max-1 :
           slot'[a][i] = IF a = arr[c] /\ i = reg[c] THEN mine[c] ELSE slot[a][i]
    <3>1. slot \in [1..Arrays -> [0..Max-1 -> 0..calls]]
      BY DEF TypeOK
    <3> QED
      BY <1>5, <2>4, <2>5, <3>1
  <2>7. LoneCount(c)'
    BY <1>5, <2>1, <2>3, <2>4 DEF LoneCount
  <2>8. \A a \in 1..Arrays, i \in 0..Max-1 :
           IF i = reg[c] THEN a < arr[c] => slot[a][i] = mine[c]
                         ELSE slot[a][i] = slot[Arrays][i]
    BY <2>1, <2>2 DEF LoneRows, Busy, Current
  <2>9. LoneRows(c)'
    <3> SUFFICES ASSUME NEW a \in 1..Arrays, NEW i \in 0..Max-1
                 PROVE  IF (Busy(c) /\ i = Current(c))'
                          THEN a < arr'[c] => slot'[a][i] = mine'[c]
                          ELSE slot'[a][i] = slot'[Arrays][i]
      BY DEF LoneRows
    <3>1. CASE arr[c] = Arrays
      <4>1. pc'[c] = "check" /\ arr'[c] = Arrays
        BY <2>1, <3>1
      <4>2. slot'[a][i] = slot'[Arrays][i]
        <5>1. a < Arrays \/ a = Arrays
          BY <1>5
        <5>2. Arrays \in 1..Arrays
          BY <1>5
        <5> QED
          BY <2>6, <2>8, <3>1, <5>1, <5>2
      <4> QED
        BY <4>1, <4>2 DEF Busy
    <3>2. CASE arr[c] < Arrays
      <4>1. pc'[c] = "load" /\ arr'[c] = arr[c] + 1 /\ count' = reg[c]
        BY <1>5, <2>1, <2>4, <3>2
      <4>2. Arrays \in 1..Arrays /\ Arrays # arr[c]
        BY <1>5, <3>2
      <4>3. i = reg[c] => (a < arr[c] + 1 => slot'[a][i] = mine[c])
        BY <1>5, <2>6, <2>8
      <4>4. i # reg[c] => slot'[a][i] = slot'[Arrays][i]
        BY <2>6, <2>8, <4>2
      <4> QED
        BY <2>1, <4>1, <4>3, <4>4 DEF Busy, Current
    <3> QED
      BY <2>3, <3>1, <3>2
  <2> QED
    BY <1>3, <2>1, <2>5, <2>7, <2>9
<1>10. ASSUME CheckFull(c) \/ SetFlag(c) \/ ResetCount(c)
       PROVE count' <= Max /\ spill' = {} /\ LoneCount(c)' /\ LoneRows(c)'
  <2>1. /\ spill' = spill /\ slot' = slot /\ mine' = mine /\ arr' = arr /\ reg' = reg
        /\ pc[c] \in {"check", "flag", "reset"}
        /\ pc'[c] \in {"idle", "flag", "reset"}
    BY <1>10 DEF CheckFull, Full, SetFlag, ResetCount, local, Goto, TypeOK
  <2>2. LoneCount(c) /\ LoneRows(c)
    BY <1>2, <1>4, <2>1 DEF Begin
  <2>3. LoneRows(c)'
    BY <2>1, <2>2 DEF LoneRows, Busy
  <2>4. CASE CheckFull(c)
    <3>1. /\ count' = count
          /\ pc'[c] = IF count # Max THEN "idle" ELSE IF FlagFirst THEN "flag" ELSE "reset"
      BY <2>4 DEF CheckFull, Full, local, Goto, TypeOK
    <3> QED
      BY <1>3, <1>5, <2>1, <2>3, <3>1 DEF LoneCount
  <2>5. CASE SetFlag(c)
    <3>1. /\ count' = count /\ flag' = TRUE /\ pc[c] = "flag"
          /\ pc'[c] = IF FlagFirst THEN "reset" ELSE "idle"
      BY <2>5 DEF SetFlag, local, Goto, TypeOK
    <3> QED
      BY <1>3, <1>5, <2>1, <2>2, <2>3, <3>1 DEF LoneCount
  <2>6. CASE ResetCount(c)
    <3>1. count' = 0 /\ pc'[c] = IF FlagFirst THEN "idle" ELSE "flag"
      BY <2>6 DEF ResetCount, local, Goto, TypeOK
    <3> QED
      BY <1>3, <1>5, <2>1, <2>3, <3>1 DEF LoneCount
  <2> QED
    BY <1>10, <2>4, <2>5, <2>6
<1> QED
  BY <1>6, <1>7, <1>8, <1>9, <1>10 DEF Record

LEMMA LoneStep == TypeOK /\ LoneInv /\ [Next]_vars => LoneInv'
<1> SUFFICES ASSUME TypeOK, LoneInv, [Next]_vars PROVE LoneInv'
  OBVIOUS
<1>1. ASSUME NEW c \in Callers, Record(c) PROVE LoneInv'
  <2>1. \A d \in Callers : mine'[d] = 0 => pc'[d] = "idle"
    BY <1>1, OthersStay DEF LoneInv
  <2>2. ~ \A d \in Callers : mine'[d] = 0
    BY <1>1, OthersStay
  <2>3. ASSUME Lone' PROVE /\ count' <= Max
                           /\ spill' = {}
                           /\ \A d \in Callers : mine'[d] # 0 => (LoneCount(d) /\ LoneRows(d))'
    <3>1. \A d \in Callers : mine'[d] # 0 => d = c
      BY <1>1, <2>3, LoneBefore
    <3> QED
      BY <1>1, <2>3, <3>1, LoneAction
  <2> QED
    BY <2>1, <2>2, <2>3 DEF LoneInv
<1>2. ASSUME AllRecorded \/ UNCHANGED vars PROVE LoneInv'
  BY <1>2 DEF AllRecorded, vars, LoneInv, LoneCount, LoneRows, Busy, Current, Lone
<1> QED
  BY <1>1, <1>2 DEF Next

LEMMA LoneHolds == Spec => [](TypeOK /\ LoneInv)
BY TypeCorrect, LoneInit, LoneStep, PTL DEF Spec

(* The recorder never stores outside its array as long as one thread uses it,
   or if it is called no more often than the array is long. *)
THEOREM InArrayIfSafe == Spec => []StaysInArrayIfSafe
<1>1. RoomInv /\ LoneInv => StaysInArrayIfSafe
  BY DEF RoomInv, LoneInv, StaysInArrayIfSafe, StaysInArray
<1> QED
  BY <1>1, RoomInit, RoomStep, LoneHolds, TypeCorrect, PTL DEF Spec

LEMMA RowsWhenQuiet ==
  ASSUME TypeOK, LoneInv, Quiet, Lone, NEW a \in 1..Arrays, NEW i \in 0..Max-1
  PROVE  slot[a][i] = slot[Arrays][i]
<1>1. CASE \A c \in Callers : mine[c] = 0
  <2>1. Arrays \in 1..Arrays
    BY RingAssumption
  <2> QED
    BY <1>1, <2>1 DEF LoneInv
<1>2. CASE \E c \in Callers : mine[c] # 0
  <2>1. PICK c \in Callers : mine[c] # 0
    BY <1>2
  <2>2. LoneRows(c) /\ ~Busy(c)
    BY <2>1 DEF LoneInv, Quiet, Busy
  <2> QED
    BY <2>2 DEF LoneRows
<1> QED
  BY <1>1, <1>2

(* The rows of sys_file_fsync hold the three times of one call as long as one
   thread calls it. *)
THEOREM RowsOfOneCall == Spec => []RowsAligned
<1>1. TypeOK /\ LoneInv => RowsAligned
  BY RowsWhenQuiet DEF RowsAligned
<1> QED
  BY <1>1, LoneHolds, PTL

(* Every array a lone caller fills holds measured times only. *)
THEOREM NoPhantomAnywhere == Spec => []NoPhantomInAnyArray
<1>1. TypeOK /\ LoneInv /\ NoPhantomSample => NoPhantomInAnyArray
  <2> SUFFICES ASSUME TypeOK, LoneInv, NoPhantomSample, Quiet, Lone,
                      NEW a \in 1..Arrays, NEW i \in 0..BenchLen-1
               PROVE  Written(a, i)
    BY DEF NoPhantomInAnyArray
  <2>1. BenchLen \in Nat /\ BenchLen <= Max /\ Max \in Nat
    BY RingAssumption, LoneNow DEF BenchLen, TypeOK
  <2>2. i \in 0..Max-1 /\ i < Max
    BY <2>1
  <2>3. slot[Arrays][i] # 0
    BY <2>2 DEF NoPhantomSample, Written
  <2>4. slot[a][i] = slot[Arrays][i]
    BY <2>2, RowsWhenQuiet
  <2> QED
    BY <2>2, <2>3, <2>4 DEF Written
<1> QED
  BY <1>1, LoneHolds, NoPhantom, PTL

-----------------------------------------------------------------------------
(* The refinement.  The length of the window, and where the oldest sample is. *)
Oldest(n, k) == IF k <= Max - n THEN n + k - 1 ELSE n + k - 1 - Max

LEMMA WindowIs ==
  ASSUME Filled \in 0..Max
  PROVE  /\ Wrapped => /\ Window = [k \in 1..Max |-> slot[Arrays][Oldest(Filled, k)]]
                        /\ Len(Window) = Max
         /\ ~Wrapped => /\ Window = [k \in 1..Filled |-> slot[Arrays][k - 1]]
                         /\ Len(Window) = Filled
<1>1. ASSUME NEW n \in Nat, NEW f(_) PROVE Len([k \in 1..n |-> f(k)]) = n
  OBVIOUS
<1>2. Wrapped => Window = [k \in 1..Max |-> slot[Arrays][Oldest(Filled, k)]]
  BY DEF Window, Oldest
<1>3. ~Wrapped => Window = [k \in 1..Filled |-> slot[Arrays][k - 1]]
  BY DEF Window
<1>4. Len([k \in 1..Max |-> slot[Arrays][Oldest(Filled, k)]]) = Max
  BY <1>1, RingAssumption
<1>5. Len([k \in 1..Filled |-> slot[Arrays][k - 1]]) = Filled
  BY <1>1
<1> QED
  BY <1>2, <1>3, <1>4, <1>5

(* What the window is read from, for the one thread that called. *)
LEMMA LoneWindow ==
  ASSUME TypeOK, LoneInv, NEW c \in Callers, \A d \in Callers : d # c => pc[d] = "idle"
  PROVE  /\ Filled = IF pc[c] = "store" THEN reg[c] ELSE count
         /\ Wrapped <=> flag \/ pc[c] = "flag"
<1>1. pc[c] = "store" => Storing = {c}
  BY DEF Storing
<1>2. pc[c] # "store" => Storing = {}
  BY DEF Storing
<1>3. Filled = IF pc[c] = "store" THEN reg[c] ELSE count
  BY <1>1, <1>2 DEF Filled
<1> QED
  BY <1>3 DEF Wrapped

LEMMA QuietWindow ==
  ASSUME TypeOK, LoneInv, Quiet, Lone
  PROVE  Filled = count /\ (Wrapped <=> flag) /\ count \in 0..Max
<1>1. PICK c \in Callers : TRUE
  BY RingAssumption
<1>2. \A d \in Callers : d # c => pc[d] = "idle"
  BY DEF Quiet
<1>3. Filled = count /\ (Wrapped <=> flag)
  <2>1. pc[c] = "idle"
    BY DEF Quiet
  <2> QED
    BY <1>2, <2>1, LoneWindow
<1>4. count <= Max
  BY LoneNow
<1> QED
  BY <1>3, <1>4, RingAssumption DEF TypeOK

(* Between two calls the bench of a lone caller reads the whole window. *)
THEOREM BenchReadsAll == Spec => []BenchReadsWindow
<1>1. TypeOK /\ LoneInv => BenchReadsWindow
  <2> SUFFICES ASSUME TypeOK, LoneInv, Quiet, Lone PROVE BenchLen = Len(Window)
    BY DEF BenchReadsWindow
  <2> QED
    BY QuietWindow, WindowIs, RingAssumption DEF BenchLen
<1> QED
  BY <1>1, LoneHolds, PTL

-----------------------------------------------------------------------------
(* Two sequences, the second the first with s behind it. *)
LEMMA AppendIs ==
  ASSUME NEW S, NEW u \in Seq(S), NEW v \in Seq(S), NEW s \in S,
         Len(v) = Len(u) + 1, v[Len(v)] = s,
         \A k \in 1..Len(u) : v[k] = u[k]
  PROVE  v = Append(u, s)
<1> DEFINE w == Append(u, s)
<1>1. w \in Seq(S) /\ Len(w) = Len(u) + 1 /\ w[Len(u) + 1] = s /\ \A k \in 1..Len(u) : w[k] = u[k]
  BY AppendProperties
<1>2. Len(u) \in Nat
  BY LenProperties
<1> HIDE DEF w
<1>3. \A k \in 1..Len(v) : v[k] = w[k]
  <2> TAKE k \in 1..Len(v)
  <2>1. k \in 1..Len(u) \/ k = Len(u) + 1
    BY <1>2
  <2> QED
    BY <1>1, <2>1
<1>4. v = w
  BY <1>1, <1>3, SeqEqual
<1> QED
  BY <1>4 DEF w

LEMMA TailOf ==
  ASSUME NEW S, NEW u \in Seq(S), Len(u) > 0
  PROVE  /\ Tail(u) \in Seq(S) /\ Len(Tail(u)) = Len(u) - 1
         /\ \A k \in 1..Len(u)-1 : Tail(u)[k] = u[k + 1]
<1>1. u # << >>
  BY EmptySeq
<1> QED
  BY <1>1, HeadTailProperties

LEMMA WindowType ==
  ASSUME TypeOK, Filled \in 0..Max
  PROVE  Window \in Seq(0..calls)
<1> USE RingAssumption
<1>1. slot[Arrays] \in [0..Max-1 -> 0..calls]
  BY DEF TypeOK
<1>2. ASSUME NEW n \in Nat, NEW e(_), NEW T, \A i \in 1..n : e(i) \in T
      PROVE [i \in 1..n |-> e(i)] \in Seq(T)
  BY <1>2, IsASeq
<1>3. \A k \in 1..Filled : slot[Arrays][k - 1] \in 0..calls
  BY <1>1
<1>4. \A k \in 1..Max : slot[Arrays][Oldest(Filled, k)] \in 0..calls
  <2> TAKE k \in 1..Max
  <2>1. Oldest(Filled, k) \in 0..Max-1
    BY DEF Oldest
  <2> QED
    BY <1>1, <2>1
<1>5. [k \in 1..Filled |-> slot[Arrays][k - 1]] \in Seq(0..calls)
  <2>1. Filled \in Nat
    OBVIOUS
  <2> QED
    BY <1>2, <1>3, <2>1
<1>6. [k \in 1..Max |-> slot[Arrays][Oldest(Filled, k)]] \in Seq(0..calls)
  BY <1>2, <1>4
<1> QED
  BY <1>5, <1>6, WindowIs

(* Storing in the last array is a record of the log ... *)
LEMMA StoreIsRecord ==
  ASSUME TypeOK, LoneInv, NEW c \in Callers, StoreSample(c), arr[c] = Arrays, Lone,
         LoneCount(c), Filled = reg[c], Filled' = reg[c] + 1, Wrapped' <=> Wrapped
  PROVE  Log!Next
<1> USE RingAssumption
<1> DEFINE r == reg[c]
           s == mine[c]
           row == slot[Arrays]
<1>1. r \in Nat /\ r < Max /\ Max \in Nat /\ pc[c] = "store"
  BY DEF StoreSample, LoneCount, TypeOK
<1>2. s \in 1..MaxCalls /\ s \in 0..calls /\ calls' = calls
  <2>1. s \in 0..calls /\ s # 0 /\ calls \in 0..MaxCalls
    BY <1>1 DEF TypeOK
  <2> QED
    BY <2>1 DEF StoreSample
<1>3. row \in [0..Max-1 -> 0..calls]
  BY DEF TypeOK
<1>4. slot'[Arrays] = [row EXCEPT ![r] = s]
  <2>1. slot' = [slot EXCEPT ![Arrays][r] = s]
    BY <1>1 DEF StoreSample
  <2>2. Arrays \in 1..Arrays
    OBVIOUS
  <2> QED
    BY <2>1, <2>2 DEF TypeOK
<1>5. /\ Filled \in 0..Max
      /\ (Filled \in 0..Max)'
  BY <1>1
<1>6. TypeOK'
  <2>1. Record(c)
    BY DEF Record
  <2> QED
    BY <2>1, TypeStep DEF Next
<1>7. Window \in Seq(0..calls)
  BY <1>5, WindowType
<1>8. (Window \in Seq(0..calls))'
  BY <1>5, <1>6, WindowType, PTL
<1>9. Window' \in Seq(0..calls)
  BY <1>2, <1>8
<1>10. /\ Wrapped => /\ Window = [k \in 1..Max |-> row[Oldest(r, k)]]
                     /\ Len(Window) = Max
       /\ ~Wrapped => /\ Window = [k \in 1..r |-> row[k - 1]]
                      /\ Len(Window) = r
  BY <1>1, <1>5, WindowIs
<1>11. (/\ Wrapped => /\ Window = [k \in 1..Max |-> slot[Arrays][Oldest(Filled, k)]]
                      /\ Len(Window) = Max
        /\ ~Wrapped => /\ Window = [k \in 1..Filled |-> slot[Arrays][k - 1]]
                       /\ Len(Window) = Filled)'
  BY <1>5, WindowIs, PTL
<1>12. CASE ~Wrapped
  <2>1. Window' = [k \in 1..(r + 1) |-> slot'[Arrays][k - 1]] /\ Len(Window') = r + 1
    BY <1>11, <1>12
  <2>2. Window = [k \in 1..r |-> row[k - 1]] /\ Len(Window) = r
    BY <1>10, <1>12
  <2>3. Window'[r + 1] = s
    BY <1>1, <1>3, <1>4, <2>1
  <2>4. \A k \in 1..r : Window'[k] = Window[k]
    BY <1>1, <1>3, <1>4, <2>1, <2>2
  <2>5. Window' = Append(Window, s)
    <3> DEFINE u == Window
               w == Window'
    <3>1. Len(w) = Len(u) + 1 /\ w[Len(w)] = s /\ \A k \in 1..Len(u) : w[k] = u[k]
      BY <2>1, <2>2, <2>3, <2>4
    <3>2. u \in Seq(0..calls) /\ w \in Seq(0..calls)
      BY <1>7, <1>9
    <3> HIDE DEF u, w
    <3>3. w = Append(u, s)
      BY <1>2, <3>1, <3>2, AppendIs
    <3> QED
      BY <3>3 DEF u, w
  <2>6. Log!Record(s)
    BY <1>1, <2>2, <2>5 DEF Log!Record
  <2> QED
    BY <1>2, <2>6 DEF Log!Next
<1>13. CASE Wrapped
  <2>1. Window' = [k \in 1..Max |-> slot'[Arrays][Oldest(r + 1, k)]] /\ Len(Window') = Max
    BY <1>11, <1>13 DEF Oldest
  <2>2. Window = [k \in 1..Max |-> row[Oldest(r, k)]] /\ Len(Window) = Max
    BY <1>10, <1>13
  <2>3. /\ Tail(Window) \in Seq(0..calls) /\ Len(Tail(Window)) = Max - 1
        /\ \A k \in 1..Max-1 : Tail(Window)[k] = Window[k + 1]
    BY <1>1, <1>7, <2>2, TailOf
  <2>4. Window'[Max] = s
    <3>1. Oldest(r + 1, Max) = r
      BY <1>1 DEF Oldest
    <3> QED
      BY <1>1, <1>3, <1>4, <2>1, <3>1
  <2>5. ASSUME NEW k \in 1..Max-1 PROVE Window'[k] = Tail(Window)[k]
    <3>1. /\ Oldest(r + 1, k) = Oldest(r, k + 1)
          /\ Oldest(r, k + 1) \in 0..Max-1 /\ Oldest(r, k + 1) # r
      BY <1>1 DEF Oldest
    <3>2. Window'[k] = slot'[Arrays][Oldest(r, k + 1)]
      BY <2>1, <3>1
    <3>3. Tail(Window)[k] = row[Oldest(r, k + 1)]
      BY <1>1, <2>2, <2>3
    <3> QED
      BY <1>3, <1>4, <3>1, <3>2, <3>3
  <2>6. Window' = Append(Tail(Window), s)
    <3> DEFINE t == Tail(Window)
               w == Window'
    <3>1. Len(w) = Len(t) + 1 /\ w[Len(w)] = s /\ Len(t) = Max - 1
      BY <1>1, <2>1, <2>3, <2>4
    <3>2. \A k \in 1..Len(t) : w[k] = t[k]
      BY <2>5, <3>1
    <3>3. t \in Seq(0..calls) /\ w \in Seq(0..calls)
      BY <1>9, <2>3
    <3> HIDE DEF t, w
    <3>4. w = Append(t, s)
      BY <1>2, <3>1, <3>2, <3>3, AppendIs
    <3> QED
      BY <3>4 DEF t, w
  <2>7. Log!Record(s)
    <3>1. ~(Len(Window) < Max)
      BY <1>1, <2>2
    <3> QED
      BY <2>6, <3>1 DEF Log!Record
  <2> QED
    BY <1>2, <2>7 DEF Log!Next
<1> QED
  BY <1>12, <1>13

(* ... and every other step of a thread that is alone leaves the window. *)
LEMMA OtherStepsStutter ==
  ASSUME TypeOK, LoneInv, NEW c \in Callers, Record(c), ~(StoreSample(c) /\ arr[c] = Arrays),
         mine[c] # 0 => LoneCount(c), LoneCount(c)', count <= Max,
         Filled = IF pc[c] = "store" THEN reg[c] ELSE count,
         Filled' = IF pc'[c] = "store" THEN reg'[c] ELSE count',
         Wrapped <=> flag \/ pc[c] = "flag",
         Wrapped' <=> flag' \/ pc'[c] = "flag"
  PROVE  Window' = Window
<1> USE RingAssumption
<1>1. /\ count \in Nat /\ reg[c] \in Nat /\ arr[c] \in 1..Arrays /\ Max \in Nat
      /\ Arrays \in Nat
      /\ slot[Arrays] \in [0..Max-1 -> 0..calls]
  BY DEF TypeOK
<1>2. slot'[Arrays] = slot[Arrays]
  <2>1. CASE StoreSample(c)
    <3>1. slot' = slot \/ slot' = [slot EXCEPT ![arr[c]][reg[c]] = mine[c]]
      BY <2>1 DEF StoreSample
    <3>2. arr[c] # Arrays
      BY <2>1
    <3> QED
      BY <3>1, <3>2, <1>1 DEF TypeOK
  <2>2. CASE ~StoreSample(c)
    BY <2>2 DEF Record, Begin, LoadCount, BumpCount, CheckFull, SetFlag, ResetCount, local
  <2> QED
    BY <2>1, <2>2
<1>3. ASSUME Filled' = Filled, Wrapped' <=> Wrapped PROVE Window' = Window
  BY <1>2, <1>3 DEF Window
<1>4. CASE Begin(c)
  BY <1>3, <1>4 DEF Begin, Goto, TypeOK
<1>5. CASE LoadCount(c)
  BY <1>3, <1>5 DEF LoadCount, Goto, TypeOK
<1>6. CASE BumpCount(c)
  <2>1. mine[c] # 0 /\ pc[c] = "bump" /\ pc'[c] = "store" /\ reg' = reg /\ flag' = flag
    BY <1>6 DEF BumpCount, Goto, local, TypeOK
  <2>2. reg[c] = count
    BY <2>1 DEF LoneCount
  <2> QED
    BY <1>3, <2>1, <2>2
<1>7. CASE StoreSample(c)
  <2>0. arr[c] < Arrays /\ arr[c] # Arrays
    BY <1>1, <1>7
  <2>1. /\ mine[c] # 0 /\ pc[c] = "store" /\ pc'[c] = "load" /\ count' = count /\ flag' = flag
        /\ arr[c] < Arrays
    BY <2>0, <1>7 DEF StoreSample, NextArray, Goto, TypeOK
  <2>2. reg[c] = count
    BY <2>1 DEF LoneCount
  <2> QED
    BY <1>3, <2>1, <2>2
<1>8. ASSUME Filled = Max, ~Wrapped, Wrapped', Filled' \in {0, Max} PROVE Window' = Window
  <2>1. Window = [k \in 1..Max |-> slot[Arrays][k - 1]]
    BY <1>8 DEF Window
  <2>2. Window' = [k \in 1..Max |-> slot[Arrays][IF k <= Max - Filled' THEN Filled' + k - 1
                                                ELSE Filled' + k - 1 - Max]]
    BY <1>2, <1>8 DEF Window
  <2>3. \A k \in 1..Max : (IF k <= Max - Filled' THEN Filled' + k - 1
                                                ELSE Filled' + k - 1 - Max) = k - 1
    BY <1>1, <1>8
  <2> QED
    BY <2>1, <2>2, <2>3
<1>9. ASSUME Filled = Max, Wrapped, Wrapped', Filled' = 0 PROVE Window' = Window
  <2>1. Window = [k \in 1..Max |-> slot[Arrays][k - 1]]
    <3>1. \A k \in 1..Max : (IF k <= Max - Filled THEN Filled + k - 1
                                                ELSE Filled + k - 1 - Max) = k - 1
      BY <1>1, <1>9
    <3>2. Window = [k \in 1..Max |-> slot[Arrays][IF k <= Max - Filled THEN Filled + k - 1
                                                ELSE Filled + k - 1 - Max]]
      BY <1>9 DEF Window
    <3> QED
      BY <3>1, <3>2
  <2>2. Window' = [k \in 1..Max |-> slot[Arrays][IF k <= Max - 0 THEN 0 + k - 1
                                                ELSE 0 + k - 1 - Max]]
    BY <1>2, <1>9 DEF Window
  <2>3. \A k \in 1..Max : (IF k <= Max - 0 THEN 0 + k - 1 ELSE 0 + k - 1 - Max) = k - 1
    BY <1>1
  <2> QED
    BY <2>1, <2>2, <2>3
<1>10. CASE CheckFull(c)
  <2>1. /\ pc[c] = "check" /\ count' = count /\ flag' = flag
        /\ pc'[c] \in {"idle", "flag", "reset"}
        /\ pc'[c] = "flag" => count = Max
    BY <1>10 DEF CheckFull, Full, Goto, local, TypeOK
  <2>2. Filled = count /\ Filled' = count /\ (Wrapped <=> flag)
    BY <2>1
  <2>3. CASE Wrapped' <=> Wrapped
    BY <1>3, <2>2, <2>3
  <2>4. CASE ~(Wrapped' <=> Wrapped)
    BY <1>8, <2>1, <2>2, <2>4
  <2> QED
    BY <2>3, <2>4
<1>11. CASE SetFlag(c)
  <2>1. pc[c] = "flag" /\ count' = count /\ flag' = TRUE /\ pc'[c] \in {"reset", "idle"}
    BY <1>11 DEF SetFlag, Goto, local, TypeOK
  <2> QED
    BY <1>3, <2>1
<1>12. CASE ResetCount(c)
  <2>1. /\ pc[c] = "reset" /\ mine[c] # 0 /\ count' = 0 /\ flag' = flag
        /\ pc'[c] = IF FlagFirst THEN "idle" ELSE "flag"
    BY <1>12 DEF ResetCount, Goto, local, TypeOK, LoneInv
  <2>2. count = Max /\ (FlagFirst => flag)
    BY <2>1 DEF LoneCount
  <2>3. Filled = Max /\ Filled' = 0 /\ Wrapped' /\ (Wrapped <=> flag)
    BY <2>1, <2>2
  <2> QED
    BY <1>8, <1>9, <2>3
<1> QED
  BY <1>4, <1>5, <1>6, <1>7, <1>10, <1>11, <1>12 DEF Record

LEMMA LogStep == TypeOK /\ LoneInv /\ TypeOK' /\ LoneInv' /\ [Next]_vars
                   => [Lone' => [Log!Next]_Window]_vars
<1> SUFFICES ASSUME TypeOK, LoneInv, TypeOK', LoneInv', Lone', NEW c \in Callers, Record(c)
             PROVE  [Log!Next]_Window
  BY DEF Next, AllRecorded
<1>1. Lone /\ \A d \in Callers : d # c => mine[d] = 0 /\ mine'[d] = 0 /\ pc[d] = "idle"
  BY LoneBefore
<1>2. \A d \in Callers : d # c => pc[d] = "idle"
  BY <1>1
<1>3. \A d \in Callers : d # c => pc'[d] = "idle"
  BY <1>1, OthersStay
<1>4. /\ Filled = IF pc[c] = "store" THEN reg[c] ELSE count
      /\ Wrapped <=> flag \/ pc[c] = "flag"
  BY <1>2, LoneWindow
<1>5. (/\ Filled = IF pc[c] = "store" THEN reg[c] ELSE count
       /\ Wrapped <=> flag \/ pc[c] = "flag")'
  <2>1. pc'[c] = "store" => Storing' = {c}
    BY <1>3 DEF Storing
  <2>2. pc'[c] # "store" => Storing' = {}
    BY <1>3 DEF Storing
  <2>3. Filled' = IF pc'[c] = "store" THEN reg'[c] ELSE count'
    BY <2>1, <2>2 DEF Filled
  <2> QED
    BY <1>3, <2>3 DEF Wrapped
<1>6. (mine[c] # 0 => LoneCount(c)) /\ LoneCount(c)' /\ count <= Max
  <2>1. LoneCount(c)'
    BY LoneAction
  <2> QED
    BY <1>1, <2>1 DEF LoneInv
<1>7. CASE StoreSample(c) /\ arr[c] = Arrays
  <2>1. /\ pc[c] = "store" /\ pc'[c] = "check" /\ count' = count /\ flag' = flag
        /\ mine[c] # 0
    BY <1>7 DEF StoreSample, NextArray, Goto, TypeOK
  <2>2. LoneCount(c) /\ count = reg[c] + 1
    BY <1>6, <1>7, <2>1 DEF LoneCount
  <2>3. Filled = reg[c] /\ Filled' = reg[c] + 1 /\ (Wrapped' <=> Wrapped)
    BY <1>4, <1>5, <2>1, <2>2
  <2> QED
    BY <1>1, <1>7, <2>2, <2>3, StoreIsRecord
<1>8. CASE ~(StoreSample(c) /\ arr[c] = Arrays)
  BY <1>4, <1>5, <1>6, <1>8, OtherStepsStutter
<1> QED
  BY <1>7, <1>8

LEMMA LogInit == Init => Log!Init
<1> SUFFICES ASSUME Init PROVE Window = << >>
  BY DEF Log!Init
<1>1. Storing = {} /\ count = 0 /\ ~Wrapped
  BY DEF Init, Storing, Wrapped
<1>2. Filled = 0
  BY <1>1 DEF Filled
<1>3. Window = [k \in 1..0 |-> slot[Arrays][k - 1]]
  BY <1>1, <1>2 DEF Window
<1> QED
  BY <1>3

(* As long as one thread calls a wrapper, its arrays, count and flag implement
   the log of the last Max samples. *)
THEOREM RingImplementsLog == Spec => ImplementsLog
BY LogInit, LogStep, LoneHolds, PTL DEF Spec, ImplementsLog
=============================================================================
