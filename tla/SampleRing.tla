----------------------------- MODULE SampleRing ------------------------------
(***************************************************************************)
(* The recorder every measuring wrapper of libc/ and posix/ ends with:     *)
(*                                                                         *)
(*     xxx_time[xxx_count++] = (INT)(end - start);                         *)
(*     if (xxx_count == MAX_XXX) { xxx_flag = 1; xxx_count = 0; }          *)
(*                                                                         *)
(* The arrays, the count and the flag are globals without a lock or        *)
(* atomics, and the worker threads of fsbench.c call the wrappers at the   *)
(* same time.  The Makefile passes no -O option, so each access of a       *)
(* global is one load or one store in program order; every one of them is  *)
(* an action here.                                                         *)
(*                                                                         *)
(* sys_file_fsync fills three arrays with one count: it loads the count    *)
(* anew for each array and increments it with the last.  Arrays is the     *)
(* number of arrays the wrapper fills: 3 for sys_file_fsync, 1 otherwise.  *)
(*                                                                         *)
(* A sample is the number of its call, in the order in which the calls     *)
(* start recording; 0 stands for the initial contents of the array, which  *)
(* is no sample.                                                           *)
(***************************************************************************)
EXTENDS Integers, FiniteSets, Sequences

CONSTANTS Callers,    \* threads that call the wrapper
          Max,        \* MAX_FOPEN ... MAX_SYNC, MAX_FILENUM
          Arrays,     \* arrays filled by one call
          FlagFirst,  \* libc/ sets the flag and then resets the count; posix/
                      \* does it the other way round
          MaxCalls    \* bound on the calls of a behaviour

ASSUME RingAssumption ==
    /\ IsFiniteSet(Callers) /\ Callers # {}
    /\ Max \in Nat \ {0}
    /\ Arrays \in Nat \ {0}
    /\ FlagFirst \in BOOLEAN
    /\ MaxCalls \in Nat

VARIABLES count,   \* xxx_count
          flag,    \* xxx_flag
          slot,    \* slot[a][i]: element i of array a
          spill,   \* stores past the end of an array: <<array, index, sample>>
          calls,   \* calls that have started to record
          pc,      \* what each caller does next
          reg,     \* the register each caller loaded the count into
          arr,     \* the array each caller is filling
          mine     \* the sample each caller is recording

vars == <<count, flag, slot, spill, calls, pc, reg, arr, mine>>
local == <<reg, arr, mine>>

Labels == {"idle", "load", "bump", "store", "check", "flag", "reset"}

Init ==
    /\ count = 0
    /\ flag = FALSE
    /\ slot = [a \in 1..Arrays |-> [i \in 0..Max-1 |-> 0]]
    /\ spill = {}
    /\ calls = 0
    /\ pc = [c \in Callers |-> "idle"]
    /\ reg = [c \in Callers |-> 0]
    /\ arr = [c \in Callers |-> 1]
    /\ mine = [c \in Callers |-> 0]

Goto(c, l) == pc' = [pc EXCEPT ![c] = l]

(* The operators marked "mutant" are plausible mistakes in the definition they
   precede; no specification uses them. *)

(* mutant: the flag goes up one element early *)
FullEarly == count = Max - 1
(* xxx_count == MAX_XXX *)
Full == count = Max

(* The timed call has returned and its recorder starts with the first array. *)
Begin(c) ==
    /\ pc[c] = "idle"
    /\ calls < MaxCalls
    /\ calls' = calls + 1
    /\ mine' = [mine EXCEPT ![c] = calls + 1]
    /\ arr' = [arr EXCEPT ![c] = 1]
    /\ Goto(c, "load")
    /\ UNCHANGED <<count, flag, slot, spill, reg>>

(* mutant: the first array takes the increment, not the last *)
LoadCountFirst(c) ==
    /\ pc[c] = "load"
    /\ reg' = [reg EXCEPT ![c] = count]
    /\ Goto(c, IF arr[c] = 1 THEN "bump" ELSE "store")
    /\ UNCHANGED <<count, flag, slot, spill, calls, arr, mine>>
(* The count is loaded as the index of the array. *)
LoadCount(c) ==
    /\ pc[c] = "load"
    /\ reg' = [reg EXCEPT ![c] = count]
    /\ Goto(c, IF arr[c] = Arrays THEN "bump" ELSE "store")
    /\ UNCHANGED <<count, flag, slot, spill, calls, arr, mine>>

(* mutant: ++xxx_count *)
BumpCountFirst(c) ==
    /\ pc[c] = "bump"
    /\ count' = reg[c] + 1
    /\ reg' = [reg EXCEPT ![c] = @ + 1]
    /\ Goto(c, "store")
    /\ UNCHANGED <<flag, slot, spill, calls, arr, mine>>
(* xxx_count++ : the loaded value plus one is stored before the element is. *)
BumpCount(c) ==
    /\ pc[c] = "bump"
    /\ count' = reg[c] + 1
    /\ Goto(c, "store")
    /\ UNCHANGED <<flag, slot, spill, calls, local>>

(* mutant: one array too many *)
NextArrayPastLast(c) ==
    IF arr[c] = Arrays + 1
      THEN Goto(c, "check") /\ UNCHANGED arr
      ELSE Goto(c, "load") /\ arr' = [arr EXCEPT ![c] = @ + 1]
(* After an array but the last the next one is filled. *)
NextArray(c) ==
    IF arr[c] = Arrays
      THEN Goto(c, "check") /\ UNCHANGED arr
      ELSE Goto(c, "load") /\ arr' = [arr EXCEPT ![c] = @ + 1]

(* xxx_time[index] = end - start, wherever the index points. *)
StoreSample(c) ==
    /\ pc[c] = "store"
    /\ IF reg[c] < Max
         THEN /\ slot' = [slot EXCEPT ![arr[c]][reg[c]] = mine[c]]
              /\ UNCHANGED spill
         ELSE /\ spill' = spill \cup {<<arr[c], reg[c], mine[c]>>}
              /\ UNCHANGED slot
    /\ NextArray(c)
    /\ UNCHANGED <<count, flag, calls, reg, mine>>

(* if (xxx_count == MAX_XXX), on the count as it is now. *)
CheckFull(c) ==
    /\ pc[c] = "check"
    /\ Goto(c, IF ~Full THEN "idle"
               ELSE IF FlagFirst THEN "flag" ELSE "reset")
    /\ UNCHANGED <<count, flag, slot, spill, calls, local>>

SetFlag(c) ==
    /\ pc[c] = "flag"
    /\ flag' = TRUE
    /\ Goto(c, IF FlagFirst THEN "reset" ELSE "idle")
    /\ UNCHANGED <<count, slot, spill, calls, local>>

ResetCount(c) ==
    /\ pc[c] = "reset"
    /\ count' = 0
    /\ Goto(c, IF FlagFirst THEN "idle" ELSE "flag")
    /\ UNCHANGED <<flag, slot, spill, calls, local>>

Record(c) ==
    \/ Begin(c)
    \/ LoadCount(c)
    \/ BumpCount(c)
    \/ StoreSample(c)
    \/ CheckFull(c)
    \/ SetFlag(c)
    \/ ResetCount(c)

Quiet == \A c \in Callers : pc[c] = "idle"

(* The bound is reached and nobody records any more. *)
AllRecorded == calls = MaxCalls /\ Quiet /\ UNCHANGED vars

Next == (\E c \in Callers : Record(c)) \/ AllRecorded

Spec == Init /\ [][Next]_vars

-----------------------------------------------------------------------------
(* How many elements a bench and the CSV writer read. *)
BenchLen == IF flag THEN Max ELSE count

Written(a, i) == IF i < Max THEN slot[a][i] # 0
                            ELSE \E s \in 1..calls : <<a, i, s>> \in spill

-----------------------------------------------------------------------------
(* Type invariant. *)
TypeOK ==
    /\ count \in Nat
    /\ flag \in BOOLEAN
    /\ calls \in 0..MaxCalls
    /\ slot \in [1..Arrays -> [0..Max-1 -> 0..calls]]
    /\ spill \in SUBSET ((1..Arrays) \X Nat \X (1..calls))
    /\ pc \in [Callers -> Labels]
    /\ reg \in [Callers -> Nat]
    /\ arr \in [Callers -> 1..Arrays]
    /\ mine \in [Callers -> 0..calls]
    /\ \A c \in Callers :
          /\ pc[c] \in {"load", "store", "bump"} => mine[c] # 0
          /\ pc[c] \in {"bump", "check", "flag", "reset"} => arr[c] = Arrays

(* Once the callers are quiet, every element a bench averages was recorded by
   a call, however the unlocked increments interleaved: lost updates shorten
   the count and never make the bench read an element nobody wrote.  This is
   about the array that is indexed by xxx_count++, the only one of a wrapper
   other than sys_file_fsync. *)
NoPhantomSample ==
    Quiet => \A i \in 0..BenchLen-1 : Written(Arrays, i)

(* One thread at most has called the wrapper so far: a single job, or an API
   that only main calls. *)
Lone == \A c, d \in Callers : mine[c] # 0 /\ mine[d] # 0 => c = d

(* As long as one thread calls the wrapper, the same holds of every array a
   call fills: the fflush and fileno rows of the CSV file, too, hold only times
   that were measured (ReadMe.md:32). *)
NoPhantomInAnyArray ==
    Quiet /\ Lone => \A a \in 1..Arrays, i \in 0..BenchLen-1 : Written(a, i)

(* ... and the three times with one index in the CSV rows fflush, fileno and
   fsync belong to one call of sys_file_fsync. *)
RowsAligned ==
    Quiet /\ Lone => \A a \in 1..Arrays, i \in 0..Max-1 :
                       slot[a][i] = slot[Arrays][i]

(* Max is the most a test may record (ReadMe.md:56): no store leaves the
   array. *)
StaysInArray == spill = {}

(* What is true of the claim above: a wrapper called by a single thread, or
   fewer than Max + 1 times in all, never stores outside its array. *)
StaysInArrayIfSafe == Lone \/ calls <= Max => StaysInArray

-----------------------------------------------------------------------------
(* As long as one thread calls the wrapper the ring implements SampleLog.  The
   abstract record happens when the element is stored; until then the oldest
   of a full window is still in place. *)
Storing == {c \in Callers : pc[c] = "store"}
Filled == IF Storing = {} THEN count ELSE reg[CHOOSE c \in Storing : TRUE]
Wrapped == flag \/ \E c \in Callers : pc[c] = "flag"

Window ==
    LET row == slot[Arrays]
    IN IF Wrapped
         THEN [k \in 1..Max |-> row[IF k <= Max - Filled THEN Filled + k - 1
                                    ELSE Filled + k - 1 - Max]]
         ELSE [k \in 1..Filled |-> row[k - 1]]

Log == INSTANCE SampleLog WITH Capacity <- Max, window <- Window, Samples <- 1..MaxCalls

(* A wrapper called by one thread keeps the last Max samples in the order of
   the calls: up to the first call of a second thread every step of the
   recorder is a step of the log. *)
ImplementsLog == Log!Init /\ [][Lone' => [Log!Next]_Window]_vars

(* ... and between two calls a bench reads as many elements as that. *)
BenchReadsWindow == Quiet /\ Lone => BenchLen = Len(Window)
=============================================================================
