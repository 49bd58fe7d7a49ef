------------------------------ MODULE Reports --------------------------------
(***************************************************************************)
(* The samples after the wrappers took them: the rows of the CSV file      *)
(* (sys_libc_gencsv, sys_posix_gencsv) and the reports of the benches,     *)
(* each of which sorts the array it reports on in place (sys_bubble_sort). *)
(* Main is the only thread by then.                                        *)
(*                                                                         *)
(* How the samples got there depends on -j.  A job that is alone records   *)
(* one call after another, as main does.  With more jobs the wrappers they *)
(* call race: SampleRing has every load and store of that; here racing is  *)
(* the choice of -j, and a racing call is one action that leaves what the  *)
(* loads and stores may leave once all callers are through.                *)
(*                                                                         *)
(* The arrays of libc/ and posix/ are initialised globals and lie behind   *)
(* one another in .data in the order of their definitions; the counts and  *)
(* flags are 0 and lie in .bss.  mem is that part of .data, an element a   *)
(* cell, since a bench may take a length that its array does not have, and *)
(* racing calls may store behind the end of theirs.                        *)
(***************************************************************************)
EXTENDS Integers, Sequences, SequencesExt

CONSTANTS MaxApi,          \* MAX_FOPEN ... MAX_FSTAT, MAX_SYNC: 64*1024
          MaxFile,      \* MAX_FILENUM: 20000
          Times,        \* the times a call may take, in ms
          SyncTimes,    \* the times fflush, fileno and fsync may take
          Garbage,      \* what an uninitialised sum may hold
          MaxRecords    \* bound on the recorded calls

ASSUME ReportsAssumption ==
    /\ MaxApi \in Nat /\ MaxFile \in Nat
    /\ 1 < MaxFile /\ MaxFile < MaxApi
    /\ Times \subseteq Int /\ SyncTimes \subseteq Int \X Int \X Int
    /\ Garbage \subseteq Int
    /\ MaxRecords \in Nat

(* Where each array begins in mem. *)
Base == [fopen  |-> 0,       fclose |-> MaxApi,     fread  |-> 2 * MaxApi,
         fwrite |-> 3 * MaxApi, fflush |-> 4 * MaxApi, fileno |-> 5 * MaxApi,
         fsync  |-> 6 * MaxApi, fstat  |-> 7 * MaxApi, access |-> 8 * MaxApi,
         unlink |-> 8 * MaxApi + MaxFile,
         sync   |-> 8 * MaxApi + 2 * MaxFile,
         rename |-> 9 * MaxApi + 2 * MaxFile]
Rows == DOMAIN Base
Cells == 0 .. 9 * MaxApi + 3 * MaxFile - 1

(* The three arrays of sys_file_fsync share a count and a flag. *)
SyncRows == <<"fflush", "fileno", "fsync">>
Apis == Rows \ {"fflush", "fileno"}
CountOf(r) == IF r \in ToSet(SyncRows) THEN "fsync" ELSE r
(* What Testlibc_func calls; the others only main calls. *)
JobApis == {"fopen", "fclose", "fread", "fwrite", "fsync", "sync"}
Size(r) == IF r \in {"access", "unlink", "rename"} THEN MaxFile ELSE MaxApi

VARIABLES mem,      \* the arrays
          count,    \* xxx_count
          flag,     \* xxx_flag
          csv,      \* the rows of the CSV file; none before it is written
          report,   \* BENCH_REPORT_T: a report for every array
          step,     \* the step of main, and the arrays it has still to bench
          todo,
          racing,   \* main was told to start more than one job
          taken,    \* every sample in the order it was taken, and those an
          seen      \* array had when its bench ran: no variables of the
                    \* program, the properties compare with them

vars == <<mem, count, flag, csv, report, step, todo, racing, taken, seen>>

NoReport == [min |-> 0, max |-> 0, avg |-> 0, count |-> 0]

(* INT xxx_time[MAX_XXX] = {-1}: the first element is -1, the others are 0. *)
Init ==
    /\ mem = [c \in Cells |-> IF \E r \in Rows : c = Base[r] THEN -1 ELSE 0]
    /\ count = [a \in Apis |-> 0]
    /\ flag = [a \in Apis |-> FALSE]
    /\ csv = << >>
    /\ report = [r \in Rows |-> NoReport]
    /\ step = "work" /\ todo = << >>
    /\ racing \in BOOLEAN
    /\ taken = [r \in Rows |-> << >>]
    /\ seen = [r \in Rows |-> << >>]

(* The arrays that several threads fill at once. *)
Raced(r) == racing /\ CountOf(r) \in JobApis

-----------------------------------------------------------------------------
(* Recording.  At most MaxRecords calls are recorded in one behaviour, but for
   those of the last entry of the unlink scan. *)

MayRecord ==
    MaxRecords > FoldSet(LAMBDA a, n : n + Len(taken[a]), 0, Apis)

(* The samples t of one call are stored at the elements at of their arrays,
   behind their end if that is where at points.  Of two that hit one cell the
   later one stays: the arrays are filled in their order. *)
Store(t, at) ==
    LET hit(c) == {r \in DOMAIN t : Base[r] + at[r] = c}
        last(c) == CHOOSE r \in hit(c) : \A q \in hit(c) : Base[q] <= Base[r]
    IN /\ mem' = [c \in Cells |-> IF hit(c) = {} THEN mem[c] ELSE t[last(c)]]
       /\ taken' = [r \in Rows |-> IF r \in DOMAIN t THEN Append(taken[r], t[r])
                                                     ELSE taken[r]]
       /\ UNCHANGED <<csv, report, step, todo, racing, seen>>

(* mutant: the test comes before the increment *)
FillsLate(a) == count[a] = Size(a)
(* The sample that is stored is the last that fits. *)
Fills(a) == count[a] + 1 = Size(a)

(* A call of a wrapper that one thread alone calls. *)
Record(t) ==
    LET fills(a) == a \in {CountOf(r) : r \in DOMAIN t} /\ Fills(a)
    IN /\ Store(t, [r \in DOMAIN t |-> count[CountOf(r)]])
       /\ count' = [a \in Apis |->
                       IF fills(a) THEN 0
                       ELSE IF a \in {CountOf(r) : r \in DOMAIN t} THEN count[a] + 1
                       ELSE count[a]]
       /\ flag' = [a \in Apis |-> flag[a] \/ fills(a)]

(* A call of a wrapper that other threads are in, too.  The index may have been
   loaded before others incremented the count, whose increments the one of
   this call then undoes; after a reset it may come from before the reset, and
   is then only less than the number of calls.  The first two loads of
   sys_file_fsync are anywhere below that.  A caller that has found the count at
   MAX may reset it at any time.  No store goes behind the last of the arrays:
   what lies there is not modelled. *)
RaceRecord(a, t) ==
    \E at \in [DOMAIN t -> 0..Len(taken[a])] :
       /\ ~flag[a] => at[a] <= count[a]
       /\ \A r \in DOMAIN t : Base[r] + at[r] \in Cells
       /\ Store(t, at)
       /\ \E n \in {at[a] + 1} \cup {k \in {0} : flag[a]} :
             count' = [count EXCEPT ![a] = n]
       /\ UNCHANGED flag

OneTime(a, ms) == [r \in {a} |-> ms]
SyncTime(ms) == [fflush |-> ms[1], fileno |-> ms[2], fsync |-> ms[3]]

(* Up to the rename scan: the umount and mkdir of step 1 record accesses, the
   job, if it is one, and the scan the rest. *)
Work ==
    /\ step = "work" /\ MayRecord
    /\ \/ \E a \in Apis \ {"fsync", "unlink"}, ms \in Times :
             ~Raced(a) /\ Record(OneTime(a, ms))
       \/ \E ms \in SyncTimes : ~racing /\ Record(SyncTime(ms))

(* A call of one of several jobs. *)
Race ==
    /\ step = "work" /\ racing /\ MayRecord
    /\ \/ \E a \in JobApis \ {"fsync"}, ms \in Times : RaceRecord(a, OneTime(a, ms))
       \/ \E ms \in SyncTimes : RaceRecord("fsync", SyncTime(ms))

(* The caller that brought the count to MAX still finds it there; if another
   one has incremented it before, none does, and it goes on rising. *)
FindFull(a) ==
    /\ step = "work" /\ Raced(a) /\ count[a] = Size(a)
    /\ count' = [count EXCEPT ![a] = 0]
    /\ flag' = [flag EXCEPT ![a] = TRUE]
    /\ UNCHANGED <<mem, csv, report, step, todo, racing, taken, seen>>

(* An entry of the unlink scan: its fstat is recorded by the scan itself
   (libc/sys_libc_file.c:549), if it is one to remove its access, and its unlink
   if that succeeds. *)
Rm ==
    /\ step = "clean" /\ MayRecord
    /\ \E st, ms, ms2 \in Times :
          \/ Record(OneTime("fstat", st))
          \/ Record([fstat |-> st, access |-> ms])
          \/ Record([fstat |-> st, access |-> ms, unlink |-> ms2])

-----------------------------------------------------------------------------
(* The CSV file. *)

(* mutant: the flag is not looked at *)
LengthFull(a, full) == full
(* How many elements count, where a full ring has full of them. *)
Length(a, full) == IF flag[a] THEN full ELSE count[a]

(* mutant: a full ring is written up to its count *)
RowOfCount(r) == [i \in 1..count[CountOf(r)] |-> mem[Base[r] + i - 1]]
(* The row of an array: its samples in the order of the elements. *)
Row(r) == [i \in 1..Length(CountOf(r), Size(r)) |-> mem[Base[r] + i - 1]]

PosixRows == {"access", "unlink", "sync", "rename"}

(* The functions fopen the file anew, the first with "w+", the other with "a+". *)
LibcCsv == [r \in Rows \ PosixRows |-> Row(r)]
PosixCsv(file) ==
    [r \in DOMAIN file \cup PosixRows |-> IF r \in PosixRows THEN Row(r) ELSE file[r]]

(* Main goes on to the benches of step 5, with the CSV file if asked for.  The
   jobs are through: none is still to find its count at MAX.  fsync_bench sorts
   three arrays one after another. *)
EndWork ==
    /\ step = "work" /\ \A a \in Apis : count[a] # Size(a)
    /\ csv' \in {<< >>, PosixCsv(LibcCsv)}
    /\ step' = "step5"
    /\ todo' = <<"rename", "fstat", "fopen", "fclose", "fwrite", "fread",
                 "fflush", "fileno", "fsync", "sync">>
    /\ UNCHANGED <<mem, count, flag, report, racing, taken, seen>>

-----------------------------------------------------------------------------
(* The benches. *)

(* mutant: the swap keeps no copy *)
SwapOverwrites(t, j) == [t EXCEPT ![j] = t[j + 1]]
Swap(t, j) == [t EXCEPT ![j] = t[j + 1], ![j + 1] = t[j]]

(* mutant: the inner loop stops one short *)
BubblePassShort(s, i) ==
    LET at[j \in 0..Len(s)-1-i] ==
          IF j = 0 THEN s
          ELSE LET t == at[j - 1] IN IF t[j] > t[j + 1] THEN Swap(t, j) ELSE t
    IN at[Len(s) - 1 - i]
(* Round i, from 1, of sys_bubble_sort: at[j] has the first j pairs compared. *)
BubblePass(s, i) ==
    LET at[j \in 0..Len(s)-i] ==
          IF j = 0 THEN s
          ELSE LET t == at[j - 1] IN IF t[j] > t[j + 1] THEN Swap(t, j) ELSE t
    IN at[Len(s) - i]

sys_bubble_sort(s) ==
    LET round[i \in 0..Len(s)-1] == IF i = 0 THEN s ELSE BubblePass(round[i - 1], i)
    IN round[Len(s) - 1]

(* Division of C: towards 0. *)
CDiv(a, b) == IF a >= 0 THEN a \div b ELSE -((-a) \div b)

SumOf(s) ==
    LET sum[n \in 0..Len(s)] == IF n = 0 THEN 0 ELSE sum[n - 1] + s[n]
    IN sum[Len(s)]

(* if (len < 2) return; *)
TooFew(len) == len < 2

(* A bench of an array: full is the length it takes for a full ring, sums what
   its sum may start from.  The casts to INT change no mean of times, only one
   that starts from garbage. *)
Bench(r, full, sums) ==
    LET len == Length(CountOf(r), full)
        old == [i \in 1..len |-> mem[Base[r] + i - 1]]
        new == sys_bubble_sort(old)
    IN IF TooFew(len) THEN UNCHANGED <<mem, report>>
       ELSE \E sum \in sums :
              /\ mem' = [c \in Cells |-> IF c \in Base[r] .. Base[r] + len - 1
                                         THEN new[c - Base[r] + 1] ELSE mem[c]]
              /\ report' = [report EXCEPT ![r] =
                               [min |-> new[1], max |-> new[len],
                                avg |-> CDiv(sum + SumOf(old), len), count |-> len]]

rename_bench == Bench("rename", MaxFile, {0})
fstat_bench  == Bench("fstat", MaxApi, {0})
fopen_bench  == Bench("fopen", MaxApi, {0})
fclose_bench == Bench("fclose", MaxApi, {0})
fwrite_bench == Bench("fwrite", MaxApi, {0})
fread_bench  == Bench("fread", MaxApi, {0})
(* fsync_time is sorted before it is summed up, which is the same sum. *)
fsync_bench(r) == Bench(r, MaxApi, {0})
(* The sum of the following three is not initialised, and two of them take
   MAX_SYNC for the length of an array of MAX_FILENUM elements. *)
sync_bench   == Bench("sync", MaxApi, Garbage)
access_bench == Bench("access", MaxApi, Garbage)
unlink_bench == Bench("unlink", MaxApi, Garbage)

RunBench ==
    /\ todo # << >>
    /\ CASE Head(todo) = "rename" -> rename_bench
         [] Head(todo) = "fstat"  -> fstat_bench
         [] Head(todo) = "fopen"  -> fopen_bench
         [] Head(todo) = "fclose" -> fclose_bench
         [] Head(todo) = "fwrite" -> fwrite_bench
         [] Head(todo) = "fread"  -> fread_bench
         [] Head(todo) \in ToSet(SyncRows) -> fsync_bench(Head(todo))
         [] Head(todo) = "sync"   -> sync_bench
         [] Head(todo) = "access" -> access_bench
         [] Head(todo) = "unlink" -> unlink_bench
    /\ todo' = Tail(todo)
    /\ seen' = [seen EXCEPT ![Head(todo)] = taken[Head(todo)]]
    /\ UNCHANGED <<count, flag, csv, step, racing, taken>>

(* After the benches of step 5 comes the unlink scan, then step 6. *)
StartClean ==
    /\ step = "step5" /\ todo = << >>
    /\ step' = "clean"
    /\ UNCHANGED <<mem, count, flag, csv, report, todo, racing, taken, seen>>

EndClean ==
    /\ step = "clean"
    /\ step' = "step6" /\ todo' = <<"access", "unlink">>
    /\ UNCHANGED <<mem, count, flag, csv, report, racing, taken, seen>>

Finished == step = "step6" /\ todo = << >>

Next ==
    \/ Work \/ Race \/ (\E a \in JobApis : FindFull(a))
    \/ EndWork \/ RunBench \/ StartClean \/ Rm \/ EndClean
    \/ Finished /\ UNCHANGED vars

Spec == Init /\ [][Next]_vars

-----------------------------------------------------------------------------
(* Where a ring of the length of r keeps the last of the samples s. *)
Kept(r, s) ==
    LET n == Len(s)
    IN [i \in 1..(IF n < Size(r) THEN n ELSE Size(r)) |->
           s[i + Size(r) * ((n - i) \div Size(r))]]

(* No store has left its array: there is one job, or no API has been called
   more often than its array has elements (StaysInArrayIfSafe of SampleRing). *)
Contained == racing => \A a \in JobApis : Len(taken[a]) <= Size(a)

Values == (UNION {ToSet(taken[r]) : r \in Rows}) \cup {-1, 0}

(* Type invariant.  A count is below MAX unless threads race for it. *)
TypeOK ==
    /\ mem \in [Cells -> Values]
    /\ \A a \in Apis : /\ count[a] \in Nat
                       /\ count[a] > 0 => Base[a] + count[a] - 1 \in Cells
                       /\ ~Raced(a) => count[a] < Size(a)
                       /\ flag[a] \in BOOLEAN
    /\ \A r \in Rows : report[r] = NoReport \/ report[r].count > 1
    /\ step \in {"work", "step5", "clean", "step6"}
    /\ csv = << >> \/ DOMAIN csv = Rows

(* The CSV file holds the last samples of every API, each in its place: no
   bench has sorted them, and no row is cut short or has an element that was
   not recorded (ReadMe.md:32, :83).  Of the APIs that several jobs call at once
   samples may be missing, but none is made up, save in the rows of fflush and
   fileno.  All this as long as no store left its array. *)
CsvHoldsSamples ==
    [][(csv' # csv /\ Contained) =>
          \A r \in Rows :
             /\ ~Raced(r) => csv'[r] = Kept(r, taken[r])
             /\ (Raced(r) /\ r \notin {"fflush", "fileno"}) =>
                   /\ Len(csv'[r]) <= Len(taken[r])
                   /\ ToSet(csv'[r]) \subseteq ToSet(taken[r])]_vars

(* A report is about the samples its own API had by then: their number,
   smallest, largest and, where the sum starts from 0, their mean to less than
   1 ms, although the benches sort the arrays under one another and the unlink
   scan goes on recording.  Of access and unlink this is so as long as access
   has not filled its array.  Of the APIs that several jobs call at once it is
   about some of the samples, those of fflush and fileno excepted.  All this as
   long as no store left its array. *)
ReportsTellSamples ==
    \A r \in Rows :
       LET s == Kept(r, seen[r])
           told == report[r]
       IN ( /\ report[r] # NoReport /\ Contained
            /\ r \in {"access", "unlink"} => ~flag["access"] )
          => /\ ~Raced(r) =>
                   /\ told.count = Len(s)
                   /\ told.min \in ToSet(s) /\ told.max \in ToSet(s)
                   /\ \A t \in ToSet(s) : told.min <= t /\ t <= told.max
                   /\ r \notin {"sync", "access", "unlink"} =>
                         told.avg * Len(s) - SumOf(s) \in (1 - Len(s))..(Len(s) - 1)
             /\ (Raced(r) /\ r \notin {"fflush", "fileno"}) =>
                   /\ told.count <= Len(seen[r])
                   /\ {told.min, told.max} \subseteq ToSet(seen[r])
                   /\ told.min <= told.max

(* Whatever length a bench takes, it loses no sample: the values in memory are
   the same, in another order.  This holds however many jobs race, too. *)
BenchPermutes ==
    [][RunBench => \A v \in Values :
          Cardinality({c \in Cells : mem[c] = v})
            = Cardinality({c \in Cells : mem'[c] = v})]_vars

(* A bench changes no array but its own, unless access or unlink is full: then
   their benches sort the arrays behind them, too; or a store has left its
   array: then the count may be larger than the array. *)
BenchKeepsOthers ==
    [][RunBench => \A r \in Rows :
          (r # Head(todo) /\ ~flag["access"] /\ Contained)
          => \A i \in 0..Size(r)-1 : mem'[Base[r] + i] = mem[Base[r] + i]]_vars
=============================================================================
