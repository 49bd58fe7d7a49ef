# Specifications of fsbench

fsbench measures the file API of an embedded Linux system on a memory card. It mounts the
card, lets up to 64 threads write, sync and read files, renames and removes them in
directory scans, creates and removes thousands of empty files, and reports the minimum,
maximum and mean time of each call and, on request, a CSV file of the times. The modules
here are TLA+ translations of its source; TLC checks them on small instances, and TLAPS
proves the main properties for every value of the constants.

Paths below are relative to the source tree, e.g. `libc/sys_libc_file.c:27` is
`src/libc/sys_libc_file.c`, line 27.

## 1. Inventory

| component | source | state | operations |
|---|---|---|---|
| measuring wrappers | `libc/sys_libc_file.c`, `posix/sys_posix_cmd.c`, `inc/report.h` | per API an array `xxx_time[MAX]`, `xxx_count`, `xxx_flag`, all global and unlocked | fopen, fclose, fread, fwrite, fsync, fstat, rename, access, rm, sync |
| benches and CSV | same files, `common/utils.c` | the arrays (sorted in place), `report` of main | `xxx_bench`, `sys_libc_gencsv`, `sys_posix_gencsv`, `sys_bubble_sort` |
| worker jobs | `fsbench.c:37-71` | `flag[64]`, `threadparam[64]`, streams and loop counters of a thread, the files | open, write, fsync, sync, read, close, raise the flag |
| main | `fsbench.c:126-359` | options, sizes, `taskid[64]`, loop counters | parse, mount, get info, allocate, create, join, poll, scan, CSV, bench, comet test, umount |
| directory scans | `libc/sys_libc_file.c:516-561`, `fsbench.c:73-97` | the directory stream, the directory | opendir, readdir, stat, callback, closedir |
| threads | `thread/sys_pthread.c` | attributes of a thread | create (always detached), join, cancel, priority |
| medium | `medium/sys_medium.c` | what is mounted | check node, mount, umount, get info, format, make part |
| partition tables | `fdisk/*.c` | the table in memory and on disk | read, add, delete, make parts, write |
| others | `common/sys_time.c`, usage, build, `unix/` | none | clock, printing |

How they interact. Main calls every layer directly. The workers and main share three
things without any lock: the sample arrays of the wrappers, the flags, and the mounted
directory. A directory scan calls back into `fsbench.c`, which changes the directory that
is being scanned. Runs of the program share what is mounted at `/tmp/testmmc` and what is
left in its directory.

What is hard, and what must hold:

- *Recorder.* Several threads run `xxx_time[xxx_count++] = t; if (xxx_count == MAX) ...`
  at once. No store may leave the array; a bench must average measured times only; the
  three columns of fsync belong together; with one thread the last MAX samples are kept.
- *Jobs and barrier.* The join of a detached thread does not wait. Main must not scan the
  directory before the jobs are through, must not wait for a job that does not exist, and
  jobs must not write each other's files. Every API can fail on a bad card, which is what
  the program is for.
- *Scans.* Entries are renamed and removed under `readdir`. A scan must end, must not come
  across names that are gone, must remove the test's files and leave the others alone. The
  CSV file must be complete and written before the benches sort the samples.
- *Run.* What is written must fit the medium, whatever its size; option limits must leave
  each file at least one block; interrupted runs must not pile up mounts.
- *Partition tables.* Partitions must lie on the disk and not overlap. Reading must cope
  with any chain of extended partitions (empty links, circles, chains longer than the
  array), and taking empty links out must lose no partition and no memory twice.

`PROJECT.json` lists the hazards line by line.

## 2. Modules

| module | models | checked by | proofs |
|---|---|---|---|
| `SampleLog` | abstract: a log of the last samples, as many as fit | `ring` | |
| `SampleRing` | the recorder of every wrapper | `ring`, `ring_overrun` | `SampleRingProofs` |
| `Jobs` | step 4: main and the worker threads | `jobs`, `jobs_hang`, `jobs_readback` | `JobsProofs` |
| `DirScan` | steps 5, 6 and the comet test | `scan`, `scan_user` | `DirScanProofs` |
| `Session` | steps 1 to 3, the exits, run after run | `session`, `session_size` | `SessionProofs` |
| `Reports` | the benches, the sort and the CSV rows | `reports` | `ReportsProofs` |
| `PartTable` | `fdisk_make_part`, call after call | `parts` | `PartTableProofs` |
| `BootTable` | reading the tables of a disk and its extended chain | `boot` | `BootTableProofs` |

`MCSampleRing`, `MCJobs`, `MCSession`, `MCReports`, `MCPartTable` and `MCBootTable` hold
the constants of the instances that a cfg cannot write; `NumberTheorems` has the lemmas on
naturals that the proofs share. The modules follow the course of main: `Session` up to the
point where the jobs start (its action `Test` stands for all that `Jobs` and `DirScan`
detail), `Jobs` from there to the barrier, `DirScan` from the barrier to the umount.
`PartTable` and `BootTable` stand apart: nothing main does reaches them. A wrapper call is
one action in `Jobs` and `DirScan`; the stores inside it are the actions of `SampleRing`. In
every module the operators marked "mutant" are mistakes one could make in the definition
that follows them; they document what the properties can tell apart.

### SampleRing

`count`, `flag`, `slot` are `xxx_count`, `xxx_flag`, `xxx_time`. The Makefile sets no `-O`,
so each access of a global is one load or store, and each is an action: `LoadCount` (the
index), `BumpCount` (the increment stores the loaded value plus one, before the element is
stored), `StoreSample`, `CheckFull`, `SetFlag`, `ResetCount`; the last two in the order of
libc/ or of posix/ (`FlagFirst`). A C data race has no defined outcome; what the build
produces on the 32-bit cores it is for are interleavings of these accesses. A store past
the end goes to `spill`; what it hits is not modelled. `Arrays` is 3 for `sys_file_fsync`,
which loads the count again for each array and increments it with the last one.

A sample is the number of its call, so a property can tell which call filled an element.
Some promises hold for one thread only. They are stated of every behaviour up to the first
call of a second thread (`Lone`), so one run covers the single caller and the race: the
three columns of fsync belong together (`RowsAligned`), and `SampleRing` implements
`SampleLog`, where the window is read off the array, oldest first, and the abstract record
happens at the store of the last array (`ImplementsLog`).

### Jobs

`Create`, `Join` and `Poll` are main's loops; an iteration of the polling is an action.
`Open` ... `Raise` are the calls of `Testlibc_func` in order, one per action, with `wi` and
`wj` its loop counters; between `Raise`, its last statement, and `Return`, the end of the
thread, main may go on. A block of `-s` KB is one element of a file; the element names its
writer. `Faults` is the set of calls that may fail; the outcome of each such call is
chosen anew. A failed fsync is recorded as a successful one is, so its failure is not
told apart. Joining an id that was never stored, or a detached thread that has ended, is
undefined; the model lets it return at once or take the process down. `rec[w]` counts the
samples that job w adds to each array, so that a property can relate the rows of one job
(`RecordsBalance`) before the jobs are summed up in the CSV file. `filenum` and
`rounds` are what step 3 arrives at (`Session` checks which values these are).

### DirScan

A name is a base and a number of `_rename` suffixes, so `strstr` for "comettest" is a test
of the base and for "rename" a test of the number. `todo` is what the stream is still to
return: the entries at opendir, less those returned, plus those renamed entries that turn
up again, which POSIX leaves open. `OpenDir`, `StatFails`, `CloseDir` belong to
`sys_file_read_dir_file`; `RenameEntry`, `UnlinkEntry`, `CometEntry` are a returned entry
with its stat and its callback. A name with `MaxRename` suffixes overruns `newfilename`
(`RenameOverflows`) or is refused by the file system. `rec` counts records from the end of
the jobs on. The files of the user have neither "rename" nor "comettest" in their names.

### Session

Quantities are numbers in the code's units, with `Kilo` for 1024 and `Word` for 2^32, so
that TLC meets every threshold with small numbers and the proofs cover the real ones.
`medium` is what statfs returned; `RemainSize` repeats the arithmetic of
`sys_medium_get_info` with its cast to UINT, `Allocate` step 3 of main and `Count` the
rounds of a job. `mounts` counts what is stacked at the mount point; `busy` remembers that
an umount failed. `Killed` ends the process anywhere, with or without a reboot.

### Reports

`mem` is the part of `.data` that holds the sample arrays, in the order gcc gives them
without `-O`: that of their definitions, without gaps (`Base`). One memory, because
`access_bench` and `unlink_bench` take 64K for the length of arrays of 20000 elements and
sort across their end; with these sizes they stay among the arrays of `posix/`. `Bench` is
the text the ten benches share; each bench is an instance with the length it takes for a
full ring and the values its sum may start from, which is where the copies differ.
`sys_bubble_sort` is the two loops as recursive functions, a round (`BubblePass`) of
exchanges (`Swap`). fsync_bench sorts three arrays, each an element of `todo`.

How the samples get into the arrays depends on `racing`, whether main was told to start more
than one job. Where one thread alone calls a wrapper, as main does and a single job,
`Record` is its whole recorder: `SampleRing` with a single caller. Where several jobs call
it (`Raced`), a call is `RaceRecord`, one action that leaves what the loads and stores of
`SampleRing` may leave once all callers are through; main looks at the arrays only then. Its
index and what it stores to the count are chosen: lost increments, counts that go back,
columns of fsync with different indices, resets that come late and counts that step over
MAX (`FindFull` is the caller that finds MAX and may never come) are all among the choices.
They are limited by what `SampleRing` shows of every order of the loads and stores. As
long as nobody has reset the count, it is changed by increments only: each index that is
used below the final count is used by a call, and the call that stored last used the one
before the count. Put the calls in the order of their indices, the last one last, and each
has an index of at most the count it meets and leaves the one behind it, which is what
`RaceRecord` allows. After a reset an index may come from before it; it is then only less
than the number of calls, and that is what the action allows once the flag is up. A count
that is MAX is still to be found so by the caller that brought it there, so `EndWork` waits
for that. The action allows more than the program does; what the properties say of raced
arrays is the weaker for it, and not wrong. Stores behind the end of an array hit the next
one, as in the program; those behind the last array, where nothing is known to lie, are
left out.

`Rm` is an entry of the unlink scan with all it records: the fstat of the scan itself, after
`fstat_bench` has sorted that array, the access and the unlink. `taken` and `seen` are no
variables of the program. `taken` lists the samples, `seen` what there was of an array when
its bench ran; the properties compare reports and rows with them.

### PartTable

An entry is a first sector and a size, each a word of 32 bits (`Stored`); `Word` is 2^32 and
the limit is computed modulo 2^64 (`Limit`). The inner loop of the search over the four
entries is the operator `Pass`, an iteration of the do loop the action `Search`, where
`start` is the variable of that name at the top of the loop, and `temp` a LET. `First` and
`Last` are what `fill_bounds` returns after the rounding to cylinders. `Place` is the rest
of `addPartition` with its oddities: the first partition is moved to 2048 after the search,
and each ends one sector early. `written` tells whether the disk holds the table. What the
ioctls HDIO_GETGEO, BLKSSZGET and BLKGETSIZE64 answer is chosen freely, their failure
included. fsbench has no option that makes partitions; the module models the function for
any caller.

### BootTable

`get_boot` reads the MBR, follows the first extended partition of it through `read_extended`,
one sector and one malloc'ed buffer per link, and takes the links without a partition out of
the array again (`delete_partition`); `wrong_p_order` judges the result and `freeLogicalPtes`
gives the buffers back. A link carries what its `struct pte` points to: the sector as it
stands in memory, which of its entries are the partition and the pointer (`part`, `ext`),
its offset and whether it is to be written (`changed`). `links[k]` is `ptes[k + 3]`. One
round of the loop over the chain is an action, so is one deletion; the early returns (a bad
offset, a full array, a circle, which ends as a full array) are actions of their own. A
sector that cannot be read leaves what the fresh buffer happens to hold, so a read returns
any of the tables; malloc may fail at every link, and the entries are then read through NULL
(`OutOfMemory`). `chain`, the links as they were read, and `lost`, the buffers of links taken
out, are no variables of the program.

In the build the callers of `get_boot` (`get_disk_info`, `try2parse`, `fdisk/fdisk.c:1267`,
`:1273`, `:1587`) lie between `#if 0` and `#endif`; the order of the calls is taken from
there. `fdisk_make_part`, the only entry that is built, starts from an empty table, which is
why `PartTable` has no logical partitions and no offset.

## 3. Runs

| run | shows | bounds |
|---|---|---|
| `ring` | racing callers: no phantom sample, no store outside the array in the first Max calls; one caller: aligned rows, the log refinement | 2 callers, 3 arrays, Max 2, 6 calls: three times round the ring |
| `ring_overrun` | **violated:** `StaysInArray` | two callers, Max 2 |
| `jobs` | barrier, file ownership, balance of the records, end of the polling, with every fault | 2 jobs, 1 or 2 files each, 2 rounds, numbering stride 2 |
| `jobs_hang` | **violated:** `MainGoesOn`, after a failed create | 2 jobs, 2 files, 1 round |
| `jobs_readback` | **violated:** `ReadsBack`, without any fault | same |
| `scan` | no stale entry, own files removed, record balance, raw CSV, termination, with every fault | one file of the jobs (fresh, left over, or both), one comet file, one directory, 2 suffixes |
| `scan_user` | **violated:** `UserFilesKept` | one file of the user's |
| `session` | fit, range of the file sizes, at most one mount, clean exits | Kilo 4, Word 64, options 0 to 5, 24 media |
| `session_size` | **violated:** `FileSizeAtMost` | same |
| `reports` | reports and CSV rows tell of the samples taken, and with racing jobs of no others; every bench sorts, loses nothing and leaves other arrays alone | one job or several, arrays of 3 and 2, 4 calls, times -3 and 2, all benches |
| `parts` | partitions disjoint, on the disk, all made; the search ends | Word 64, Align 6, cylinders of 3, 4, 8 sectors, 73 disks, 0 to 5 partitions |
| `boot` | the links stay a chain, no partition is lost or moved, no empty one is listed, buffers are owned once, changes are marked, the order is told, reading ends | the disk read twice, chains of up to four links over eleven kinds of sectors, five MBRs, Word 8, malloc failing anywhere |

Why the bounds are enough. A ring of two elements has a first and a last one, and two
callers suffice to step over the full test and to carry a stale increment over the other's
calls; the theorems have any number of callers, arrays and calls. Two jobs with a stride
equal to the largest number of files are the closest that file numbers of different jobs can
come.
In a scan an entry interferes only with entries of its own base name, and one base with
leftovers gives up to three names. The media of `session` are below, at and above a KB of
block size, below a MB, and beyond a word. In `reports` a ring of three fills
and wraps with four samples, and racing calls step over its full test with four; two
removals fill the array of access, whose bench then sorts into that of unlink; one time is
negative, as after the clock was set back, so that the division of C matters. In `parts` the disks run from no size through every size up to more
sectors than a word counts, and one with more cylinders than a word; the cylinder is
smaller and larger than the gap before the first partition. In `boot` four links are a
first, a last and two inner ones, so that links next to each other can go; with MaxParts 8
they are also a full array, which every longer chain and every circle runs into. The eleven
sectors have a partition before and behind the pointer, an empty link with and without
something left to clear, two pointers, two partitions, a pointer without a size, one back to
the first link, and sectors without their mark. Reading twice shows that a buffer that was
lost is not handed out again. What depends on none of these bounds is proved.

Violated runs are the findings of `PROJECT.json`: places where a comment or the ReadMe says
one thing and the program does another.

Deadlock is checked in every run; the states in which a bound is reached or the program has
ended have a stuttering step of their own.

Fairness. `Jobs` assumes weak fairness of main and of each thread: the threads have no
priorities that could starve another for ever (`TASK_PRIORITY_1` for all) and no call
blocks. The polling does not block the others, as it is preempted. `DirScan` assumes weak
fairness of main, which is the only thread left. Neither assumes that a call succeeds.
`PartTable` and `BootTable` assume that a call that has begun goes on; they are sequential
functions. `SampleRing`, `Session` and `Reports` state no liveness.

What the passing runs show only under a condition. With `-j` of 2 or more the jobs race for
the arrays of fopen, fclose, fread, fwrite, fsync and sync. Of these arrays
`CsvHoldsSamples` and `ReportsTellSamples` claim only that nothing is made up: a row or a
report has no more samples than there were calls and none that was not recorded. Samples do
get lost, and how many is not limited. Of fflush and fileno not even that is claimed, as the
count is not theirs and their elements may be skipped. Whatever jobs race for is claimed,
and so is that a bench keeps to its own array (`BenchKeepsOthers`), only while no API has
been called more often than its array has elements (`Contained`): behind that a store may
leave the array, as `ring_overrun` shows, and a bench may take a length beyond MAX. With a
single job, or without jobs, all of this holds without a limit. `RowsAligned` and the log of
`SampleRing` are about one caller, too.

`FileSizeInRange` says what the divisions give, not what ReadMe.md says of `-l`: the files
are larger (`session_size`). The CSV file is written before the unlink scan and the comet
test, so it lacks the samples of both; `CsvIsRaw` is about those taken before.

A report of access or
unlink is right as long as access has not filled its array, and the mean of access, unlink
and sync never is, since their sum is not initialised (`posix/sys_posix_cmd.c:189`, `:250`,
`:294`). Partitions are disjoint and on the disk if each share is larger than the 2048
sectors the first one is moved by (`Roomy`); on a smaller disk the code writes an entry
whose size wraps around to almost 2^32, and with no whole cylinder its limit is 2^64 - 1.
All partitions are made (`MakesAll`) if the disk has no more sectors than a word counts; on
a larger one the later ones are left out and 0 is returned all the same. A failed write of
the table is not reported either. A logical partition keeps its place (`LogicalsKept`) if it
lies within 32 bits of the first link; behind that `delete_partition` cuts its start. Links
that are taken out of the chain are never freed: `BuffersOwned` says that just those are lost.

## 4. Proofs

All theorems hold for every value of the constants that satisfies the named assumptions
(`RingAssumption`, `JobsAssumption`, `ScanAssumption`, `SessionAssumption`,
`PartAssumption`, `BootAssumption`, `ReportsAssumption`).

*SampleRingProofs.* `TypeCorrect`. `NoPhantom` needs an invariant, since with a race the
count can jump both ways: every index below any count that is stored or still loaded in a
register is either written or about to be stored by some caller (`CoverInv`); when all are
quiet nothing is about to be stored. `InArrayIfSafe` has two halves. One caller: the count
is below Max except between its increment and its reset (`AloneInv`). At most Max calls:
the count plus the calls that have not incremented yet never exceeds the calls begun
(`RoomInv`), so no loaded index reaches Max. `LoneInv` describes one caller at every label:
the count is below Max whenever it is loaded, and what the caller has incremented is what it
tests (`LoneCount`); the arrays agree except in the element of the call that is under way
(`LoneRows`). From it
follow `RowsOfOneCall`, `NoPhantomAnywhere` and `BenchReadsAll` (what a bench reads of any of
the arrays was measured, and is just the window of the log; these two are not checked by a
run) and the refinement: `RingImplementsLog` shows that the store of the last array appends
to the window, dropping the oldest sample of a full one, and that every other step leaves
the window alone. The order of flag and count (`FlagFirst`) is a constant, so the theorems
cover the wrappers of libc/ and those of posix/.

*JobsProofs.* `TypeCorrect`. `BarrierHolds`: when the polling is at job k, the jobs before
it have nothing left to do and their streams closed, which is stable as no thread restarts.
`FilesOwned`: index*Stride+i is injective below Stride (`FileOfInjective`), and every open
stream stands at the end of its file, so a write appends an element of the writer
(`WriteAtEnd`). `RecordsBalanced`: at each label what a job has recorded follows from its
loop counters and from how many of its streams are open (`Recorded`): those before `wi` in
this round, all of them in each round behind it (`OpenIn` counts them).

*DirScanProofs.* `TypeCorrect`. `NothingStale` is inductive once one adds that nothing is
to come when the stream is closed. `OwnFilesGone`: while the rename scan runs, a job's file
without suffix is still to come (`Renamed`); while the unlink scan runs, any job's file is
still to come (`Removed`); what comes is renamed or removed if no call fails.
`CometFilesGone` adds to it that the comet files of this run are made behind the unlink scan
and are all still to come when the third scan begins (`CometInv`). `CsvStaysRaw`: no bench has
run in the phases up to the CSV file (`RawInv`). `RecordsBalanced`: accesses without an
unlink are those of directories; a directory has one name (`OneName`) and those still to come
have not been counted (`BalanceInv`), so there are no more than directories.
`EveryStepAdvances`: each step of main brings it to a later stage (`StagesLeft`) or leaves
less of this one: fewer comet files to create, or fewer turns of the scan (`Remaining`). A
name has its own turn and one for each suffix that still fits (`Turns`), so a renamed entry
that turns up again has one turn less (`TurnTaken`). Both need the files to be finite in
number.

*SessionProofs.* `TypeCorrect`. `AllocationFits` and `FileSizesKept` follow from lemmas on
integer division and an invariant that carries the outcome of step 3 to the start of the
jobs (`AllocInv`). `MountsDoNotPileUp` and `RunsCleanUp` come from `MountInv`: after the
first umount of a run nothing is mounted.

*PartTableProofs.* `TypeCorrect`: what is stored in four bytes is a word, although stop and
limit are computed in 64 bits. `PartitionsDisjoint` and `PartitionsInside` need to know
where the search of addPartition ends. One pass over the entries is a function of the table
(`Trip`); from a sector behind all partitions it stays there (`TripFixed`), and a partition
that is made where a pass ended moves that place to its own end (`TripGrows`). `PartInv`
says that all partitions end before this place, that it lies below the sector where an
empty entry seems to begin (`Reach`, 0xffffffff rounded down to a cylinder), and that the
search is at offset or there. From `Free < Reach` follows that rounding through an unsigned
int leaves it alone and that the empty entry cuts the limit below 2^32 (`FreeLimitFacts`),
so nothing is lost when the new entry is stored (`StopFacts`). `AllMade`: the places where
the partitions end are known in advance, whole cylinders less one sector (`Mark`); after n
partitions the first n entries reach from mark to mark (`Made`), the limit is that of the
disk (`FreeLimitExact`), and the next one ends at its mark or, the last, at the limit
(`NextEnd`). The theorems assume that a share of cylinders reaches two sectors beyond Align
(`Roomy`), and of a geometry that three cylinders and four times Align fit below 2^32, and
that Align has room for two heads (heads and sectors have 8 bits in the code, Align is 2048).

`EveryStepAdvances` needs no `Roomy`: on every disk each step leaves less to do (`Phase`),
and each round of the do loop of addPartition but the last leaves its search less to go
(`SearchRank`). In a round start rises or is cut to 32 bits for the first time
(`SearchGoesOn`). That it is not cut twice has three reasons: a limit below 2^32 lets no
start reach 2^32; a larger one makes the disk `Roomy` (`LargeIsRoomy`), so that the search
stands at `Free`; and without a cylinder, where the limit is 2^64 - 1, all partitions end at
the last sector of the cylinder the search began in (`Edge`), or a word beyond it if the
first one was moved behind its end (`Over`), and there the search stays (`TermInv`).

*BootTableProofs.* All safety properties, for every disk. `ChainLinked` is not
inductive, as it says nothing while the chain is read. `Shape` adds which calls may follow
(`Control`), where places count from (`Offsets`), and that in no link the pointer is the
partition (`Apart`), without which clearing one would take the other along; with it a
deletion leaves each other link where it was, with its own partition and, for the link
before, the pointer of the one that went (`Deleted`). `LogicalsStayListed` adds the numbers
of the links: ascending, and each number that is missing was empty when it was read
(`Logicals`). `BuffersStayOwned`, `ChangesAreMarked` and `NoEmptyLinkListed` rest on `Shape`
in the same way. The types include that `ptes` is never overrun. `OrderIsTold`: wrong_p_order
looks only at neighbours among the partitions that are listed. That is enough
(`NeighboursSuffice`): of all partitions with a larger one of their kind before them take the
first; it is not below its neighbour, so its neighbour would have been one before it. The
extrema of the indices are `ExtremeIds`. `EveryStepAdvances`: each step of a call lowers
`Rank`, which counts the entries of the MBR to come, the links that still fit into `ptes`
and those still to be deleted. Nothing in the code looks for a circle in the chain; it is
`MAXIMUM_PARTS` that ends the reading, and a deletion shortens the chain or clears the only
link of it (`DeletionShrinks`).

*NumberTheorems.* The library states induction with an operator as parameter, which the
provers cannot instantiate. Here a set stands for what is to be shown: one that is not empty
has a least element (`LeastNat`), which gives induction over the naturals and over an
interval (`NatInd`, `IntervalInd`) and the function that a recursion defines
(`RecursionExists`).

*ReportsProofs.* `SortIsCorrect`: sys_bubble_sort returns the elements of every array in
ascending order, each as often as before, and their sum is unchanged, as fsync_bench needs,
which sums after the sort what the other benches sum before. The invariants are those of the
two loops: after j comparisons of a round element j+1 is the largest so far and nothing
behind it has moved (`Bubbled`), after i rounds the last i elements are the largest ones in
order (`Settled`).

What jobs may do to the counts is in `Typed`: below MAX where one thread alone records, at
most the number of calls and inside the arrays where several do. For `OthersKept` one needs
only where something is stored. The arrays share no cell (`RowsApart`), a bench stores into
the elements it takes and nowhere else (`RunsStores`), and the length it takes is right
(`LengthRight`), for unlink because it never has more samples than access, so that it cannot
be full while access is not (`UnlinkBehind`), and for a raced array because its count is at
most the number of its calls, which `Contained` keeps to its length (`CountFits`). What is
contained now has been so before (`StaysContained`). Until its bench runs, element i of an
array that one thread alone fills keeps the latest sample whose number is i modulo the
length (`Ring`); the next sample replaces just one of them (`LatestNext`). A raced array has
a sample in each element below its count, or in all of them if it was full (`Mix`), which a
stale index cannot undo. `Filled` is the one or the other, and `CsvIsOfSamples` follows.

`BenchesPermute` and `TypeCorrect` hold also where access_bench and unlink_bench sort across
the end of their arrays: the sorts of a bench together are one permutation of the cells of
`mem` (`RunsShuffle`), so that no value is lost or comes more often (`ShuffleKeeps`), and
every cell still has an initial value or a sample (`Samples`). `ReportsTold` needs main's
plan: no array is benched twice, access and unlink come last (`Planned`). Until its bench
has run (`Pending`) an array is `Filled`, with its report empty; from there on the report
tells of the samples the bench has seen, which do not change any more although the unlink
scan takes others (`Telling`). The mean misses the quotient by less than one (`CDivNear`).

`LogsImplemented` and `LogsSorted` join the recorder and the benches; no run checks them.
They are about the arrays that one thread alone records into. Read from its oldest element
on, each of these is a `SampleLog` up to its bench (`RecordIsLogged`), the abstract log that
`SampleRing` implements step by step for one caller; calls of jobs that race for other arrays
leave it alone while they stay `Contained`. A bench leaves that log sorted in the array: the
array from its first element on is the log turned (`WindowTurned`), and the sort permutes
what it finds. Of a raced array no log is claimed, as `SampleRing` implements none with
several callers.

Every safety property and action property of a passing run is a theorem. Only
model-checked: liveness (`PollEnds`, `ScansEnd`, `SearchEnds`, `BootEnds`), as what fairness
adds is out of the prover's reach. Of `ScansEnd`, `SearchEnds` and `BootEnds` the theorems
`EveryStepAdvances` prove the half that depends on the code: main or a call that goes on
comes to its end. `PollEnds` is about several threads, each with a way of its own to go.

## 5. Not modelled

- Values of times, clock, printing, layout of the CSV file, parsing of options beyond
  their limits.
- What a store outside an array overwrites, stack overflow (`-s 1024` with 1 MB stacks).
- `sys_medium_format`, exfat and ntfs mounts, thread priorities and cancellation, and the
  helpers that fsbench never calls (cp, move, kill, ioctl, cmd_call, fcntl, select, feof,
  fgetpos). Each is a single call of the C library or of `system()` with its result passed
  on; without a caller there is no sequence of them to check. They are why the medium and
  the thread layer stay partly modelled.
- The clusters of the file system: `JobsFit` is about bytes, not about rounding up to
  clusters and directory entries.
- Of the partition tables: what `get_disk_info` copies into its result, the guesses for
  disks without a table (`is_probably_full_disk`), and the cylinder, head and sector fields
  of an entry, which only the guess of a geometry from a table with partitions reads.
- No run checks what `inc/sys_medium.h` promises of `sys_medium_make_part` (OK means made);
  a failed write of the table breaks it, as the action `writeTable` shows.

## 6. Plan

Done: the core (`SampleRing`, `Jobs`, `DirScan`, `Session`), the benches, both halves of the
partition tables, the refinement of the log with its proof, and a theorem for every safety
property. What is left, in order:

1. An abstract promise of `sys_medium_make_part`, and the run in which a failed write breaks
   it.
2. The composition of `Session` with the phases it abstracts.
3. A measure for the threads of `Jobs`, which would prove of `PollEnds` what is proved of the
   other three.
