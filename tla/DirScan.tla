------------------------------- MODULE DirScan -------------------------------
(***************************************************************************)
(* What main does after the jobs are through (fsbench.c steps 5 and 6 and  *)
(* the comet test): three scans of the mount point by                      *)
(* sys_file_read_dir_file, whose callbacks rename and remove the very      *)
(* entries the scan runs over, with the CSV file and the benches between   *)
(* them.                                                                   *)
(*                                                                         *)
(* A name is <<base, n>>: a base name followed by n times "_rename".       *)
(* Whether readdir returns an entry that is added while the directory is   *)
(* being read is left open by POSIX; vfat puts the longer name into free   *)
(* slots before the position or at the end, so both happen.                *)
(*                                                                         *)
(* The operators marked "mutant" are plausible mistakes in the definition  *)
(* they precede; no specification uses them.                               *)
(***************************************************************************)
EXTENDS Naturals, FiniteSets

CONSTANTS JobFiles,    \* test<n>.mp4, written by the jobs
          CometFiles,  \* comettest<n>.mp4
          UserFiles,   \* whatever else is on the medium
          UserDirs,    \* those of UserFiles that are directories
          MaxRename,   \* suffixes that fit a name and newfilename[256]
          Faults       \* calls that may fail: "opendir", "stat", "rename",
                       \* "access", "unlink", "open", "close", "csv"

ASSUME ScanAssumption ==
    /\ MaxRename \in Nat \ {0}
    /\ UserDirs \subseteq UserFiles
    /\ IsFiniteSet(JobFiles) /\ IsFiniteSet(CometFiles) /\ IsFiniteSet(UserFiles)
    /\ JobFiles \cap CometFiles = {}
    /\ JobFiles \cap UserFiles = {}
    /\ CometFiles \cap UserFiles = {}

Bases == JobFiles \cup CometFiles \cup UserFiles
Names == Bases \X (0..MaxRename)

VARIABLES
    phase,    \* where main is
    reading,  \* the directory stream is open
    dir,      \* names in the directory
    todo,     \* names readdir is still to return
    left,     \* comet files main is still to create
    csv,      \* what the CSV file holds: <<>> before it is written
    wantCsv,  \* -f was given
    sorted,   \* wrappers whose samples a bench has sorted
    rec,      \* records made by each wrapper since the jobs ended
    faulty    \* a call has failed

vars == <<phase, reading, dir, todo, left, csv, wantCsv, sorted, rec, faulty>>
options == <<csv, wantCsv, sorted>>

Apis == {"fstat", "rename", "access", "unlink", "fopen", "fclose"}
Scans == {"rename", "unlink", "comet"}

(* Where main goes on after a scan. *)
After == [rename |-> "csv", unlink |-> "bench2", comet |-> "umount"]

(* With -p or without -j main starts at the comet test.  The directory may
   hold what an interrupted run has left behind. *)
Init ==
    /\ phase \in {"rename", "create"}
    /\ reading = FALSE
    /\ \E new \in SUBSET JobFiles, old \in SUBSET JobFiles, comets \in SUBSET CometFiles :
          dir = (new \cup comets \cup UserFiles) \X {0} \cup old \X {1}
    /\ todo = {}
    /\ left \in {{}, CometFiles}
    /\ csv = << >>
    /\ wantCsv \in BOOLEAN
    /\ sorted = {}
    /\ rec = [a \in Apis |-> 0]
    /\ faulty = FALSE

-----------------------------------------------------------------------------
May(call) == call \in Faults

\* The directory stream is closed and main goes on.
EndScan == reading' = FALSE /\ todo' = {} /\ phase' = After[phase]

Recorded(apis) == rec' = [a \in Apis |-> rec[a] + IF a \in apis THEN 1 ELSE 0]

(* opendir; a failure is returned and not looked at. *)
OpenDir ==
    /\ phase \in Scans /\ ~reading
    /\ \/ reading' = TRUE /\ todo' = dir /\ UNCHANGED <<phase, faulty>>
       \/ May("opendir") /\ EndScan /\ faulty' = TRUE
    /\ UNCHANGED <<dir, left, options, rec>>

(* readdir has returned n in scan s. *)
Returns(s, n) == phase = s /\ reading /\ n \in todo

(* mutant: the scan starts over *)
StatFailsRestarts(n) ==
    /\ phase \in Scans /\ Returns(phase, n) /\ May("stat")
    /\ reading' = FALSE /\ todo' = {} /\ faulty' = TRUE
    /\ UNCHANGED <<phase, dir, left, options, rec>>
(* stat fails on an entry: the scan is given up and still returns OK. *)
StatFails(n) ==
    /\ phase \in Scans /\ Returns(phase, n) /\ May("stat")
    /\ EndScan /\ faulty' = TRUE
    /\ UNCHANGED <<dir, left, options, rec>>

(* MOUNT_PATH is "/tmp/testmmc", and the callback searches the whole path. *)
PathHasTest(n) == TRUE

(* mutant: there is no limit *)
NewNameUnlimited(n) == {<<n[1], n[2] + 1>>}
(* "%s_rename", unless it is too long. *)
NewName(n) == IF n[2] < MaxRename THEN {<<n[1], n[2] + 1>>} ELSE {}

(* rename_test: sys_posix_rename records whatever rename returns. *)
RenameEntry(n) ==
    /\ Returns("rename", n) /\ PathHasTest(n)
    /\ \/ \E new \in NewName(n), again \in BOOLEAN :
             /\ dir' = (dir \ {n}) \cup {new}
             /\ todo' = (todo \ {n}) \cup (IF again THEN {new} ELSE {})
             /\ UNCHANGED faulty
       \/ /\ todo' = todo \ {n} /\ UNCHANGED dir
          /\ \/ May("rename") /\ faulty' = TRUE
             \/ NewName(n) = {} /\ UNCHANGED faulty
    /\ Recorded({"fstat", "rename"})
    /\ UNCHANGED <<phase, reading, left, options>>

(* sprintf runs past the end of newfilename. *)
RenameOverflows(n) ==
    /\ Returns("rename", n) /\ n[2] = MaxRename
    /\ phase' = "crashed"
    /\ UNCHANGED <<reading, dir, todo, left, options, rec, faulty>>

(* mutant: it is access that is recorded only if the call succeeds *)
RmSwapsRecords(n) ==
    \/ /\ n[1] \notin UserDirs
       /\ dir' = dir \ {n}
       /\ Recorded({"fstat", "access", "unlink"})
       /\ UNCHANGED faulty
    \/ /\ May("access") \/ May("unlink") \/ n[1] \in UserDirs
       /\ faulty' = (faulty \/ n[1] \notin UserDirs)
       /\ Recorded({"fstat", "unlink"})
       /\ UNCHANGED dir
(* mutant: every name of the file is removed with the one returned *)
RmEveryName(n) ==
    \/ /\ n[1] \notin UserDirs
       /\ dir' = {m \in dir : m[1] # n[1]}
       /\ Recorded({"fstat", "access", "unlink"})
       /\ UNCHANGED faulty
    \/ /\ May("access") \/ May("unlink") \/ n[1] \in UserDirs
       /\ faulty' = (faulty \/ n[1] \notin UserDirs)
       /\ Recorded({"fstat", "access"})
       /\ UNCHANGED dir
(* sys_posix_rm: access is recorded always, unlink if it succeeds; a directory
   cannot be unlinked. *)
Rm(n) ==
    \/ /\ n[1] \notin UserDirs
       /\ dir' = dir \ {n}
       /\ Recorded({"fstat", "access", "unlink"})
       /\ UNCHANGED faulty
    \/ /\ May("access") \/ May("unlink") \/ n[1] \in UserDirs
       /\ faulty' = (faulty \/ n[1] \notin UserDirs)
       /\ Recorded({"fstat", "access"})
       /\ UNCHANGED dir

(* The callback has nothing to do with the entry but sys_file_fstat did. *)
PassOver(n) == Recorded({"fstat"}) /\ UNCHANGED <<dir, faulty>>

(* mutant: only paths that were renamed once are removed *)
UnlinkEntryOnce(n) ==
    /\ Returns("unlink", n)
    /\ IF n[2] = 1 THEN Rm(n) ELSE PassOver(n)
    /\ todo' = todo \ {n}
    /\ UNCHANGED <<phase, reading, left, options>>
(* unlink_test: every path with "rename" in it is removed. *)
UnlinkEntry(n) ==
    /\ Returns("unlink", n)
    /\ IF n[2] > 0 THEN Rm(n) ELSE PassOver(n)
    /\ todo' = todo \ {n}
    /\ UNCHANGED <<phase, reading, left, options>>

(* mutant: comet files are expected to be renamed *)
CometEntryRenamed(n) ==
    /\ Returns("comet", n)
    /\ IF n[1] \in CometFiles /\ n[2] > 0 THEN Rm(n) ELSE PassOver(n)
    /\ todo' = todo \ {n}
    /\ UNCHANGED <<phase, reading, left, options>>
(* fileshow_test: every path with "comettest" in it is removed. *)
CometEntry(n) ==
    /\ Returns("comet", n)
    /\ IF n[1] \in CometFiles THEN Rm(n) ELSE PassOver(n)
    /\ todo' = todo \ {n}
    /\ UNCHANGED <<phase, reading, left, options>>

CloseDir ==
    /\ phase \in Scans /\ reading /\ todo = {}
    /\ EndScan
    /\ UNCHANGED <<dir, left, options, rec, faulty>>

(* sys_libc_gencsv and sys_posix_gencsv; without a file they print to NULL. *)
GenCsv ==
    /\ phase = "csv"
    /\ \/ ~wantCsv /\ phase' = "bench1" /\ UNCHANGED csv
       \/ wantCsv /\ phase' = "bench1" /\ csv' = [row |-> rec, sorted |-> sorted]
       \/ wantCsv /\ May("csv") /\ phase' = "crashed" /\ UNCHANGED csv
    /\ UNCHANGED <<reading, dir, todo, left, wantCsv, sorted, rec, faulty>>

(* mutant: the benches come before the CSV file *)
BenchFirst ==
    /\ phase \in {"csv", "bench1"} /\ "rename" \notin sorted
    /\ phase' = IF phase = "bench1" THEN "unlink" ELSE phase
    /\ sorted' = {"rename", "fstat", "fopen", "fclose"}
    /\ UNCHANGED <<reading, dir, todo, left, csv, wantCsv, rec, faulty>>
(* rename_bench to sync_bench sort the samples in place. *)
Bench1 ==
    /\ phase = "bench1"
    /\ phase' = "unlink"
    /\ sorted' = {"rename", "fstat", "fopen", "fclose"}
    /\ UNCHANGED <<reading, dir, todo, left, csv, wantCsv, rec, faulty>>

(* access_bench and unlink_bench. *)
Bench2 ==
    /\ phase = "bench2"
    /\ phase' = "create"
    /\ sorted' = sorted \cup {"access", "unlink"}
    /\ UNCHANGED <<reading, dir, todo, left, csv, wantCsv, rec, faulty>>

(* A comet file is opened with "w+" and closed. *)
CreateComet(c) ==
    /\ phase = "create" /\ c \in left
    /\ left' = left \ {c}
    /\ phase' = IF left' = {} THEN "comet" ELSE "create"
    /\ \/ /\ dir' = dir \cup {<<c, 0>>}
          /\ \/ Recorded({"fopen", "fclose"}) /\ UNCHANGED faulty
             \/ May("close") /\ Recorded({"fopen"}) /\ faulty' = TRUE
       \/ May("open") /\ faulty' = TRUE /\ UNCHANGED <<dir, rec>>
    /\ UNCHANGED <<reading, todo, options>>

(* Without -c there is no comet test. *)
NoComet ==
    /\ phase = "create" /\ left = {}
    /\ phase' = "umount"
    /\ UNCHANGED <<reading, dir, todo, left, options, rec, faulty>>

Scan ==
    \/ OpenDir
    \/ CloseDir
    \/ \E n \in todo : \/ StatFails(n)
                       \/ RenameEntry(n)
                       \/ RenameOverflows(n)
                       \/ UnlinkEntry(n)
                       \/ CometEntry(n)

Main ==
    \/ Scan
    \/ GenCsv
    \/ Bench1
    \/ Bench2
    \/ \E c \in left : CreateComet(c)
    \/ NoComet

Over == phase \in {"umount", "crashed"} /\ UNCHANGED vars

Next == Main \/ Over

(* main runs alone now. *)
Spec == Init /\ [][Next]_vars /\ WF_vars(Main)

-----------------------------------------------------------------------------
(* Type invariant. *)
TypeOK ==
    /\ phase \in Scans \cup {"csv", "bench1", "bench2", "create", "umount", "crashed"}
    /\ reading \in BOOLEAN
    /\ reading => phase \in Scans \cup {"crashed"}
    /\ dir \in SUBSET Names
    /\ todo \in SUBSET Names
    /\ left \in SUBSET CometFiles
    /\ csv = << >> \/ csv \in [row : [Apis -> Nat], sorted : SUBSET Apis]
    /\ wantCsv \in BOOLEAN /\ faulty \in BOOLEAN
    /\ sorted \in SUBSET Apis
    /\ rec \in [Apis -> Nat]

(* Although the callbacks change the directory under the scan, readdir never
   hands out a name that is gone: no stat fails for that reason, which would
   give up the rest of the scan without a word. *)
NoStaleEntry == todo \subseteq dir

(* A run in which no call fails leaves none of its own files behind, nor those
   of an interrupted run before it, however often an entry is renamed. *)
OwnFilesRemoved ==
    (phase = "umount" /\ ~faulty) =>
        \A n \in dir : n[1] \in JobFiles => sorted = {}

(* ... the same of the comet files, if the comet test or the scans ran. *)
CometFilesRemoved ==
    (phase = "umount" /\ ~faulty /\ (sorted # {} \/ rec["fopen"] > 0)) =>
        \A n \in dir : n[1] \notin CometFiles

(* What a scan records: every rename follows a stat of its own, every unlink an
   access, and without a failed call only directories are accessed and not
   removed, each once for the scan that finds it. *)
RecordsBalance ==
    /\ rec["rename"] + rec["access"] <= rec["fstat"]
    /\ rec["unlink"] <= rec["access"]
    /\ ~faulty => rec["access"] - rec["unlink"] <= Cardinality(UserDirs)

(* The CSV file holds the raw samples ("初始数据", fsbench.c:305): they are
   written before any bench sorts them, and no rename is missing. *)
CsvIsRaw ==
    csv # << >> =>
        /\ csv.sorted = {}
        /\ csv.row["rename"] = rec["rename"]

(* The scans come to an end although renamed entries may turn up again. *)
ScansEnd == <>(phase \in {"umount", "crashed"})

(* Files that are not the test's are reserved ("resver file", fsbench.c:81). *)
UserFilesKept == \A u \in UserFiles : <<u, 0>> \in dir
=============================================================================
