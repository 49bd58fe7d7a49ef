---------------------------- MODULE DirScanProofs ----------------------------
(***************************************************************************)
(* Proofs about the scans of DirScan, for every set of files and every     *)
(* choice of the calls that may fail.                                      *)
(***************************************************************************)
EXTENDS DirScan, FiniteSetTheorems, TLAPS

(* Every transition of the specification, as the disjunction of the code's
   operations. *)
LEMMA NextCases ==
  ASSUME Next
  PROVE  \/ OpenDir \/ CloseDir
         \/ \E n \in todo : \/ StatFails(n) \/ RenameEntry(n) \/ RenameOverflows(n)
                            \/ UnlinkEntry(n) \/ CometEntry(n)
         \/ GenCsv \/ Bench1 \/ Bench2
         \/ \E c \in left : CreateComet(c)
         \/ NoComet
         \/ UNCHANGED vars
  BY DEF Next, Main, Scan, Over

LEMMA RecordedType ==
  ASSUME rec \in [Apis -> Nat], NEW apis, Recorded(apis)
  PROVE  rec' \in [Apis -> Nat]
  BY DEF Recorded

LEMMA NewNameType ==
  ASSUME NEW n \in Names, NEW new \in NewName(n)
  PROVE  new \in Names /\ new[1] = n[1] /\ new[2] = n[2] + 1
  BY ScanAssumption DEF Names, NewName

LEMMA AfterType ==
  ASSUME phase \in Scans
  PROVE  After[phase] \in {"csv", "bench2", "umount"}
  BY DEF Scans, After

LEMMA TypeInit == Init => TypeOK
  <1> SUFFICES ASSUME Init PROVE TypeOK
    OBVIOUS
  <1>1. dir \in SUBSET Names
    BY ScanAssumption DEF Init, Names, Bases
  <1>2. rec \in [Apis -> Nat]
    BY DEF Init
  <1> QED
    BY <1>1, <1>2 DEF Init, TypeOK, Scans

LEMMA TypeStep == TypeOK /\ [Next]_vars => TypeOK'
  <1> SUFFICES ASSUME TypeOK, [Next]_vars PROVE TypeOK'
    OBVIOUS
  <1> USE DEF TypeOK
  <1>1. CASE OpenDir
    BY <1>1, AfterType DEF OpenDir, EndScan, options, Scans
  <1>2. CASE CloseDir
    BY <1>2, AfterType DEF CloseDir, EndScan, options
  <1>3. ASSUME NEW n \in todo, StatFails(n) PROVE TypeOK'
    BY <1>3, AfterType DEF StatFails, EndScan, options
  <1>4. ASSUME NEW n \in todo, RenameEntry(n) PROVE TypeOK'
    <2>1. rec' \in [Apis -> Nat]
      BY <1>4, RecordedType DEF RenameEntry
    <2>2. dir' \in SUBSET Names /\ todo' \in SUBSET Names /\ faulty' \in BOOLEAN
      BY <1>4, NewNameType DEF RenameEntry
    <2> QED
      BY <1>4, <2>1, <2>2 DEF RenameEntry, options
  <1>5. ASSUME NEW n \in todo, RenameOverflows(n) PROVE TypeOK'
    BY <1>5 DEF RenameOverflows, options
  <1>6. ASSUME NEW n, Rm(n) \/ PassOver(n)
        PROVE  rec' \in [Apis -> Nat] /\ dir' \in SUBSET Names /\ faulty' \in BOOLEAN
    BY <1>6, RecordedType DEF Rm, PassOver
  <1>7. ASSUME NEW n \in todo, UnlinkEntry(n) \/ CometEntry(n) PROVE TypeOK'
    BY <1>6, <1>7 DEF UnlinkEntry, CometEntry, options
  <1>8. CASE GenCsv
    BY <1>8 DEF GenCsv, Scans
  <1>9. CASE Bench1
    BY <1>9 DEF Bench1, Scans, Apis
  <1>10. CASE Bench2
    BY <1>10 DEF Bench2, Scans, Apis
  <1>11. ASSUME NEW c \in left, CreateComet(c) PROVE TypeOK'
    <2>1. rec' \in [Apis -> Nat]
      BY <1>11, RecordedType DEF CreateComet
    <2>2. dir' \in SUBSET Names
      <3>1. <<c, 0>> \in Names
        BY ScanAssumption DEF Names, Bases
      <3> QED
        BY <1>11, <3>1 DEF CreateComet
    <2> QED
      BY <1>11, <2>1, <2>2 DEF CreateComet, options, Scans
  <1>12. CASE NoComet
    BY <1>12 DEF NoComet, options, Scans
  <1>13. CASE UNCHANGED vars
    BY <1>13 DEF vars
  <1> QED
    BY <1>1, <1>2, <1>3, <1>4, <1>5, <1>7, <1>8, <1>9, <1>10, <1>11, <1>12,
       <1>13, NextCases

(* The variables keep their types whatever the medium holds and however the
   calls of main fail. *)
THEOREM TypeCorrect == Spec => []TypeOK
  BY TypeInit, TypeStep, PTL DEF Spec

-----------------------------------------------------------------------------
(* An entry is taken off the names to come before its callback removes it, and
   no callback removes any other; a renamed entry that comes again comes under
   its new name, which is in the directory. *)
StaleInv == NoStaleEntry /\ (~reading => todo = {})

LEMMA StaleStep == TypeOK /\ StaleInv /\ [Next]_vars => StaleInv'
  <1> SUFFICES ASSUME TypeOK, StaleInv, [Next]_vars PROVE StaleInv'
    OBVIOUS
  <1> USE DEF StaleInv, NoStaleEntry
  <1>1. CASE OpenDir
    BY <1>1 DEF OpenDir, EndScan
  <1>2. CASE CloseDir
    BY <1>2 DEF CloseDir, EndScan
  <1>3. ASSUME NEW n \in todo, StatFails(n) PROVE StaleInv'
    BY <1>3 DEF StatFails, EndScan
  <1>4. ASSUME NEW n \in todo, RenameEntry(n) PROVE StaleInv'
    BY <1>4 DEF RenameEntry, Returns
  <1>5. ASSUME NEW n \in todo, RenameOverflows(n) PROVE StaleInv'
    BY <1>5 DEF RenameOverflows
  <1>6. ASSUME NEW n, Rm(n) \/ PassOver(n) PROVE dir \ {n} \subseteq dir'
    BY <1>6 DEF Rm, PassOver
  <1>7. ASSUME NEW n \in todo, UnlinkEntry(n) \/ CometEntry(n) PROVE StaleInv'
    BY <1>6, <1>7 DEF UnlinkEntry, CometEntry, Returns
  <1>8. CASE GenCsv \/ Bench1 \/ Bench2
    BY <1>8 DEF GenCsv, Bench1, Bench2
  <1>9. ASSUME NEW c \in left, CreateComet(c) PROVE StaleInv'
    BY <1>9 DEF CreateComet
  <1>10. CASE NoComet
    BY <1>10 DEF NoComet
  <1>11. CASE UNCHANGED vars
    BY <1>11 DEF vars
  <1> QED
    BY <1>1, <1>2, <1>3, <1>4, <1>5, <1>7, <1>8, <1>9, <1>10, <1>11, NextCases

(* No scan comes across a name that is gone. *)
THEOREM NothingStale == Spec => []NoStaleEntry
  <1>1. Init => StaleInv
    BY DEF Init, StaleInv, NoStaleEntry
  <1>2. StaleInv => NoStaleEntry
    BY DEF StaleInv
  <1> QED
    BY <1>1, <1>2, StaleStep, TypeCorrect, PTL DEF Spec

-----------------------------------------------------------------------------
(* How far the rename scan and the unlink scan have got with the jobs' files,
   as long as no call failed: the rename scan leaves none without suffix, so
   that the unlink scan, which looks for the suffix, misses none. *)
IsJobFile(n) == n[1] \in JobFiles

Renamed ==
    \A n \in dir : IsJobFile(n) =>
        n[2] > 0 \/ (phase = "rename" /\ (reading => n \in todo))

Removed ==
    \A n \in dir : IsJobFile(n) =>
        phase = "unlink" /\ (reading => n \in todo)

RemovedInv ==
    /\ phase \in {"rename", "csv", "bench1"} => sorted = {}
    /\ phase \in {"unlink", "bench2"} => sorted # {}
    /\ ~faulty /\ phase \in {"rename", "csv", "bench1", "unlink"} => Renamed
    /\ ~faulty /\ sorted # {} /\ phase # "crashed" => Removed

LEMMA RemovedStep == TypeOK /\ RemovedInv /\ [Next]_vars => RemovedInv'
  <1> SUFFICES ASSUME TypeOK, RemovedInv, [Next]_vars PROVE RemovedInv'
    OBVIOUS
  <1> USE DEF RemovedInv
  <1>1. CASE OpenDir
    <2>1. phase \in Scans /\ dir' = dir /\ sorted' = sorted /\ ~reading
      BY <1>1 DEF OpenDir, options
    <2>2. CASE reading' = TRUE /\ todo' = dir /\ phase' = phase /\ faulty' = faulty
      BY <2>1, <2>2 DEF Renamed, Removed
    <2>3. CASE phase' = After[phase] /\ faulty' = TRUE
      <3>1. /\ phase' \in {"csv", "bench2", "umount"}
            /\ phase' = "csv" => phase = "rename"
            /\ phase' = "bench2" => phase = "unlink"
        BY <2>1, <2>3 DEF After, Scans
      <3> QED
        BY <2>1, <2>3, <3>1
    <2> QED
      BY <1>1, <2>2, <2>3 DEF OpenDir, EndScan
  <1>2. CASE CloseDir
    <2>1. /\ phase' = After[phase] /\ phase \in Scans /\ reading /\ todo = {}
          /\ dir' = dir /\ sorted' = sorted /\ faulty' = faulty
      BY <1>2 DEF CloseDir, EndScan, options
    <2>2. CASE phase = "rename"
      BY <2>1, <2>2 DEF After, Renamed
    <2>3. CASE phase = "unlink"
      BY <2>1, <2>3 DEF After, Removed
    <2>4. CASE phase = "comet"
      BY <2>1, <2>4 DEF After, Removed
    <2> QED
      BY <2>1, <2>2, <2>3, <2>4 DEF Scans
  <1>3. ASSUME NEW n \in todo, StatFails(n) PROVE RemovedInv'
    <2>1. phase \in Scans /\ phase' = After[phase] /\ faulty' = TRUE /\ sorted' = sorted
      BY <1>3 DEF StatFails, EndScan, options
    <2>2. /\ phase' \in {"csv", "bench2", "umount"}
          /\ phase' = "csv" => phase = "rename"
          /\ phase' = "bench2" => phase = "unlink"
      BY <2>1 DEF After, Scans
    <2> QED
      BY <2>1, <2>2
  <1>4. ASSUME NEW n \in todo, RenameEntry(n) PROVE RemovedInv'
    <2>1. /\ phase = "rename" /\ phase' = phase /\ sorted' = sorted
          /\ reading /\ reading' = reading
      BY <1>4 DEF RenameEntry, Returns, options
    <2>2. ASSUME ~faulty' PROVE Renamed'
      <3>1. ~faulty /\ Renamed
        BY <1>4, <2>1, <2>2 DEF RenameEntry
      <3>2. CASE \E new \in NewName(n), again \in BOOLEAN :
                   /\ dir' = (dir \ {n}) \cup {new}
                   /\ todo' = (todo \ {n}) \cup (IF again THEN {new} ELSE {})
        <4>1. \A new \in NewName(n) : new[2] > 0
          BY NewNameType DEF TypeOK, Names
        <4> QED
          BY <2>1, <3>1, <3>2, <4>1 DEF Renamed, IsJobFile
      <3>3. CASE NewName(n) = {} /\ dir' = dir /\ todo' = todo \ {n}
        <4>1. n[2] > 0
          <5>1. n \in Bases \X (0..MaxRename)
            BY DEF TypeOK, Names
          <5>2. n[2] \in 0..MaxRename
            BY <5>1
          <5>3. ~(n[2] < MaxRename)
            BY <3>3 DEF NewName
          <5> QED
            BY <5>2, <5>3, ScanAssumption
        <4> QED
          BY <2>1, <3>1, <3>3, <4>1 DEF Renamed, IsJobFile
      <3> QED
        BY <1>4, <2>2, <3>2, <3>3 DEF RenameEntry
    <2> QED
      BY <2>1, <2>2
  <1>5. ASSUME NEW n \in todo, RenameOverflows(n) PROVE RemovedInv'
    BY <1>5 DEF RenameOverflows, options
  <1>6. ASSUME NEW n, Rm(n) \/ PassOver(n)
        PROVE  dir' \subseteq dir /\ (faulty => faulty')
    BY <1>6 DEF Rm, PassOver, TypeOK
  <1>7. ASSUME NEW n \in todo, UnlinkEntry(n) PROVE RemovedInv'
    <2>1. /\ phase = "unlink" /\ phase' = phase /\ sorted' = sorted
          /\ reading /\ reading' = reading /\ todo' = todo \ {n}
          /\ dir' \subseteq dir /\ (faulty => faulty')
      BY <1>6, <1>7 DEF UnlinkEntry, Returns, options
    <2>2. ASSUME ~faulty', n \in dir', IsJobFile(n) PROVE FALSE
      <3>1. n[2] > 0
        BY <2>1, <2>2 DEF Renamed, TypeOK
      <3>2. n[1] \notin UserDirs
        BY <2>2, ScanAssumption DEF IsJobFile
      <3> QED
        BY <1>7, <2>2, <3>1, <3>2 DEF UnlinkEntry, Rm
    <2>3. ~faulty' => Renamed' /\ Removed'
      BY <2>1, <2>2 DEF Renamed, Removed, IsJobFile, TypeOK
    <2> QED
      BY <2>1, <2>3
  <1>8. ASSUME NEW n \in todo, CometEntry(n) PROVE RemovedInv'
    <2>1. /\ phase = "comet" /\ phase' = phase /\ sorted' = sorted
          /\ dir' \subseteq dir /\ (faulty => faulty')
      BY <1>6, <1>8 DEF CometEntry, Returns, options
    <2> QED
      BY <2>1 DEF Removed, IsJobFile
  <1>9. CASE GenCsv
    BY <1>9 DEF GenCsv, Renamed
  <1>10. CASE Bench1
    <2>1. ~reading /\ reading' = reading
      BY <1>10 DEF Bench1, TypeOK, Scans
    <2> QED
      BY <1>10, <2>1 DEF Bench1, Renamed, Removed
  <1>11. CASE Bench2
    BY <1>11 DEF Bench2, Removed
  <1>12. ASSUME NEW c \in left, CreateComet(c) PROVE RemovedInv'
    <2>1. /\ phase = "create" /\ phase' \in {"create", "comet"} /\ sorted' = sorted
          /\ dir' \subseteq dir \cup {<<c, 0>>} /\ (faulty => faulty')
      BY <1>12 DEF CreateComet, options, TypeOK
    <2>2. c \notin JobFiles
      BY <1>12, ScanAssumption DEF TypeOK
    <2> QED
      BY <2>1, <2>2 DEF Removed, IsJobFile
  <1>13. CASE NoComet
    BY <1>13 DEF NoComet, options, Removed
  <1>14. CASE UNCHANGED vars
    BY <1>14 DEF vars, Renamed, Removed
  <1> QED
    BY <1>1, <1>2, <1>3, <1>4, <1>5, <1>7, <1>8, <1>9, <1>10, <1>11, <1>12,
       <1>13, <1>14, NextCases

(* The rename scan reaches every file of the jobs and the unlink scan every
   renamed one, however many names are added under the scans: unless a call
   fails, none is left when the medium is unmounted. *)
THEOREM OwnFilesGone == Spec => []OwnFilesRemoved
  <1>1. Init => RemovedInv
    BY DEF Init, RemovedInv, Renamed, Removed
  <1>2. RemovedInv => OwnFilesRemoved
    BY DEF RemovedInv, OwnFilesRemoved, Removed, IsJobFile
  <1> QED
    BY <1>1, <1>2, RemovedStep, TypeCorrect, PTL DEF Spec

-----------------------------------------------------------------------------
(* The CSV file is written at one point of main, after the rename scan and
   before any bench. *)
RawInv ==
    /\ CsvIsRaw
    /\ csv # << >> => phase \notin {"rename", "csv"}
    /\ phase \in {"rename", "csv", "bench1"} => sorted = {}

LEMMA NotRecorded ==
  ASSUME rec \in [Apis -> Nat], NEW apis, Recorded(apis), NEW a \in Apis, a \notin apis
  PROVE  rec'[a] = rec[a]
  BY DEF Recorded

LEMMA RawStep == TypeOK /\ RawInv /\ [Next]_vars => RawInv'
  <1> SUFFICES ASSUME TypeOK, RawInv, [Next]_vars PROVE RawInv'
    OBVIOUS
  <1> USE DEF RawInv, CsvIsRaw
  <1>a. rec \in [Apis -> Nat] /\ "rename" \in Apis
    BY DEF TypeOK, Apis
  <1>b. ASSUME phase \in Scans, phase' = phase \/ phase' = After[phase]
        PROVE  phase' \in {"rename", "csv", "bench1"} => phase = "rename"
    BY <1>b DEF Scans, After
  <1>1. ASSUME phase \in Scans, phase' = phase \/ phase' = After[phase],
               csv' = csv, sorted' = sorted, rec'["rename"] = rec["rename"]
        PROVE  RawInv'
    BY <1>1, <1>b
  <1>2. CASE OpenDir \/ CloseDir
    BY <1>1, <1>2 DEF OpenDir, CloseDir, EndScan, options
  <1>3. ASSUME NEW n \in todo, StatFails(n) PROVE RawInv'
    BY <1>1, <1>3 DEF StatFails, EndScan, options
  <1>4. ASSUME NEW n \in todo, RenameEntry(n) PROVE RawInv'
    BY <1>4 DEF RenameEntry, Returns, options
  <1>5. ASSUME NEW n \in todo, RenameOverflows(n) PROVE RawInv'
    BY <1>5 DEF RenameOverflows, options
  <1>6. ASSUME NEW n, Rm(n) \/ PassOver(n) PROVE rec'["rename"] = rec["rename"]
    BY <1>6, <1>a, NotRecorded DEF Rm, PassOver
  <1>7. ASSUME NEW n \in todo, UnlinkEntry(n) \/ CometEntry(n) PROVE RawInv'
    BY <1>1, <1>6, <1>7 DEF UnlinkEntry, CometEntry, Returns, options, Scans
  <1>8. CASE GenCsv
    BY <1>8 DEF GenCsv
  <1>9. CASE Bench1 \/ Bench2
    BY <1>9 DEF Bench1, Bench2
  <1>10. ASSUME NEW c \in left, CreateComet(c) PROVE RawInv'
    <2>1. rec'["rename"] = rec["rename"]
      BY <1>10, <1>a, NotRecorded DEF CreateComet
    <2> QED
      BY <1>10, <2>1 DEF CreateComet, options
  <1>11. CASE NoComet
    BY <1>11 DEF NoComet, options
  <1>12. CASE UNCHANGED vars
    BY <1>12 DEF vars
  <1> QED
    BY <1>2, <1>3, <1>4, <1>5, <1>7, <1>8, <1>9, <1>10, <1>11, <1>12, NextCases

(* The CSV file holds every rename of the run, and no bench has touched the
   samples in it. *)
THEOREM CsvStaysRaw == Spec => []CsvIsRaw
  <1>1. Init => RawInv
    BY DEF Init, RawInv, CsvIsRaw
  <1>2. RawInv => CsvIsRaw
    BY DEF RawInv
  <1> QED
    BY <1>1, <1>2, RawStep, TypeCorrect, PTL DEF Spec

-----------------------------------------------------------------------------
(* The comet files of an earlier run go the way of the jobs' files; those of
   this run are created behind the unlink scan and are still to come when the
   comet scan runs. *)
IsComet(n) == n[1] \in CometFiles

CometRenamed ==
    \A n \in dir : IsComet(n) =>
        n[2] > 0 \/ (phase = "rename" /\ (reading => n \in todo))

CometToCome == \A n \in dir : IsComet(n) => reading /\ n \in todo
NoComets == \A n \in dir : ~IsComet(n)

CometInv ==
    /\ phase \in {"rename", "csv", "bench1", "unlink", "bench2"} => rec["fopen"] = 0
    /\ phase = "create" /\ left = {} => rec["fopen"] = 0
    /\ phase \in {"rename", "csv", "bench1"} => sorted = {}
    /\ ~faulty =>
        /\ phase \in {"rename", "csv", "bench1", "unlink"} => CometRenamed
        /\ phase \in {"unlink", "comet"} /\ reading => CometToCome
        /\ phase = "bench2" => NoComets
        /\ phase = "create" /\ rec["fopen"] = 0 /\ sorted # {} => NoComets
        /\ CometFilesRemoved

LEMMA CometStep == TypeOK /\ CometInv /\ [Next]_vars => CometInv'
  <1> SUFFICES ASSUME TypeOK, CometInv, [Next]_vars PROVE CometInv'
    OBVIOUS
  <1> USE DEF CometInv
  <1>a. rec \in [Apis -> Nat] /\ "fopen" \in Apis
    BY DEF TypeOK, Apis
  <1>b. ASSUME phase \in Scans, phase' = After[phase], dir' = dir, sorted' = sorted,
               left' = left, rec' = rec, reading' = FALSE, faulty' \in BOOLEAN,
               faulty' \/ (faulty' = faulty /\ reading /\ todo = {})
        PROVE  CometInv'
    <2>1. CASE phase = "rename"
      BY <1>b, <2>1 DEF After, CometRenamed, CometFilesRemoved
    <2>2. CASE phase = "unlink"
      BY <1>b, <2>2 DEF After, CometToCome, NoComets, CometFilesRemoved
    <2>3. CASE phase = "comet"
      BY <1>b, <2>3 DEF After, CometToCome, IsComet, CometFilesRemoved
    <2> QED
      BY <1>b, <2>1, <2>2, <2>3 DEF Scans
  <1>1. CASE OpenDir
    <2>1. CASE reading' = TRUE /\ todo' = dir /\ UNCHANGED <<phase, faulty>>
      BY <1>1, <2>1 DEF OpenDir, options, Scans, CometRenamed, CometToCome,
         CometFilesRemoved
    <2>2. CASE EndScan /\ faulty' = TRUE
      BY <1>1, <1>b, <2>2 DEF OpenDir, EndScan, options
    <2> QED
      BY <1>1, <2>1, <2>2 DEF OpenDir
  <1>2. CASE CloseDir
    BY <1>2, <1>b DEF CloseDir, EndScan, options, TypeOK
  <1>3. ASSUME NEW n \in todo, StatFails(n) PROVE CometInv'
    BY <1>3, <1>b DEF StatFails, EndScan, options
  <1>4. ASSUME NEW n \in todo, RenameEntry(n) PROVE CometInv'
    <2>1. /\ phase = "rename" /\ phase' = phase /\ sorted' = sorted
          /\ reading /\ reading' = reading
      BY <1>4 DEF RenameEntry, Returns, options
    <2>2. rec'["fopen"] = rec["fopen"]
      BY <1>4, <1>a, NotRecorded DEF RenameEntry
    <2>3. ASSUME ~faulty' PROVE CometRenamed'
      <3>1. ~faulty /\ CometRenamed
        BY <1>4, <2>1, <2>3 DEF RenameEntry
      <3>2. CASE \E new \in NewName(n), again \in BOOLEAN :
                   /\ dir' = (dir \ {n}) \cup {new}
                   /\ todo' = (todo \ {n}) \cup (IF again THEN {new} ELSE {})
        <4>1. \A new \in NewName(n) : new[2] > 0
          BY NewNameType DEF TypeOK, Names
        <4> QED
          BY <2>1, <3>1, <3>2, <4>1 DEF CometRenamed, IsComet
      <3>3. CASE NewName(n) = {} /\ dir' = dir /\ todo' = todo \ {n}
        <4>1. n \in Bases \X (0..MaxRename)
          BY DEF TypeOK, Names
        <4>2. n[2] \in 0..MaxRename /\ ~(n[2] < MaxRename)
          BY <4>1, <3>3 DEF NewName
        <4>3. n[2] > 0
          BY <4>2, ScanAssumption
        <4> QED
          BY <2>1, <3>1, <3>3, <4>3 DEF CometRenamed, IsComet
      <3> QED
        BY <1>4, <2>3, <3>2, <3>3 DEF RenameEntry
    <2> QED
      BY <2>1, <2>2, <2>3 DEF CometFilesRemoved
  <1>5. ASSUME NEW n \in todo, RenameOverflows(n) PROVE CometInv'
    BY <1>5 DEF RenameOverflows, options, CometFilesRemoved
  <1>6. ASSUME NEW n, Rm(n) \/ PassOver(n)
        PROVE  dir' \subseteq dir /\ (faulty => faulty') /\ rec'["fopen"] = rec["fopen"]
    BY <1>6, <1>a, NotRecorded DEF Rm, PassOver, TypeOK
  <1>7. ASSUME NEW n \in todo, n \in dir', ~faulty', Rm(n), IsComet(n) PROVE FALSE
    BY <1>7, ScanAssumption DEF Rm, IsComet
  <1>8. ASSUME NEW n \in todo, UnlinkEntry(n) PROVE CometInv'
    <2>1. /\ phase = "unlink" /\ phase' = phase /\ sorted' = sorted
          /\ reading /\ reading' = reading /\ todo' = todo \ {n}
          /\ dir' \subseteq dir /\ (faulty => faulty') /\ rec'["fopen"] = rec["fopen"]
      BY <1>6, <1>8 DEF UnlinkEntry, Returns, options
    <2>2. ASSUME ~faulty', n \in dir', IsComet(n) PROVE FALSE
      <3>1. n[2] > 0
        BY <2>1, <2>2 DEF CometRenamed, TypeOK
      <3> QED
        BY <1>7, <1>8, <2>2, <3>1 DEF UnlinkEntry
    <2>3. ~faulty' => CometRenamed' /\ CometToCome'
      BY <2>1, <2>2 DEF CometRenamed, CometToCome, IsComet, TypeOK
    <2> QED
      BY <2>1, <2>3 DEF CometFilesRemoved
  <1>9. ASSUME NEW n \in todo, CometEntry(n) PROVE CometInv'
    <2>1. /\ phase = "comet" /\ phase' = phase
          /\ reading /\ reading' = reading /\ todo' = todo \ {n}
          /\ dir' \subseteq dir /\ (faulty => faulty')
      BY <1>6, <1>9 DEF CometEntry, Returns, options
    <2>2. ASSUME ~faulty', n \in dir', IsComet(n) PROVE FALSE
      BY <1>7, <1>9, <2>2 DEF CometEntry, IsComet
    <2>3. ~faulty' => CometToCome'
      BY <2>1, <2>2 DEF CometToCome, IsComet, TypeOK
    <2> QED
      BY <2>1, <2>3 DEF CometFilesRemoved
  <1>10. CASE GenCsv
    BY <1>10 DEF GenCsv, CometRenamed, CometFilesRemoved
  <1>11. CASE Bench1
    <2>1. ~reading /\ reading' = reading
      BY <1>11 DEF Bench1, TypeOK, Scans
    <2> QED
      BY <1>11, <2>1 DEF Bench1, CometRenamed, CometFilesRemoved
  <1>12. CASE Bench2
    BY <1>12 DEF Bench2, NoComets, CometFilesRemoved
  <1>13. ASSUME NEW c \in left, CreateComet(c) PROVE CometInv'
    <2>1. /\ phase = "create" /\ phase' \in {"create", "comet"} /\ sorted' = sorted
          /\ left' = {} => phase' = "comet"
          /\ reading' = reading /\ ~reading
      BY <1>13 DEF CreateComet, options, TypeOK, Scans
    <2>2. ~faulty' => rec'["fopen"] > 0
      <3>1. ASSUME NEW apis, Recorded(apis), "fopen" \in apis PROVE rec'["fopen"] > 0
        BY <3>1, <1>a DEF Recorded
      <3> QED
        BY <1>13, <3>1 DEF CreateComet
    <2> QED
      BY <2>1, <2>2 DEF CometFilesRemoved
  <1>14. CASE NoComet
    BY <1>14 DEF NoComet, options, CometFilesRemoved, NoComets, IsComet
  <1>15. CASE UNCHANGED vars
    BY <1>15 DEF vars, CometRenamed, CometToCome, NoComets, CometFilesRemoved
  <1> QED
    BY <1>1, <1>2, <1>3, <1>4, <1>5, <1>8, <1>9, <1>10, <1>11, <1>12, <1>13,
       <1>14, <1>15, NextCases

(* Whichever scans ran, and whatever a run before had left: without a failed
   call no comet file is left when the medium is unmounted. *)
THEOREM CometFilesGone == Spec => []CometFilesRemoved
  <1>1. Init => CometInv
    BY DEF Init, CometInv, CometRenamed, CometToCome, NoComets, CometFilesRemoved, Apis
  <1>2. CometInv => CometFilesRemoved
    BY DEF CometInv, CometFilesRemoved
  <1> QED
    BY <1>1, <1>2, CometStep, TypeCorrect, PTL DEF Spec

-----------------------------------------------------------------------------
(* What rec counts.  Without a failed call the accesses that no unlink follows
   are those of the directories the unlink scan has returned; a directory has
   one name at any time, so each is returned once. *)
IsDir(n) == n[1] \in UserDirs
OneName == \A m, n \in dir : (IsDir(m) /\ m[1] = n[1]) => m = n

\* Directories the unlink scan is still to come to.
ToCome == {n[1] : n \in {m \in todo : IsDir(m)}}
Missed == rec["access"] - rec["unlink"]

Counts ==
    /\ rec["rename"] + rec["access"] <= rec["fstat"]
    /\ rec["unlink"] <= rec["access"]

BalanceInv ==
    /\ Counts
    /\ OneName
    /\ ~faulty =>
        /\ phase \in {"rename", "csv", "bench1"} => Missed = 0
        /\ phase = "unlink" /\ ~reading => Missed = 0
        /\ phase = "unlink" /\ reading => Missed <= Cardinality(UserDirs \ ToCome)
        /\ Missed <= Cardinality(UserDirs)

LEMMA DirsLeft ==
  ASSUME NEW S \in SUBSET UserDirs
  PROVE  /\ Cardinality(UserDirs \ S) \in Nat
         /\ Cardinality(UserDirs \ S) <= Cardinality(UserDirs)
         /\ Cardinality(UserDirs) \in Nat
         /\ \A d \in S : Cardinality(UserDirs \ (S \ {d})) = Cardinality(UserDirs \ S) + 1
  <1>1. IsFiniteSet(UserDirs) /\ IsFiniteSet(UserDirs \ S)
    BY ScanAssumption, FS_Subset
  <1>2. Cardinality(UserDirs) \in Nat /\ Cardinality(UserDirs \ S) \in Nat
    BY <1>1, FS_CardinalityType
  <1>3. Cardinality(UserDirs \ S) <= Cardinality(UserDirs)
    <2>1. UserDirs \ S \in SUBSET UserDirs
      OBVIOUS
    <2> QED
      BY <1>1, <2>1, FS_Subset
  <1>4. ASSUME NEW d \in S
        PROVE  Cardinality(UserDirs \ (S \ {d})) = Cardinality(UserDirs \ S) + 1
    <2>1. UserDirs \ (S \ {d}) = (UserDirs \ S) \cup {d} /\ d \notin UserDirs \ S
      OBVIOUS
    <2>2. Cardinality((UserDirs \ S) \cup {d}) =
             IF d \in UserDirs \ S THEN Cardinality(UserDirs \ S)
                                   ELSE Cardinality(UserDirs \ S) + 1
      BY <1>1, FS_AddElement
    <2> QED
      BY <2>1, <2>2
  <1> QED
    BY <1>2, <1>3, <1>4

LEMMA RecordedCounts ==
  ASSUME rec \in [Apis -> Nat], NEW apis, Recorded(apis), Counts,
         "rename" \in apis \/ "access" \in apis => "fstat" \in apis,
         ~("rename" \in apis /\ "access" \in apis),
         "unlink" \in apis => "access" \in apis
  PROVE  /\ Counts'
         /\ ("access" \in apis <=> "unlink" \in apis) => Missed' = Missed
         /\ ("access" \in apis /\ "unlink" \notin apis) => Missed' = Missed + 1
  <1>1. \A a \in Apis : rec'[a] = rec[a] + IF a \in apis THEN 1 ELSE 0
    BY DEF Recorded
  <1>2. {"rename", "access", "fstat", "unlink"} \subseteq Apis
    BY DEF Apis
  <1>3. /\ rec["rename"] \in Nat /\ rec["access"] \in Nat
        /\ rec["fstat"] \in Nat /\ rec["unlink"] \in Nat
    BY <1>2
  <1>4. /\ rec'["rename"] = rec["rename"] + IF "rename" \in apis THEN 1 ELSE 0
        /\ rec'["access"] = rec["access"] + IF "access" \in apis THEN 1 ELSE 0
        /\ rec'["fstat"] = rec["fstat"] + IF "fstat" \in apis THEN 1 ELSE 0
        /\ rec'["unlink"] = rec["unlink"] + IF "unlink" \in apis THEN 1 ELSE 0
    BY <1>1, <1>2
  <1> QED
    BY <1>3, <1>4 DEF Counts, Missed

\* What a callback that removes, or passes over, does to the counts.
LEMMA RmCounts ==
  ASSUME TypeOK, BalanceInv, NEW n, Rm(n) \/ PassOver(n)
  PROVE  /\ Counts' /\ OneName'
         /\ faulty => faulty'
         /\ ~faulty' => Missed' = Missed \/ (IsDir(n) /\ Missed' = Missed + 1)
  <1>1. rec \in [Apis -> Nat] /\ Counts /\ OneName
    BY DEF TypeOK, BalanceInv
  <1>2. CASE Rm(n) /\ Recorded({"fstat", "access", "unlink"})
             /\ dir' = dir \ {n} /\ UNCHANGED faulty
    <2>1. Counts' /\ Missed' = Missed
      BY <1>1, <1>2, RecordedCounts
    <2> QED
      BY <1>1, <1>2, <2>1 DEF OneName
  <1>3. CASE Rm(n) /\ Recorded({"fstat", "access"}) /\ UNCHANGED dir
             /\ faulty' = (faulty \/ n[1] \notin UserDirs)
    <2>1. Counts' /\ Missed' = Missed + 1
      BY <1>1, <1>3, RecordedCounts
    <2> QED
      BY <1>1, <1>3, <2>1 DEF OneName, IsDir, TypeOK
  <1>4. CASE PassOver(n)
    <2>1. Counts' /\ Missed' = Missed
      BY <1>1, <1>4, RecordedCounts DEF PassOver
    <2> QED
      BY <1>1, <1>4, <2>1 DEF OneName, PassOver
  <1> QED
    BY <1>2, <1>3, <1>4 DEF Rm

LEMMA BalanceStep ==
  TypeOK /\ StaleInv /\ BalanceInv /\ [Next]_vars => BalanceInv'
  <1> SUFFICES ASSUME TypeOK, StaleInv, BalanceInv, [Next]_vars PROVE BalanceInv'
    OBVIOUS
  <1>a. /\ rec \in [Apis -> Nat] /\ Counts /\ OneName
        /\ ~faulty => Missed <= Cardinality(UserDirs)
    BY DEF TypeOK, BalanceInv
  <1>b. ToCome \in SUBSET UserDirs
    BY DEF ToCome, IsDir
  <1>c. ASSUME rec' = rec PROVE (Counts <=> Counts') /\ Missed' = Missed
    BY <1>c DEF Counts, Missed
  <1>d. Missed \in Int
    BY DEF Missed, TypeOK, Apis
  <1>e. ASSUME phase \in Scans, phase' = After[phase], dir' = dir, rec' = rec,
               reading' = FALSE, faulty' \/ faulty' = faulty
        PROVE  BalanceInv'
    <2>1. phase' \notin {"rename", "bench1", "unlink"} /\ (phase' = "csv" => phase = "rename")
      BY <1>e DEF After, Scans
    <2>2. Counts' /\ OneName' /\ Missed' = Missed
      BY <1>a, <1>c, <1>e DEF OneName
    <2> QED
      BY <1>a, <1>e, <2>1, <2>2 DEF BalanceInv
  <1>1. CASE OpenDir
    <2>1. CASE reading' = TRUE /\ todo' = dir /\ UNCHANGED <<phase, faulty>>
      <3>1. Counts' /\ OneName' /\ Missed' = Missed
        BY <1>1, <1>a, <1>c DEF OpenDir, OneName
      <3>2. ToCome' \in SUBSET UserDirs
        BY DEF ToCome, IsDir
      <3>3. ~faulty /\ phase = "unlink" => Missed' <= Cardinality(UserDirs \ ToCome')
        <4>1. Cardinality(UserDirs \ ToCome') \in Nat
          BY <3>2, DirsLeft
        <4>2. ~faulty /\ phase = "unlink" => Missed = 0
          BY <1>1 DEF OpenDir, BalanceInv
        <4> QED
          BY <3>1, <4>1, <4>2
      <3> QED
        BY <1>a, <2>1, <3>1, <3>3 DEF BalanceInv
    <2>2. CASE EndScan /\ faulty' = TRUE
      BY <1>1, <1>e, <2>2 DEF OpenDir, EndScan
    <2> QED
      BY <1>1, <2>1, <2>2 DEF OpenDir
  <1>2. CASE CloseDir
    BY <1>2, <1>e DEF CloseDir, EndScan
  <1>3. ASSUME NEW n \in todo, StatFails(n) PROVE BalanceInv'
    BY <1>3, <1>e DEF StatFails, EndScan
  <1>4. ASSUME NEW n \in todo, RenameEntry(n) PROVE BalanceInv'
    <2>1. /\ phase = "rename" /\ phase' = phase /\ (faulty => faulty')
          /\ Recorded({"fstat", "rename"})
      BY <1>4 DEF RenameEntry, Returns, TypeOK
    <2>2. Counts' /\ Missed' = Missed
      BY <1>a, <2>1, RecordedCounts
    <2>3. OneName'
      <3>1. n \in Names /\ n \in dir
        BY <1>4 DEF TypeOK, StaleInv, NoStaleEntry
      <3>2. \A new \in NewName(n) : new[1] = n[1]
        BY <3>1, NewNameType
      <3>3. dir' = dir \/ \E new \in NewName(n) : dir' = (dir \ {n}) \cup {new}
        BY <1>4 DEF RenameEntry
      <3> QED
        BY <1>a, <3>1, <3>2, <3>3 DEF OneName, IsDir
    <2> QED
      BY <1>a, <1>4, <2>1, <2>2, <2>3 DEF BalanceInv, RenameEntry
  <1>5. ASSUME NEW n \in todo, RenameOverflows(n) PROVE BalanceInv'
    <2>1. Counts' /\ OneName' /\ Missed' = Missed
      BY <1>5, <1>a, <1>c DEF RenameOverflows, OneName
    <2> QED
      BY <1>5, <1>a, <2>1 DEF RenameOverflows, BalanceInv
  <1>6. ASSUME NEW n \in todo, UnlinkEntry(n) PROVE BalanceInv'
    <2>1. /\ phase = "unlink" /\ phase' = phase /\ reading /\ reading' = reading
          /\ todo' = todo \ {n}
      BY <1>6 DEF UnlinkEntry, Returns
    <2>2. /\ Counts' /\ OneName' /\ (faulty => faulty')
          /\ ~faulty' => Missed' = Missed \/ (IsDir(n) /\ Missed' = Missed + 1)
      BY <1>6, RmCounts DEF UnlinkEntry
    <2>3. ASSUME ~faulty'
          PROVE  /\ Missed' <= Cardinality(UserDirs \ ToCome')
                 /\ Missed' <= Cardinality(UserDirs)
      <3>1. Missed <= Cardinality(UserDirs \ ToCome)
        BY <2>1, <2>2, <2>3 DEF BalanceInv, TypeOK
      <3>2. ASSUME IsDir(n) PROVE n[1] \in ToCome /\ ToCome' = ToCome \ {n[1]}
        <4>1. \A m \in todo : IsDir(m) /\ m[1] = n[1] => m = n
          BY <1>a, <1>6 DEF OneName, StaleInv, NoStaleEntry
        <4>2. n[1] \in ToCome
          BY <1>6, <3>2 DEF ToCome
        <4>3. \A d : d \in ToCome' <=> \E m \in todo : m # n /\ IsDir(m) /\ d = m[1]
          BY <2>1 DEF ToCome, IsDir
        <4>4. \A d : d \in ToCome <=> \E m \in todo : IsDir(m) /\ d = m[1]
          BY DEF ToCome
        <4>5. \A d : d \in ToCome' <=> d \in ToCome /\ d # n[1]
          BY <4>1, <4>3, <4>4
        <4> QED
          BY <4>2, <4>5
      <3>3. ASSUME ~IsDir(n) PROVE ToCome' = ToCome
        BY <2>1, <3>3 DEF ToCome, IsDir
      <3>4. CASE IsDir(n)
        <4>1. /\ Cardinality(UserDirs \ ToCome') = Cardinality(UserDirs \ ToCome) + 1
              /\ Cardinality(UserDirs \ ToCome) \in Nat
          BY <1>b, <3>2, <3>4, DirsLeft
        <4>2. Missed' <= Cardinality(UserDirs \ ToCome')
          BY <1>d, <2>2, <2>3, <3>1, <4>1
        <4>3. /\ Cardinality(UserDirs \ ToCome') <= Cardinality(UserDirs)
              /\ Cardinality(UserDirs) \in Nat
          <5>1. ToCome' \in SUBSET UserDirs
            BY DEF ToCome, IsDir
          <5> QED
            BY <5>1, DirsLeft
        <4>4. Missed' \in Int
          BY <1>d, <2>2, <2>3
        <4> QED
          BY <4>1, <4>2, <4>3, <4>4
      <3>5. CASE ~IsDir(n)
        BY <1>a, <2>2, <2>3, <3>1, <3>3, <3>5
      <3> QED
        BY <3>4, <3>5
    <2> QED
      BY <2>1, <2>2, <2>3 DEF BalanceInv
  <1>7. ASSUME NEW n \in todo, CometEntry(n) PROVE BalanceInv'
    <2>1. phase = "comet" /\ phase' = phase
      BY <1>7 DEF CometEntry, Returns
    <2>2. /\ Counts' /\ OneName' /\ (faulty => faulty')
          /\ ~faulty' => Missed' = Missed \/ (IsDir(n) /\ Missed' = Missed + 1)
      BY <1>7, RmCounts DEF CometEntry
    <2>3. ~faulty' => Missed' = Missed
      <3>1. CASE n[1] \in CometFiles
        BY <2>2, <3>1, ScanAssumption DEF IsDir
      <3>2. CASE n[1] \notin CometFiles
        <4>1. Recorded({"fstat"})
          BY <1>7, <3>2 DEF CometEntry, PassOver
        <4> QED
          BY <1>a, <4>1, RecordedCounts
      <3> QED
        BY <3>1, <3>2
    <2> QED
      BY <1>a, <2>1, <2>2, <2>3 DEF BalanceInv
  <1>8. CASE GenCsv \/ Bench1 \/ Bench2 \/ NoComet
    <2>1. rec' = rec /\ dir' = dir /\ faulty' = faulty /\ reading' = reading
      BY <1>8 DEF GenCsv, Bench1, Bench2, NoComet, options
    <2>2. /\ phase \in {"csv", "bench1", "bench2", "create"} /\ ~reading
          /\ phase' \in {"rename", "csv", "bench1", "unlink"} => phase \in {"csv", "bench1"}
      BY <1>8 DEF GenCsv, Bench1, Bench2, NoComet, TypeOK, Scans
    <2>3. Counts' /\ OneName' /\ Missed' = Missed
      BY <1>a, <1>c, <2>1 DEF OneName
    <2> QED
      BY <1>a, <2>1, <2>2, <2>3 DEF BalanceInv
  <1>9. ASSUME NEW c \in left, CreateComet(c) PROVE BalanceInv'
    <2>1. phase' \in {"create", "comet"} /\ (faulty => faulty')
      BY <1>9 DEF CreateComet, TypeOK
    <2>2. Counts' /\ Missed' = Missed
      <3>1. CASE Recorded({"fopen", "fclose"}) \/ Recorded({"fopen"})
        BY <1>a, <3>1, RecordedCounts
      <3>2. CASE rec' = rec
        BY <1>a, <1>c, <3>2
      <3> QED
        BY <1>9, <3>1, <3>2 DEF CreateComet
    <2>3. OneName'
      <3>1. c \notin UserDirs
        BY <1>9, ScanAssumption DEF TypeOK
      <3>2. dir' = dir \/ dir' = dir \cup {<<c, 0>>}
        BY <1>9 DEF CreateComet
      <3> QED
        BY <1>a, <3>1, <3>2 DEF OneName, IsDir
    <2> QED
      BY <1>a, <2>1, <2>2, <2>3 DEF BalanceInv
  <1>10. CASE UNCHANGED vars
    BY <1>10 DEF vars, BalanceInv, Counts, OneName, Missed, ToCome
  <1> QED
    BY <1>1, <1>2, <1>3, <1>4, <1>5, <1>6, <1>7, <1>8, <1>9, <1>10, NextCases

(* A stat comes before every rename and access, an access before every unlink,
   and unless a call fails the accesses without an unlink number no more than
   the directories. *)
THEOREM RecordsBalanced == Spec => []RecordsBalance
  <1>1. Init => BalanceInv
    <2> SUFFICES ASSUME Init PROVE BalanceInv
      OBVIOUS
    <2>1. Counts /\ Missed = 0
      BY DEF Init, Counts, Missed, Apis
    <2>2. OneName
      BY ScanAssumption DEF Init, OneName, IsDir
    <2>3. Cardinality(UserDirs) \in Nat
      BY DirsLeft
    <2> QED
      BY <2>1, <2>2, <2>3 DEF Init, BalanceInv
  <1>2. Init => StaleInv
    BY DEF Init, StaleInv, NoStaleEntry
  <1>3. BalanceInv => RecordsBalance
    BY DEF BalanceInv, Counts, Missed, RecordsBalance
  <1> QED
    BY <1>1, <1>2, <1>3, BalanceStep, StaleStep, TypeCorrect, PTL DEF Spec

-----------------------------------------------------------------------------
(* Every scan comes to an end. *)

(* Where main is in its way from the first scan to the last umount. *)
Stage ==
    [rename |-> 8, csv |-> 7, bench1 |-> 6, unlink |-> 5, bench2 |-> 4,
     create |-> 3, comet |-> 2, umount |-> 1, crashed |-> 0]
StagesLeft == 2 * Stage[phase] + (IF reading THEN 0 ELSE 1)

(* The turns a name may still have in this scan: its own, and one for each
   suffix that still fits. *)
Turns(n) == {n} \X (n[2]..MaxRename)
TurnsLeft == {t \in Names \X (0..MaxRename) : t[1] \in todo /\ t[1][2] <= t[2]}
Remaining == Cardinality(TurnsLeft) + Cardinality(left)

(* Each step of main brings it to a later stage, or leaves fewer turns of the
   scan or fewer files to create, though a renamed entry may turn up again
   under its new name and as often as its suffixes fit. *)
ScansAdvance == [][
    phase \notin {"umount", "crashed"} =>
       /\ StagesLeft' \in Nat
       /\ \/ StagesLeft' < StagesLeft
          \/ StagesLeft' = StagesLeft /\ Remaining' \in Nat /\ Remaining' < Remaining]_vars

LEMMA TurnsFinite ==
  ASSUME TypeOK
  PROVE  /\ IsFiniteSet(TurnsLeft) /\ Cardinality(TurnsLeft) \in Nat
         /\ IsFiniteSet(left) /\ Cardinality(left) \in Nat
  <1>1. MaxRename \in Nat
    BY ScanAssumption
  <1>2. IsFiniteSet(Bases)
    <2>1. IsFiniteSet(JobFiles \cup CometFiles)
      BY ScanAssumption, FS_Union
    <2> QED
      BY <2>1, ScanAssumption, FS_Union DEF Bases
  <1>3. IsFiniteSet(0..MaxRename)
    BY <1>1, FS_Interval
  <1>4. IsFiniteSet(Names)
    BY <1>2, <1>3, FS_Product DEF Names
  <1>5. IsFiniteSet(Names \X (0..MaxRename))
    BY <1>3, <1>4, FS_Product
  <1>6. TurnsLeft \in SUBSET (Names \X (0..MaxRename))
    BY DEF TurnsLeft
  <1>7. IsFiniteSet(TurnsLeft)
    BY <1>5, <1>6, FS_Subset
  <1>8. IsFiniteSet(left)
    BY ScanAssumption, FS_Subset DEF TypeOK
  <1> QED
    BY <1>7, <1>8, FS_CardinalityType

LEMMA TurnsCount ==
  ASSUME NEW n \in Names
  PROVE  IsFiniteSet(Turns(n)) /\ Cardinality(Turns(n)) = MaxRename - n[2] + 1
  <1>1. MaxRename \in Nat /\ n[2] \in Nat /\ n[2] <= MaxRename
    BY ScanAssumption DEF Names
  <1> DEFINE a == n[2]
             I == a..MaxRename
  <1>2. IsFiniteSet(I) /\ Cardinality(I) = MaxRename - n[2] + 1
    <2>1. a \in Int /\ MaxRename \in Int /\ ~(a > MaxRename)
      BY <1>1
    <2> HIDE DEF a
    <2>2. IsFiniteSet(a..MaxRename)
          /\ Cardinality(a..MaxRename) = IF a > MaxRename THEN 0 ELSE MaxRename - a + 1
      BY <2>1, FS_Interval
    <2>3. IsFiniteSet(I) /\ Cardinality(I) = MaxRename - a + 1
      BY <2>1, <2>2
    <2> QED
      BY <2>3 DEF a
  <1>3. IsFiniteSet({n}) /\ Cardinality({n}) = 1
    BY FS_Singleton
  <1> HIDE DEF I
  <1>4. IsFiniteSet({n} \X I) /\ Cardinality({n} \X I) = 1 * Cardinality(I)
    BY <1>2, <1>3, FS_Product
  <1> QED
    <2>1. Cardinality(I) \in Nat
      BY <1>2, FS_CardinalityType
    <2> QED
      BY <1>1, <1>2, <1>4, <2>1 DEF Turns, I

(* A name that has had its turn, and maybe turns up again with one more suffix,
   leaves fewer turns. *)
LEMMA TurnTaken ==
  ASSUME TypeOK, TypeOK', NEW n \in todo,
         \/ todo' = todo \ {n}
         \/ \E new \in NewName(n) : todo' = (todo \ {n}) \cup {new}
  PROVE  Cardinality(TurnsLeft') < Cardinality(TurnsLeft)
  <1> DEFINE A == TurnsLeft
             B == TurnsLeft'
             T == Turns(n)
             R == A \ T
  <1>1. n \in Names /\ n[2] \in 0..MaxRename /\ MaxRename \in Nat
    BY ScanAssumption DEF TypeOK, Names
  <1>2. T \subseteq A
    <2> SUFFICES ASSUME NEW t \in T PROVE t \in A
      OBVIOUS
    <2>1. t[1] = n /\ t[2] \in n[2]..MaxRename /\ t = <<t[1], t[2]>>
      BY DEF Turns
    <2> QED
      BY <1>1, <2>1 DEF TurnsLeft
  <1>3. B = {t \in Names \X (0..MaxRename) : t[1] \in todo' /\ t[1][2] <= t[2]}
    BY DEF TurnsLeft
  <1>4. IsFiniteSet(A) /\ Cardinality(A) \in Nat
    BY TurnsFinite
  <1>5. IsFiniteSet(T) /\ Cardinality(T) = MaxRename - n[2] + 1
    BY <1>1, TurnsCount
  <1> HIDE DEF A, B, T
  <1>6. IsFiniteSet(R) /\ Cardinality(R) = Cardinality(A) - Cardinality(T)
    <2>1. A \cap T = T
      BY <1>2
    <2>2. /\ IsFiniteSet(A \ T)
          /\ Cardinality(A \ T) = Cardinality(A) - Cardinality(A \cap T)
      BY <1>4, FS_Difference
    <2> QED
      BY <2>1, <2>2
  <1>7. ASSUME NEW t \in Names \X (0..MaxRename), t[1] \in todo, t[1] # n, t[1][2] <= t[2]
        PROVE  t \in R
    BY <1>7 DEF A, T, Turns, TurnsLeft
  <1>8. CASE todo' = todo \ {n}
    <2>1. B \subseteq R
      BY <1>3, <1>7, <1>8
    <2>2. Cardinality(B) <= Cardinality(R)
      BY <1>6, <2>1, FS_Subset
    <2>3. Cardinality(B) \in Nat /\ Cardinality(R) \in Nat
      BY <1>6, <2>1, FS_Subset, FS_CardinalityType
    <2> QED
      BY <1>1, <1>4, <1>5, <1>6, <2>2, <2>3 DEF A, B
  <1>9. ASSUME NEW new \in NewName(n), todo' = (todo \ {n}) \cup {new}
        PROVE  Cardinality(TurnsLeft') < Cardinality(TurnsLeft)
    <2> DEFINE N == Turns(new)
    <2>1. new \in Names /\ new[2] = n[2] + 1
      BY <1>1, <1>9, NewNameType
    <2>2. IsFiniteSet(N) /\ Cardinality(N) = MaxRename - new[2] + 1
      BY <2>1, TurnsCount
    <2>3. ASSUME NEW t \in Names \X (0..MaxRename), t[1] = new, t[1][2] <= t[2]
          PROVE  t \in N
      <3>1. t = <<new, t[2]>> /\ t[2] \in new[2]..MaxRename
        <4>1. t[2] \in 0..MaxRename /\ new[2] \in Nat
          BY <1>1, <2>1
        <4> QED
          BY <1>1, <2>3, <4>1
      <3> QED
        BY <3>1 DEF Turns
    <2> HIDE DEF N, R
    <2>4. B \subseteq R \cup N
      <3> SUFFICES ASSUME NEW t \in B PROVE t \in R \cup N
        OBVIOUS
      <3>1. t \in Names \X (0..MaxRename) /\ t[1] \in todo' /\ t[1][2] <= t[2]
        BY <1>3
      <3>2. CASE t[1] = new
        BY <2>3, <3>1, <3>2
      <3>3. CASE t[1] # new
        BY <1>7, <1>9, <3>1, <3>3
      <3> QED
        BY <3>2, <3>3
    <2>5. /\ IsFiniteSet(R \cup N)
          /\ Cardinality(R \cup N) = Cardinality(R) + Cardinality(N) - Cardinality(R \cap N)
      BY <1>6, <2>2, FS_Union
    <2>6. Cardinality(B) <= Cardinality(R \cup N) /\ IsFiniteSet(B) /\ IsFiniteSet(R \cap N)
      <3>1. B \in SUBSET (R \cup N) /\ R \cap N \in SUBSET R
        BY <2>4
      <3> QED
        BY <1>6, <2>5, <3>1, FS_Subset
    <2>7. /\ Cardinality(B) \in Nat /\ Cardinality(R) \in Nat /\ Cardinality(R \cap N) \in Nat
          /\ Cardinality(R \cup N) \in Nat
      BY <1>6, <2>5, <2>6, FS_CardinalityType
    <2> QED
      BY <1>1, <1>4, <1>5, <1>6, <2>1, <2>2, <2>5, <2>6, <2>7 DEF A, B
  <1> QED
    BY <1>8, <1>9 DEF A, B

LEMMA StageType ==
  ASSUME TypeOK
  PROVE  StagesLeft \in Nat /\ Stage[phase] \in 0..8
  <1>1. Stage[phase] \in 0..8
    BY DEF TypeOK, Scans, Stage
  <1> QED
    BY <1>1 DEF StagesLeft

(* A step of a scan that takes a turn. *)
LEMMA TurnAdvances ==
  ASSUME TypeOK, TypeOK', UNCHANGED <<phase, reading, left>>, NEW n \in todo,
         \/ todo' = todo \ {n}
         \/ \E new \in NewName(n) : todo' = (todo \ {n}) \cup {new}
  PROVE  StagesLeft' = StagesLeft /\ Remaining' \in Nat /\ Remaining' < Remaining
  <1> DEFINE a == Cardinality(TurnsLeft)
             b == Cardinality(TurnsLeft')
             c == Cardinality(left)
  <1>1. b < a
    BY TurnTaken
  <1>2. a \in Nat /\ c \in Nat
    BY TurnsFinite
  <1>3. b \in Nat
    <2>1. (Cardinality(TurnsLeft) \in Nat)'
      BY TurnsFinite, PTL
    <2> QED
      BY <2>1
  <1>4. Remaining = a + c /\ Remaining' = b + c
    BY DEF Remaining
  <1> HIDE DEF a, b, c
  <1>5. Remaining' \in Nat /\ Remaining' < Remaining
    BY <1>1, <1>2, <1>3, <1>4
  <1> QED
    BY <1>5 DEF StagesLeft

LEMMA ScanCloses ==
  ASSUME TypeOK, phase \in Scans, EndScan
  PROVE  StagesLeft' < StagesLeft
  <1>1. phase \in {"rename", "unlink", "comet"} /\ phase' = After[phase] /\ reading' = FALSE
    BY DEF Scans, EndScan
  <1>2. Stage[phase'] + 1 <= Stage[phase] /\ Stage[phase'] \in Nat /\ Stage[phase] \in Nat
    BY <1>1 DEF After, Stage
  <1> QED
    BY <1>1, <1>2 DEF StagesLeft

(* The scans end for every directory and whatever calls fail. *)
THEOREM EveryStepAdvances == Spec => ScansAdvance
  <1>1. TypeOK /\ TypeOK' /\ [Next]_vars =>
          [phase \notin {"umount", "crashed"} =>
             /\ StagesLeft' \in Nat
             /\ \/ StagesLeft' < StagesLeft
                \/ /\ StagesLeft' = StagesLeft
                   /\ Remaining' \in Nat /\ Remaining' < Remaining]_vars
    <2> SUFFICES ASSUME TypeOK, TypeOK', Next, vars' # vars, phase \notin {"umount", "crashed"}
                 PROVE  /\ StagesLeft' \in Nat
                        /\ \/ StagesLeft' < StagesLeft
                           \/ /\ StagesLeft' = StagesLeft
                              /\ Remaining' \in Nat /\ Remaining' < Remaining
      OBVIOUS
    <2>0. StagesLeft' \in Nat
      <3>1. (StagesLeft \in Nat)'
        BY StageType, PTL
      <3> QED
        BY <3>1
    <2> DEFINE Advances == \/ StagesLeft' < StagesLeft
                           \/ /\ StagesLeft' = StagesLeft
                              /\ Remaining' \in Nat /\ Remaining' < Remaining
    <2> SUFFICES Advances
      BY <2>0
    <2>1. CASE OpenDir
      <3>1. CASE reading' = TRUE /\ UNCHANGED phase
        <4>1. ~reading /\ Stage[phase] \in Nat
          BY <2>1, StageType DEF OpenDir
        <4> QED
          BY <3>1, <4>1 DEF StagesLeft
      <3>2. CASE EndScan
        <4>1. phase \in Scans
          BY <2>1 DEF OpenDir
        <4> QED
          BY <3>2, <4>1, ScanCloses
      <3>3. (reading' = TRUE /\ UNCHANGED phase) \/ EndScan
        BY <2>1 DEF OpenDir
      <3> QED
        BY <3>1, <3>2, <3>3
    <2>2. CASE CloseDir
      BY <2>2, ScanCloses DEF CloseDir
    <2>3. ASSUME NEW n \in todo, StatFails(n) PROVE Advances
      BY <2>3, ScanCloses DEF StatFails
    <2>4. ASSUME NEW n \in todo, RenameEntry(n) PROVE Advances
      <3>1. UNCHANGED <<phase, reading, left>>
        BY <2>4 DEF RenameEntry
      <3>2. \/ todo' = todo \ {n}
            \/ \E new \in NewName(n) : todo' = (todo \ {n}) \cup {new}
        BY <2>4 DEF RenameEntry
      <3> QED
        BY <3>1, <3>2, TurnAdvances
    <2>5. ASSUME NEW n \in todo, RenameOverflows(n) PROVE Advances
      <3>1. phase = "rename" /\ reading = TRUE /\ phase' = "crashed" /\ reading' = reading
        BY <2>5 DEF RenameOverflows, Returns, TypeOK
      <3> QED
        BY <3>1 DEF StagesLeft, Stage
    <2>6. ASSUME NEW n \in todo, UnlinkEntry(n) \/ CometEntry(n) PROVE Advances
      <3>1. UNCHANGED <<phase, reading, left>> /\ todo' = todo \ {n}
        BY <2>6 DEF UnlinkEntry, CometEntry
      <3> QED
        BY <3>1, TurnAdvances
    <2>7. CASE GenCsv \/ Bench1 \/ Bench2 \/ NoComet
      <3>1. /\ reading' = reading /\ phase \in {"csv", "bench1", "bench2", "create"}
            /\ \/ phase = "csv" /\ phase' \in {"bench1", "crashed"}
               \/ phase = "bench1" /\ phase' = "unlink"
               \/ phase = "bench2" /\ phase' = "create"
               \/ phase = "create" /\ phase' = "umount"
        BY <2>7 DEF GenCsv, Bench1, Bench2, NoComet, options
      <3>2. reading = FALSE
        BY <3>1 DEF TypeOK, Scans
      <3> QED
        BY <3>1, <3>2 DEF StagesLeft, Stage
    <2>8. ASSUME NEW c \in left, CreateComet(c) PROVE Advances
      <3>1. /\ phase = "create" /\ left' = left \ {c} /\ reading' = reading /\ todo' = todo
            /\ phase' \in {"comet", "create"}
        BY <2>8 DEF CreateComet
      <3>2. CASE phase' = "comet"
        <4>1. reading = FALSE
          BY <3>1 DEF TypeOK, Scans
        <4> QED
          BY <3>1, <3>2, <4>1 DEF StagesLeft, Stage
      <3>3. CASE phase' = "create"
        <4>1. Cardinality(left') = Cardinality(left) - 1
          BY <3>1, TurnsFinite, FS_RemoveElement
        <4>2. /\ Cardinality(TurnsLeft) \in Nat /\ Cardinality(left) \in Nat
              /\ TurnsLeft' = TurnsLeft
          BY <3>1, TurnsFinite DEF TurnsLeft
        <4>3. Cardinality(left') \in Nat
          <5>1. IsFiniteSet(left')
            BY <3>1, TurnsFinite, FS_RemoveElement
          <5> QED
            BY <5>1, FS_CardinalityType
        <4>4. StagesLeft' = StagesLeft
          BY <3>1, <3>3 DEF StagesLeft
        <4>5. Remaining' = Cardinality(TurnsLeft) + Cardinality(left')
          BY <4>2 DEF Remaining
        <4> QED
          BY <4>1, <4>2, <4>3, <4>4, <4>5 DEF Remaining
      <3> QED
        BY <3>1, <3>2, <3>3
    <2> HIDE DEF Advances
    <2> QED
      BY <2>1, <2>2, <2>3, <2>4, <2>5, <2>6, <2>7, <2>8, NextCases
  <1> QED
    BY <1>1, TypeCorrect, PTL DEF Spec, ScansAdvance
=============================================================================
