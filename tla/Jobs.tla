-------------------------------- MODULE Jobs ---------------------------------
(***************************************************************************)
(* Step 4 of fsbench.c: main starts one thread per job, joins them, then   *)
(* polls their flags; each job opens its files, writes, syncs and reads    *)
(* them round after round, closes them and raises its flag.                *)
(*                                                                         *)
(* One action is one call of a wrapper of libc/ or posix/ by one thread.   *)
(* What a job records is counted per wrapper in rec; how the record is     *)
(* stored is the subject of SampleRing.  A block of rwsize KB is one       *)
(* element of a file, and the element names the job that wrote it.         *)
(***************************************************************************)
EXTENDS Integers, Sequences

CONSTANTS Jobs,    \* jobs_num, the number of threads
          Stride,  \* the 64 of "test%d.mp4", index * 64 + i
          Sizes,   \* the <<prejobfilenum, count>> step 3 can arrive at
          MaxFiles,\* bound on the files of one job
          Faults   \* the calls that may fail: "create", "open", "write", "close"

ASSUME JobsAssumption ==
    /\ Jobs \in Nat \ {0}
    /\ Stride \in Nat \ {0}
    /\ MaxFiles \in Nat \ {0}
    /\ Sizes \subseteq (1..MaxFiles) \X (Nat \ {0})

Job == 0..Jobs-1

\* Results of fopen that are no open stream, and blocks no job wrote.
Null == -1
Closed == -2
Old == -1
Hole == -2

VARIABLES
    filenum,  \* prejobfilenum, files of each job
    rounds,   \* count, blocks each job writes to each of its files
    main,     \* what main does next
    k,        \* the loop counter of main: i of the loops, count of the polling
    thread,   \* state of the thread of each job
    flag,     \* flag[], raised by a job as its last statement
    wpc,      \* what each job does next
    wi, wj,   \* the loop counters i and j of each job
    handle,   \* handle[w][i]: position in the open stream, Null or Closed
    files,    \* the blocks of every file a job may open
    rec,      \* records each job has made with each wrapper
    got       \* reads that returned a block

vars == <<filenum, rounds, main, k, thread, flag, wpc, wi, wj, handle, files,
          rec, got>>
sizes == <<filenum, rounds>>
mainVars == <<main, k, thread>>
jobVars == <<flag, wpc, wi, wj, handle, files, rec, got>>

Apis == {"fopen", "fwrite", "fsync", "sync", "fread", "fclose"}

(* mutant: the next job's numbers start one too early *)
FileOfShort(w, i) == w * (Stride - 1) + i
(* The file name of job w's i-th file. *)
FileOf(w, i) == w * Stride + i

Name == {FileOf(w, i) : w \in Job, i \in 0..MaxFiles-1}

Init ==
    /\ \E s \in Sizes : filenum = s[1] /\ rounds = s[2]
    /\ main = "create" /\ k = 0
    /\ thread = [w \in Job |-> "none"]
    /\ flag = [w \in Job |-> FALSE]
    /\ wpc = [w \in Job |-> "open"]
    /\ wi = [w \in Job |-> 0] /\ wj = [w \in Job |-> 0]
    /\ handle = [w \in Job |-> [i \in 0..MaxFiles-1 |-> Null]]
    /\ \E old \in {<< >>, <<Old>>} : files = [n \in Name |-> old]
    /\ rec = [w \in Job |-> [a \in Apis |-> 0]]
    /\ got = 0

-----------------------------------------------------------------------------
(* main *)

\* Leave the loop over the jobs for label l after the last one.
NextJob(here, l) ==
    IF k = Jobs - 1 THEN main' = l /\ k' = 0
                    ELSE main' = here /\ k' = k + 1

(* sys_pthread_create returns ENOMEM or ERROR when malloc or pthread_create
   fails, and main does not look at what it returns. *)
Create ==
    /\ main = "create"
    /\ \E s \in {"running"} \cup (IF "create" \in Faults THEN {"failed"} ELSE {}) :
          thread' = [thread EXCEPT ![k] = s]
    /\ NextJob("create", "join")
    /\ UNCHANGED <<sizes, jobVars>>

(* The threads are detached: pthread_join returns EINVAL at once.  With an id
   that was never stored, or of a thread whose stack is unmapped already, it
   may also take the process down. *)
Join ==
    /\ main = "join"
    /\ \/ NextJob("join", "poll")
       \/ thread[k] \in {"failed", "ended"} /\ main' = "crashed" /\ UNCHANGED k
    /\ UNCHANGED <<sizes, thread, jobVars>>

(* mutant: the scan goes on with the next job where it should start again *)
PollOnward ==
    /\ main = "poll"
    /\ NextJob("poll", "scan")
    /\ UNCHANGED <<sizes, thread, jobVars>>
(* One iteration of the loop that waits for every flag. *)
Poll ==
    /\ main = "poll"
    /\ IF ~flag[k] THEN k' = 0 /\ UNCHANGED main
                   ELSE NextJob("poll", "scan")
    /\ UNCHANGED <<sizes, thread, jobVars>>

Main == Create \/ Join \/ Poll

-----------------------------------------------------------------------------
(* The jobs *)

\* Thread w of the living process is about to do l.
At(w, l) == main # "crashed" /\ thread[w] = "running" /\ wpc[w] = l

Goto(w, l) == wpc' = [wpc EXCEPT ![w] = l]
Count(w, api) == rec' = [rec EXCEPT ![w][api] = @ + 1]
IsOpen(w) == handle[w][wi[w]] \in Nat

(* mutant: one file too many *)
NextFilePastLast(w, here, l) ==
    IF wi[w] = filenum THEN Goto(w, l) /\ wi' = [wi EXCEPT ![w] = 0]
                       ELSE Goto(w, here) /\ wi' = [wi EXCEPT ![w] = @ + 1]
\* Leave the loop over the files for label l after the last one.
NextFile(w, here, l) ==
    IF wi[w] = filenum - 1 THEN Goto(w, l) /\ wi' = [wi EXCEPT ![w] = 0]
                           ELSE Goto(w, here) /\ wi' = [wi EXCEPT ![w] = @ + 1]

(* sys_libc_fopen with "w+": the file is created or emptied. *)
Open(w) ==
    /\ At(w, "open")
    /\ \/ /\ files' = [files EXCEPT ![FileOf(w, wi[w])] = << >>]
          /\ handle' = [handle EXCEPT ![w][wi[w]] = 0]
          /\ Count(w, "fopen")
       \/ "open" \in Faults /\ UNCHANGED <<files, handle, rec>>
    /\ NextFile(w, "open", "write")
    /\ UNCHANGED <<sizes, mainVars, flag, wj, got>>

\* File content s after w wrote a block at position p.
WriteAt(s, p, w) ==
    [n \in 1..(IF Len(s) > p THEN Len(s) ELSE p + 1) |->
        IF n = p + 1 THEN w ELSE IF n <= Len(s) THEN s[n] ELSE Hole]

(* sys_libc_fwrite records only a complete write, and nothing for NULL. *)
Write(w) ==
    /\ At(w, "write")
    /\ \/ LET f == FileOf(w, wi[w])
              p == handle[w][wi[w]]
          IN /\ IsOpen(w)
             /\ files' = [files EXCEPT ![f] = WriteAt(@, p, w)]
             /\ handle' = [handle EXCEPT ![w][wi[w]] = p + 1]
             /\ Count(w, "fwrite")
       \/ /\ ~IsOpen(w) \/ "write" \in Faults
          /\ UNCHANGED <<files, handle, rec>>
    /\ Goto(w, "fsync")
    /\ UNCHANGED <<sizes, mainVars, flag, wi, wj, got>>

(* mutant: only a successful fsync is recorded, as fopen and fwrite do *)
FsyncOnSuccess(w) ==
    /\ At(w, "fsync")
    /\ \E ok \in BOOLEAN : IF IsOpen(w) /\ ok THEN Count(w, "fsync") ELSE UNCHANGED rec
    /\ Goto(w, "sync")
    /\ UNCHANGED <<sizes, mainVars, flag, wi, wj, handle, files, got>>
(* sys_file_fsync records whatever fflush and fsync return. *)
Fsync(w) ==
    /\ At(w, "fsync")
    /\ IF IsOpen(w) THEN Count(w, "fsync") ELSE UNCHANGED rec
    /\ Goto(w, "sync")
    /\ UNCHANGED <<sizes, mainVars, flag, wi, wj, handle, files, got>>

(* sys_posix_sync records always, also for a file that could not be opened. *)
Sync(w) ==
    /\ At(w, "sync")
    /\ Count(w, "sync")
    /\ Goto(w, "read")
    /\ UNCHANGED <<sizes, mainVars, flag, wi, wj, handle, files, got>>

(* sys_libc_fread reads from where the write left the stream and records
   whether or not a block was there.  Then the loops over i and j go on. *)
Read(w) ==
    /\ At(w, "read")
    /\ IF IsOpen(w) THEN Count(w, "fread") ELSE UNCHANGED rec
    /\ IF IsOpen(w) /\ handle[w][wi[w]] < Len(files[FileOf(w, wi[w])])
         THEN /\ handle' = [handle EXCEPT ![w][wi[w]] = @ + 1]
              /\ got' = got + 1
         ELSE UNCHANGED <<handle, got>>
    /\ NextFile(w, "write", IF wj[w] < rounds - 1 THEN "write" ELSE "close")
    /\ wj' = IF wi[w] = filenum - 1 /\ wj[w] < rounds - 1
               THEN [wj EXCEPT ![w] = @ + 1] ELSE wj
    /\ UNCHANGED <<sizes, mainVars, flag, files>>

(* sys_libc_fclose ends the stream and records if fclose reports no error. *)
Close(w) ==
    /\ At(w, "close")
    /\ \/ IsOpen(w) /\ Count(w, "fclose")
       \/ (~IsOpen(w) \/ "close" \in Faults) /\ UNCHANGED rec
    /\ handle' = IF IsOpen(w) THEN [handle EXCEPT ![w][wi[w]] = Closed] ELSE handle
    /\ NextFile(w, "close", "flag")
    /\ UNCHANGED <<sizes, mainVars, flag, wj, files, got>>

(* mutant: every job raises the flag of the first one *)
RaiseFirst(w) ==
    /\ At(w, "flag")
    /\ flag' = [flag EXCEPT ![0] = TRUE]
    /\ Goto(w, "done")
    /\ UNCHANGED <<sizes, mainVars, wi, wj, handle, files, rec, got>>
(* flag[param->index] = 1 *)
Raise(w) ==
    /\ At(w, "flag")
    /\ flag' = [flag EXCEPT ![w] = TRUE]
    /\ Goto(w, "done")
    /\ UNCHANGED <<sizes, mainVars, wi, wj, handle, files, rec, got>>

(* The function returns to sys_thread_wrapper, and the thread ends. *)
Return(w) ==
    /\ At(w, "done")
    /\ thread' = [thread EXCEPT ![w] = "ended"]
    /\ UNCHANGED <<sizes, main, k, jobVars>>

Testlibc_func(w) ==
    \/ Open(w)
    \/ Write(w)
    \/ Fsync(w)
    \/ Sync(w)
    \/ Read(w)
    \/ Close(w)
    \/ Raise(w)
    \/ Return(w)

(* Main goes on with the first directory scan, or the process is gone. *)
Over == main \in {"scan", "crashed"} /\ UNCHANGED vars

Next == Main \/ (\E w \in Job : Testlibc_func(w)) \/ Over

(* The kernel schedules every runnable thread. *)
Fairness == WF_vars(Main) /\ \A w \in Job : WF_vars(Testlibc_func(w))

Spec == Init /\ [][Next]_vars /\ Fairness

-----------------------------------------------------------------------------
(* Type invariant. *)
TypeOK ==
    /\ filenum \in 1..MaxFiles /\ rounds \in Nat \ {0}
    /\ main \in {"create", "join", "poll", "scan", "crashed"}
    /\ k \in Job
    /\ thread \in [Job -> {"none", "running", "failed", "ended"}]
    /\ flag \in [Job -> BOOLEAN]
    /\ wpc \in [Job -> {"open", "write", "fsync", "sync", "read", "close", "flag", "done"}]
    /\ wi \in [Job -> 0..MaxFiles-1] /\ \A w \in Job : wi[w] < filenum
    /\ wj \in [Job -> 0..rounds-1]
    /\ handle \in [Job -> [0..MaxFiles-1 -> Nat \cup {Null, Closed}]]
    /\ files \in [Name -> Seq(Job \cup {Old, Hole})]
    /\ rec \in [Job -> [Apis -> Nat]]
    /\ got \in Nat

(* Joining detached threads waits for nothing; the polling of the flags alone
   keeps the directory scan away from files the jobs still use: when main
   starts it, every job has nothing left to do and holds no stream, although
   its thread may not have ended yet. *)
ScanAfterJobs ==
    main = "scan" => \A w \in Job :
        wpc[w] = "done" /\ \A i \in 0..filenum-1 : handle[w][i] \notin Nat

(* While a job has at most 64 files, no other job writes into a file that is
   open for it, and what an earlier run left there is gone. *)
OwnFiles ==
    filenum <= Stride =>
        \A w \in Job, i \in 0..filenum-1 :
            handle[w][i] # Null =>
                \A n \in DOMAIN files[FileOf(w, i)] : files[FileOf(w, i)][n] = w

(* How the rows of the CSV file relate, by what each job adds to them: a sync
   per file and round, even for a file that could not be opened; as many reads
   as fsyncs, one per opened file and round; no more writes than fsyncs; no
   more closes than opens. *)
RecordsBalance ==
    \A w \in Job : wpc[w] = "done" =>
        /\ rec[w]["sync"] = filenum * rounds
        /\ rec[w]["fsync"] = rec[w]["fopen"] * rounds
        /\ rec[w]["fread"] = rec[w]["fsync"]
        /\ rec[w]["fwrite"] <= rec[w]["fsync"]
        /\ rec[w]["fclose"] <= rec[w]["fopen"]

(* Unless a thread could not be created, main gets past the polling (or the
   process dies in pthread_join). *)
PollEnds ==
    (main = "join" /\ \A w \in Job : thread[w] # "failed")
        ~> main \in {"scan", "crashed"}

(* "wait for every job finish" (fsbench.c:288) does not wait for a job that
   does not exist: main goes on to the scans. *)
MainGoesOn == <>(main \in {"scan", "crashed"})

(* "write file then read file" (fsbench.c:269): a read returns data. *)
ReadsBack ==
    (main = "scan" /\ \E w \in Job : rec[w]["fwrite"] > 0) => got > 0
=============================================================================
