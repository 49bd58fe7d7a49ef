------------------------------ MODULE Session --------------------------------
(***************************************************************************)
(* One run of main after another (fsbench.c steps 1 to 3 and its exits):   *)
(* the options are checked, what is mounted at MOUNT_PATH is unmounted,    *)
(* the device is mounted and asked for its free space, and the space is    *)
(* divided among the jobs.  A run that ends without umount leaves the      *)
(* mount to the next one.                                                  *)
(*                                                                         *)
(* Quantities are integers in the units of the code; Kilo stands for its   *)
(* 1024 and Word for the 2^32 of UINT.                                     *)
(***************************************************************************)
EXTENDS Integers

CONSTANTS Kilo,       \* bytes in a KB, KB in a MB
          Word,       \* 2^32
          MaxJobs,    \* length of taskid[], threadparam[] and flag[]
          JobNums,    \* arguments of -j
          FileSizes,  \* arguments of -l, MB
          RwSizes,    \* arguments of -s, KB
          Statfs,     \* what statfs may return: [bsize, blocks, bavail]
          MaxMounts   \* bound on the mounts stacked at MOUNT_PATH

ASSUME SessionAssumption ==
    /\ Kilo \in Nat \ {0}
    /\ Word \in Nat \ {0}
    /\ MaxJobs \in Nat \ {0}
    /\ JobNums \subseteq Int
    /\ FileSizes \subseteq Int
    /\ RwSizes \subseteq Int
    /\ Statfs \subseteq [bsize : Nat, blocks : Nat, bavail : Nat]
    /\ MaxMounts \in Nat \ {0}

VARIABLES
    phase,    \* what main does next; "over" when there is no process
    why,      \* how the last run ended
    point,    \* the directory MOUNT_PATH exists
    mounts,   \* mounts stacked there
    busy,     \* an umount has failed with something mounted
    opt,      \* jobs_num, filesize and rwsize
    medium,   \* what statfs returned
    prejobsize, prejobfilenum  \* the outcome of step 3

vars == <<phase, why, point, mounts, busy, opt, medium, prejobsize, prejobfilenum>>
system == <<point, mounts, busy>>
sizes == <<medium, prejobsize, prejobfilenum>>

NoMedium == [bsize |-> 0, blocks |-> 0, bavail |-> 0]
NoOption == [jobs |-> 0, filesize |-> 1, rwsize |-> 1]

Init ==
    /\ phase = "options" /\ why = "none"
    /\ point \in BOOLEAN
    /\ mounts = 0 /\ busy = FALSE
    /\ opt = NoOption /\ medium = NoMedium
    /\ prejobsize = 0 /\ prejobfilenum = 0

Goto(here, l) == phase = here /\ phase' = l /\ UNCHANGED why
End(reason) == phase' = "over" /\ why' = reason

-----------------------------------------------------------------------------
(* The operators marked "mutant" are plausible mistakes in the definition they
   precede; no specification uses them. *)

(* mutant: no upper limit *)
JobsAcceptedAny(j) == j >= 1
(* -j *)
JobsAccepted(j) == j >= 1 /\ j <= MaxJobs

(* -l: 1 MB to 1 GB *)
FileSizeAccepted(l) == l >= 1 /\ l <= Kilo

(* mutant: no upper limit *)
RwSizeAcceptedAny(s) == s >= 1
(* -s: 1 KB to 1 MB *)
RwSizeAccepted(s) == s >= 1 /\ s <= Kilo

(* The options; without -j jobs is 0. *)
ReadOptions ==
    /\ phase = "options"
    /\ \/ \E j \in JobNums, l \in FileSizes, s \in RwSizes, given \in BOOLEAN :
             /\ given => JobsAccepted(j)
             /\ FileSizeAccepted(l) /\ RwSizeAccepted(s)
             /\ opt' = [jobs |-> IF given THEN j ELSE 0, filesize |-> l, rwsize |-> s]
             /\ Goto("options", "umount")
       \/ End("usage") /\ UNCHANGED opt
    /\ UNCHANGED <<system, sizes>>

(* sys_medium_umount: nothing happens if the directory is not there, and its
   callers do not look at what it returns. *)
Umount ==
    \/ point /\ mounts > 0 /\ mounts' = mounts - 1 /\ UNCHANGED busy
    \/ point /\ mounts > 0 /\ busy' = TRUE /\ UNCHANGED mounts
    \/ (~point \/ mounts = 0) /\ UNCHANGED <<mounts, busy>>

(* mutant: what is mounted already is left alone *)
UmountFirstSkipped ==
    /\ Goto("umount", "mkdir")
    /\ UNCHANGED <<point, mounts, busy, opt, sizes>>
(* Step 1 begins with what an earlier run may have left. *)
UmountFirst ==
    /\ Goto("umount", "mkdir")
    /\ Umount
    /\ UNCHANGED <<point, opt, sizes>>

Mkdir ==
    /\ Goto("mkdir", "mount")
    /\ \/ point' = TRUE
       \/ UNCHANGED point
    /\ UNCHANGED <<mounts, busy, opt, sizes>>

(* sys_medium_mount *)
Mount ==
    /\ phase = "mount"
    /\ \/ /\ point /\ mounts < MaxMounts
          /\ mounts' = mounts + 1
          /\ Goto("mount", "info")
       \/ End("mount") /\ UNCHANGED mounts
    /\ UNCHANGED <<point, busy, opt, sizes>>

(* mutant: goto mounterror *)
GetInfoNoUmount ==
    /\ phase = "info"
    /\ \/ \E m \in Statfs : medium' = m /\ Goto("info", "alloc")
       \/ End("info") /\ UNCHANGED medium
    /\ UNCHANGED <<system, opt, prejobsize, prejobfilenum>>
(* sys_medium_get_info fails only if statfs does: goto getfsinfoerror. *)
GetInfo ==
    /\ phase = "info"
    /\ \/ \E m \in Statfs : medium' = m /\ Goto("info", "alloc")
       \/ phase' = "umount2" /\ why' = "info" /\ UNCHANGED medium
    /\ UNCHANGED <<system, opt, prejobsize, prejobfilenum>>

(* mutant: the size of the medium instead of what is left of it *)
TotalSize(m) ==
    LET kb == IF m.bsize >= Kilo THEN (m.bsize \div Kilo) * m.blocks
                                 ELSE (m.blocks \div Kilo) * m.bsize
    IN IF m.blocks < 1 THEN 0 ELSE (kb % Word) \div Kilo
(* uRemainSize, MB: the KB are cut to 32 bits; an empty medium has none. *)
RemainSize(m) ==
    LET kb == IF m.bsize >= Kilo THEN (m.bsize \div Kilo) * m.bavail
                                 ELSE (m.bavail \div Kilo) * m.bsize
    IN IF m.blocks < 1 THEN 0 ELSE (kb % Word) \div Kilo

(* Step 3: with no room for a file of each job main returns at once. *)
Allocate ==
    /\ phase = "alloc"
    /\ IF opt.jobs = 0
         THEN Goto("alloc", "test") /\ UNCHANGED <<prejobsize, prejobfilenum>>
         ELSE /\ prejobsize' = RemainSize(medium) \div opt.jobs
              /\ prejobfilenum' = prejobsize' \div opt.filesize
              /\ IF prejobfilenum' = 0 THEN End("nofile")
                                       ELSE Goto("alloc", "test")
    /\ UNCHANGED <<system, opt, medium>>

(* Steps 4 to 6 and the comet test (Jobs, DirScan). *)
Test ==
    /\ phase = "test" /\ phase' = "umount2" /\ why' = "done"
    /\ UNCHANGED <<system, opt, sizes>>

(* getfsinfoerror: *)
UmountLast ==
    /\ phase = "umount2" /\ phase' = "over" /\ UNCHANGED why
    /\ Umount
    /\ UNCHANGED <<point, opt, sizes>>

(* A signal, a crash in the test or the reset of the board ends the process;
   only the last takes the mounts along, and a /tmp in memory with them. *)
Killed ==
    /\ phase \notin {"options", "over"}
    /\ End("killed")
    /\ \/ UNCHANGED <<point, mounts>>
       \/ mounts' = 0 /\ UNCHANGED point
       \/ mounts' = 0 /\ point' = FALSE
    /\ UNCHANGED <<busy, opt, sizes>>

NextRun ==
    /\ phase = "over" /\ phase' = "options" /\ why' = "none"
    /\ opt' = NoOption /\ medium' = NoMedium
    /\ prejobsize' = 0 /\ prejobfilenum' = 0
    /\ UNCHANGED system

Next ==
    \/ ReadOptions
    \/ UmountFirst
    \/ Mkdir
    \/ Mount
    \/ GetInfo
    \/ Allocate
    \/ Test
    \/ UmountLast
    \/ Killed
    \/ NextRun

Spec == Init /\ [][Next]_vars

-----------------------------------------------------------------------------
(* Blocks of rwsize KB a job writes to each of its files. *)
Count == ((prejobsize \div prejobfilenum) * Kilo) \div opt.rwsize

FreeKB(m) == (m.bsize * m.bavail) \div Kilo

Phases == {"options", "umount", "mkdir", "mount", "info", "alloc", "test", "umount2", "over"}

-----------------------------------------------------------------------------
(* Type invariant. *)
TypeOK ==
    /\ phase \in Phases
    /\ why \in {"none", "usage", "mount", "info", "nofile", "done", "killed"}
    /\ point \in BOOLEAN /\ busy \in BOOLEAN
    /\ mounts \in 0..MaxMounts
    /\ opt \in [jobs : 0..MaxJobs, filesize : 1..Kilo, rwsize : 1..Kilo]
    /\ medium \in Statfs \cup {NoMedium}
    /\ prejobsize \in Nat /\ prejobfilenum \in Nat

JobsRun == phase = "test" /\ opt.jobs # 0

(* What the jobs are going to write fits into the free space of the medium,
   through all the truncating divisions of sys_medium_get_info, step 3 and
   Testlibc_func and although a large medium overflows the 32-bit size. *)
JobsFit ==
    JobsRun => opt.jobs * prejobfilenum * (Count * opt.rwsize) <= FreeKB(medium)

(* Every file gets at least one block and, but for a last partial block, the
   size of -l; it stays below twice that size.  This is what the divisions of
   step 3 and Testlibc_func give, not what the documentation says of -l:
   FileSizeAtMost. *)
FileSizeInRange ==
    JobsRun => /\ Count >= 1
               /\ Count * opt.rwsize > opt.filesize * Kilo - opt.rwsize
               /\ Count * opt.rwsize < 2 * opt.filesize * Kilo

(* -l is the maximum size of each file ("每个文件最大的size", ReadMe.md:30): no
   job writes more into one.  The quotient of step 3 is cut to whole files,
   and what is left over is divided among them. *)
FileSizeAtMost ==
    JobsRun => Count * opt.rwsize <= opt.filesize * Kilo

(* "One medium, one partition" (sys_medium.h:62): whatever runs were cut
   short, no second mount hides the first, unless an umount failed. *)
OneMount == ~busy => mounts <= 1

(* A run that ends by itself, for which fsbench.c has an umount on the way,
   leaves nothing mounted, not even what an earlier run had left. *)
NothingLeftMounted ==
    (phase = "over" /\ why \in {"mount", "info", "done"} /\ ~busy) => mounts = 0
=============================================================================
