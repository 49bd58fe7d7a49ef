----------------------------- MODULE JobsProofs ------------------------------
(***************************************************************************)
(* What holds of Jobs for every number of jobs, files and rounds.          *)
(***************************************************************************)
EXTENDS Jobs, SequenceTheorems, FiniteSetTheorems, TLAPS

(* Two files of jobs that stay within the numbering have different names. *)
LEMMA FileOfInjective ==
  ASSUME NEW v \in Nat, NEW w \in Nat, NEW i \in 0..Stride-1, NEW j \in 0..Stride-1,
         FileOf(v, i) = FileOf(w, j)
  PROVE  v = w /\ i = j
<1> USE JobsAssumption
<1>1. ASSUME NEW a \in Nat, NEW b \in Nat, a < b PROVE b * Stride >= a * Stride + Stride
  <2>1. PICK d \in Nat : b = a + 1 + d
    <3>1. b - a - 1 \in Nat /\ b = a + 1 + (b - a - 1)
      BY <1>1
    <3> QED
      BY <3>1
  <2>2. b * Stride = a * Stride + Stride + d * Stride
    BY <2>1
  <2>3. d * Stride \in Nat /\ a * Stride \in Nat
    BY <2>1
  <2> QED
    BY <2>2, <2>3
<1>2. v * Stride \in Nat /\ w * Stride \in Nat
  OBVIOUS
<1>3. ~(v < w)
  BY <1>1, <1>2 DEF FileOf
<1>4. ~(w < v)
  BY <1>1, <1>2 DEF FileOf
<1>5. v = w
  BY <1>3, <1>4
<1> QED
  BY <1>2, <1>5 DEF FileOf

(* Writing a block keeps a file a sequence of blocks. *)
LEMMA WriteAtType ==
  ASSUME NEW S, NEW s \in Seq(S), NEW p \in Nat, NEW w \in S, Hole \in S
  PROVE  WriteAt(s, p, w) \in Seq(S)
<1> DEFINE m == IF Len(s) > p THEN Len(s) ELSE p + 1
<1>1. Len(s) \in Nat /\ m \in Nat
  BY LenProperties
<1>2. \A n \in 1..m : n <= Len(s) => s[n] \in S
  BY <1>1, ElementOfSeq
<1>3. WriteAt(s, p, w) \in [1..m -> S]
  BY <1>1, <1>2 DEF WriteAt
<1> HIDE DEF m
<1> QED
  BY <1>1, <1>3, SeqDef

(* ... and at the end of the file it appends the block. *)
LEMMA WriteAtEnd ==
  ASSUME NEW S, NEW s \in Seq(S), NEW w
  PROVE  /\ Len(WriteAt(s, Len(s), w)) = Len(s) + 1
         /\ DOMAIN WriteAt(s, Len(s), w) = 1..(Len(s) + 1)
         /\ \A n \in 1..(Len(s) + 1) :
               WriteAt(s, Len(s), w)[n] = IF n = Len(s) + 1 THEN w ELSE s[n]
<1>1. Len(s) \in Nat /\ ~(Len(s) > Len(s))
  BY LenProperties
<1>2. WriteAt(s, Len(s), w) =
        [n \in 1..(Len(s) + 1) |-> IF n = Len(s) + 1 THEN w
                                   ELSE IF n <= Len(s) THEN s[n] ELSE Hole]
  BY <1>1 DEF WriteAt
<1>3. \A n \in 1..(Len(s) + 1) : n = Len(s) + 1 \/ n <= Len(s)
  BY <1>1
<1> QED
  BY <1>1, <1>2, <1>3

-----------------------------------------------------------------------------
(* The variables have their types, for every number of jobs and files. *)
THEOREM TypeCorrect == Spec => []TypeOK
<1> DEFINE Blocks == Job \cup {Old, Hole}
<1>1. Init => TypeOK
  <2> SUFFICES ASSUME Init PROVE TypeOK
    OBVIOUS
  <2>1. filenum \in 1..MaxFiles /\ rounds \in Nat \ {0} /\ MaxFiles \in Nat
    BY JobsAssumption DEF Init
  <2>2. files \in [Name -> Seq(Blocks)]
    <3>1. << >> \in Seq(Blocks) /\ <<Old>> \in Seq(Blocks)
      OBVIOUS
    <3> QED
      BY <3>1 DEF Init
  <2>3. k \in Job
    BY JobsAssumption DEF Init, Job
  <2>4. /\ wi \in [Job -> 0..MaxFiles-1] /\ \A w \in Job : wi[w] < filenum
        /\ wj \in [Job -> 0..rounds-1]
    BY <2>1 DEF Init
  <2>5. handle \in [Job -> [0..MaxFiles-1 -> Nat \cup {Null, Closed}]]
    BY DEF Init
  <2>6. rec \in [Job -> [Apis -> Nat]] /\ got \in Nat
    BY DEF Init
  <2>7. /\ thread \in [Job -> {"none", "running", "failed", "ended"}]
        /\ wpc \in [Job -> {"open", "write", "fsync", "sync", "read", "close", "flag", "done"}]
        /\ main \in {"create", "join", "poll", "scan", "crashed"}
    BY DEF Init
  <2>8. flag \in [Job -> BOOLEAN]
    BY DEF Init
  <2> HIDE DEF Blocks
  <2> QED
    BY <2>1, <2>2, <2>3, <2>4, <2>5, <2>6, <2>7, <2>8 DEF TypeOK, Blocks
<1>2. TypeOK /\ [Next]_vars => TypeOK'
  <2> SUFFICES ASSUME TypeOK, [Next]_vars PROVE TypeOK'
    OBVIOUS
  <2> USE JobsAssumption
  <2>0. ASSUME NEW w \in Job, NEW h, NEW l, NextFile(w, h, l)
        PROVE  wi' \in [Job -> 0..MaxFiles-1] /\ \A v \in Job : wi'[v] < filenum
    <3>1. wi[w] \in 0..filenum-1 /\ filenum \in 1..MaxFiles /\ filenum \in Nat /\ MaxFiles \in Nat
      BY DEF TypeOK
    <3>2. wi' = [wi EXCEPT ![w] = IF wi[w] = filenum - 1 THEN 0 ELSE wi[w] + 1]
      BY <2>0 DEF NextFile
    <3>3. 0 \in 0..filenum-1 /\ (wi[w] # filenum - 1 => wi[w] + 1 \in 0..filenum-1)
      BY <3>1
    <3>4. 0..filenum-1 \subseteq 0..MaxFiles-1 /\ \A x \in 0..filenum-1 : x < filenum
      BY <3>1
    <3>5. \A v \in Job : wi'[v] = wi[v] \/ wi'[v] \in 0..filenum-1
      BY <3>2, <3>3 DEF TypeOK
    <3> QED
      BY <3>2, <3>3, <3>4, <3>5 DEF TypeOK
  <2>00. ASSUME NEW h, NEW l, NextJob(h, l), h \in {"create", "join", "poll"},
                l \in {"join", "poll", "scan"}
         PROVE  k' \in Job /\ main' \in {"create", "join", "poll", "scan", "crashed"}
    BY <2>00 DEF NextJob, TypeOK, Job
  <2>000. ASSUME NEW w \in Job, NEW api \in Apis, Count(w, api)
          PROVE  rec' \in [Job -> [Apis -> Nat]]
    BY <2>000 DEF Count, TypeOK
  <2>1. CASE Create
    <3>1. k' \in Job /\ main' \in {"create", "join", "poll", "scan", "crashed"}
      BY <2>1, <2>00 DEF Create
    <3>2. thread' \in [Job -> {"none", "running", "failed", "ended"}]
      BY <2>1 DEF Create, TypeOK
    <3> QED
      BY <2>1, <3>1, <3>2 DEF Create, TypeOK, sizes, jobVars
  <2>2. CASE Join
    <3>1. k' \in Job /\ main' \in {"create", "join", "poll", "scan", "crashed"}
      BY <2>2, <2>00 DEF Join, TypeOK
    <3> QED
      BY <2>2, <3>1 DEF Join, TypeOK, sizes, jobVars
  <2>3. CASE Poll
    <3>1. k' \in Job /\ main' \in {"create", "join", "poll", "scan", "crashed"}
      <4>1. 0 \in Job
        BY DEF Job
      <4> QED
        BY <4>1, <2>3, <2>00 DEF Poll, TypeOK
    <3> QED
      BY <2>3, <3>1 DEF Poll, TypeOK, sizes, jobVars
  <2>4. ASSUME NEW w \in Job, Open(w) PROVE TypeOK'
    <3>1. wi[w] \in 0..MaxFiles-1
      BY DEF TypeOK
    <3>2. files' \in [Name -> Seq(Blocks)]
      <4>1. << >> \in Seq(Blocks)
        OBVIOUS
      <4>2. files \in [Name -> Seq(Blocks)]
        BY DEF TypeOK
      <4> HIDE DEF Blocks
      <4> QED
        BY <4>1, <4>2, <2>4 DEF Open
    <3>3. handle' \in [Job -> [0..MaxFiles-1 -> Nat \cup {Null, Closed}]]
      <4>1. [handle[w] EXCEPT ![wi[w]] = 0] \in [0..MaxFiles-1 -> Nat \cup {Null, Closed}]
        BY <3>1 DEF TypeOK
      <4> QED
        BY <4>1, <2>4 DEF Open, TypeOK
    <3>4. rec' \in [Job -> [Apis -> Nat]]
      BY <2>4, <2>000 DEF Open, Apis, TypeOK
    <3>5. wpc' \in [Job -> {"open", "write", "fsync", "sync", "read", "close", "flag", "done"}]
      BY <2>4 DEF Open, NextFile, Goto, TypeOK
    <3>6. wi' \in [Job -> 0..MaxFiles-1] /\ \A v \in Job : wi'[v] < filenum
      BY <2>4, <2>0 DEF Open
    <3> QED
      BY <2>4, <3>2, <3>3, <3>4, <3>5, <3>6 DEF Open, TypeOK, sizes, mainVars
  <2>5. ASSUME NEW w \in Job, Write(w) PROVE TypeOK'
    <3>1. wi[w] \in 0..MaxFiles-1
      BY DEF TypeOK
    <3>2. FileOf(w, wi[w]) \in Name
      BY <3>1 DEF Name
    <3>3. /\ files' \in [Name -> Seq(Blocks)]
          /\ handle' \in [Job -> [0..MaxFiles-1 -> Nat \cup {Null, Closed}]]
      <4>1. CASE UNCHANGED <<files, handle>>
        BY <4>1 DEF TypeOK
      <4>2. CASE ~UNCHANGED <<files, handle>>
        <5> DEFINE f == FileOf(w, wi[w])
                   p == handle[w][wi[w]]
        <5>1. /\ p \in Nat
              /\ files' = [files EXCEPT ![f] = WriteAt(files[f], p, w)]
              /\ handle' = [handle EXCEPT ![w] = [handle[w] EXCEPT ![wi[w]] = p + 1]]
          BY <4>2, <2>5 DEF Write, IsOpen
        <5>2. files[f] \in Seq(Blocks) /\ files \in [Name -> Seq(Blocks)]
          BY <3>2 DEF TypeOK
        <5>3. WriteAt(files[f], p, w) \in Seq(Blocks)
          BY <5>1, <5>2, WriteAtType
        <5>4. [handle[w] EXCEPT ![wi[w]] = p + 1] \in [0..MaxFiles-1 -> Nat \cup {Null, Closed}]
          BY <5>1, <3>1 DEF TypeOK
        <5>5. files' \in [Name -> Seq(Blocks)]
          BY <5>1, <5>2, <5>3
        <5> HIDE DEF f, p, Blocks
        <5> QED
          BY <5>1, <5>4, <5>5 DEF TypeOK
      <4> QED
        BY <4>1, <4>2
    <3>4. rec' \in [Job -> [Apis -> Nat]]
      BY <2>5, <2>000 DEF Write, Apis, TypeOK
    <3>5. wpc' \in [Job -> {"open", "write", "fsync", "sync", "read", "close", "flag", "done"}]
      BY <2>5 DEF Write, Goto, TypeOK
    <3> QED
      BY <2>5, <3>3, <3>4, <3>5 DEF Write, TypeOK, sizes, mainVars
  <2>6. ASSUME NEW w \in Job, Fsync(w) \/ Sync(w) PROVE TypeOK'
    <3>1. rec' \in [Job -> [Apis -> Nat]]
      BY <2>6, <2>000 DEF Fsync, Sync, Apis, TypeOK
    <3>2. wpc' \in [Job -> {"open", "write", "fsync", "sync", "read", "close", "flag", "done"}]
      BY <2>6 DEF Fsync, Sync, Goto, TypeOK
    <3> QED
      BY <2>6, <3>1, <3>2 DEF Fsync, Sync, TypeOK, sizes, mainVars
  <2>7. ASSUME NEW w \in Job, Read(w) PROVE TypeOK'
    <3>1. wi[w] \in 0..MaxFiles-1
      BY DEF TypeOK
    <3>2. handle' \in [Job -> [0..MaxFiles-1 -> Nat \cup {Null, Closed}]] /\ got' \in Nat
      <4>1. CASE UNCHANGED <<handle, got>>
        BY <4>1 DEF TypeOK
      <4>2. CASE ~UNCHANGED <<handle, got>>
        <5>1. /\ handle[w][wi[w]] \in Nat
              /\ handle' = [handle EXCEPT ![w] = [handle[w] EXCEPT ![wi[w]] = handle[w][wi[w]] + 1]]
              /\ got' = got + 1
          BY <4>2, <2>7 DEF Read, IsOpen
        <5>2. [handle[w] EXCEPT ![wi[w]] = handle[w][wi[w]] + 1]
                 \in [0..MaxFiles-1 -> Nat \cup {Null, Closed}]
          BY <5>1, <3>1 DEF TypeOK
        <5> QED
          BY <5>1, <5>2 DEF TypeOK
      <4> QED
        BY <4>1, <4>2
    <3>3. rec' \in [Job -> [Apis -> Nat]]
      BY <2>7, <2>000 DEF Read, Apis, TypeOK
    <3>4. wpc' \in [Job -> {"open", "write", "fsync", "sync", "read", "close", "flag", "done"}]
      BY <2>7 DEF Read, NextFile, Goto, TypeOK
    <3>5. wi' \in [Job -> 0..MaxFiles-1] /\ \A v \in Job : wi'[v] < filenum
      BY <2>7, <2>0 DEF Read
    <3>6. wj' \in [Job -> 0..rounds-1]
      <4>1. wj[w] \in 0..rounds-1 /\ rounds \in Nat
        BY DEF TypeOK
      <4>2. wj[w] < rounds - 1 => wj[w] + 1 \in 0..rounds-1
        BY <4>1
      <4> QED
        BY <4>2, <2>7 DEF Read, TypeOK
    <3> QED
      BY <2>7, <3>2, <3>3, <3>4, <3>5, <3>6 DEF Read, TypeOK, sizes, mainVars
  <2>8. ASSUME NEW w \in Job, Close(w) PROVE TypeOK'
    <3>1. wi[w] \in 0..MaxFiles-1
      BY DEF TypeOK
    <3>2. handle' \in [Job -> [0..MaxFiles-1 -> Nat \cup {Null, Closed}]]
      <4>1. [handle[w] EXCEPT ![wi[w]] = Closed] \in [0..MaxFiles-1 -> Nat \cup {Null, Closed}]
        BY <3>1 DEF TypeOK
      <4> QED
        BY <4>1, <2>8 DEF Close, TypeOK
    <3>3. rec' \in [Job -> [Apis -> Nat]]
      BY <2>8, <2>000 DEF Close, Apis, TypeOK
    <3>4. wpc' \in [Job -> {"open", "write", "fsync", "sync", "read", "close", "flag", "done"}]
      BY <2>8 DEF Close, NextFile, Goto, TypeOK
    <3>5. wi' \in [Job -> 0..MaxFiles-1] /\ \A v \in Job : wi'[v] < filenum
      BY <2>8, <2>0 DEF Close
    <3> QED
      BY <2>8, <3>2, <3>3, <3>4, <3>5 DEF Close, TypeOK, sizes, mainVars
  <2>9. ASSUME NEW w \in Job, Raise(w) PROVE TypeOK'
    <3>1. flag' \in [Job -> BOOLEAN]
      BY <2>9 DEF Raise, TypeOK
    <3>2. wpc' \in [Job -> {"open", "write", "fsync", "sync", "read", "close", "flag", "done"}]
      BY <2>9 DEF Raise, Goto, TypeOK
    <3> QED
      BY <2>9, <3>1, <3>2 DEF Raise, TypeOK, sizes, mainVars
  <2>11. ASSUME NEW w \in Job, Return(w) PROVE TypeOK'
    <3>1. thread' \in [Job -> {"none", "running", "failed", "ended"}]
      BY <2>11 DEF Return, TypeOK
    <3> QED
      BY <2>11, <3>1 DEF Return, TypeOK, sizes, jobVars
  <2>10. CASE Over \/ UNCHANGED vars
    BY <2>10 DEF Over, vars, TypeOK
  <2> QED
    BY <2>1, <2>2, <2>3, <2>4, <2>5, <2>6, <2>7, <2>8, <2>9, <2>10, <2>11
    DEF Next, Main, Testlibc_func
<1> QED
  BY <1>1, <1>2, PTL DEF Spec

-----------------------------------------------------------------------------
(* What the job has done with its own streams when it is at its label. *)
Released(w) ==
    /\ wpc[w] = "close" => \A i \in 0..wi[w]-1 : handle[w][i] \notin Nat
    /\ wpc[w] \in {"flag", "done"} => \A i \in 0..filenum-1 : handle[w][i] \notin Nat

(* A raised flag means that its job has nothing left to do, the jobs below the
   polling index have raised theirs, and a closing job has no open stream
   behind it. *)
PollInv ==
    /\ \A w \in Job : /\ flag[w] => wpc[w] = "done" /\ thread[w] \in {"running", "ended"}
                      /\ Released(w)
    /\ main = "create" => \A w \in Job : w >= k => thread[w] = "none"
    /\ main = "poll" => \A w \in Job : w < k => flag[w]
    /\ main = "scan" => \A w \in Job : flag[w]

(* A step of one job leaves the others alone. *)
LEMMA OthersKeep ==
  ASSUME TypeOK, NEW w \in Job, Testlibc_func(w), NEW v \in Job, v # w
  PROVE  /\ wpc'[v] = wpc[v] /\ wi'[v] = wi[v] /\ handle'[v] = handle[v]
         /\ flag'[v] = flag[v] /\ thread'[v] = thread[v]
<1> USE DEF TypeOK
<1>1. ASSUME Open(w) \/ Write(w)
      PROVE  /\ wpc'[v] = wpc[v] /\ wi'[v] = wi[v] /\ handle'[v] = handle[v]
             /\ flag'[v] = flag[v] /\ thread'[v] = thread[v]
  BY <1>1 DEF Open, Write, NextFile, Goto, mainVars
<1>2. ASSUME Fsync(w) \/ Sync(w) \/ Read(w)
      PROVE  /\ wpc'[v] = wpc[v] /\ wi'[v] = wi[v] /\ handle'[v] = handle[v]
             /\ flag'[v] = flag[v] /\ thread'[v] = thread[v]
  BY <1>2 DEF Fsync, Sync, Read, NextFile, Goto, mainVars
<1>3. ASSUME Close(w) \/ Raise(w)
      PROVE  /\ wpc'[v] = wpc[v] /\ wi'[v] = wi[v] /\ handle'[v] = handle[v]
             /\ flag'[v] = flag[v] /\ thread'[v] = thread[v]
  BY <1>3 DEF Close, Raise, NextFile, Goto, mainVars
<1>4. ASSUME Return(w)
      PROVE  /\ wpc'[v] = wpc[v] /\ wi'[v] = wi[v] /\ handle'[v] = handle[v]
             /\ flag'[v] = flag[v] /\ thread'[v] = thread[v]
  BY <1>4 DEF Return, jobVars
<1> QED
  BY <1>1, <1>2, <1>3, <1>4 DEF Testlibc_func

LEMMA ReleasedStep ==
  ASSUME TypeOK, PollInv, NEW w \in Job, Testlibc_func(w)
  PROVE  Released(w)'
<1>0. wi[w] \in 0..filenum-1 /\ filenum \in 1..MaxFiles /\ MaxFiles \in Nat
  BY JobsAssumption DEF TypeOK
<1>1. ASSUME Open(w) \/ Write(w) \/ Fsync(w) \/ Sync(w) PROVE Released(w)'
  <2>1. wpc'[w] \in {"open", "write", "fsync", "sync", "read"}
    BY <1>1 DEF Open, Write, Fsync, Sync, NextFile, Goto, TypeOK
  <2> QED
    BY <2>1 DEF Released
<1>2. ASSUME Read(w) PROVE Released(w)'
  <2>1. /\ wpc'[w] \in {"write", "close"}
        /\ wpc'[w] = "close" => wi'[w] = 0
    BY <1>2 DEF Read, NextFile, Goto, TypeOK
  <2> QED
    BY <2>1 DEF Released
<1>3. ASSUME Close(w) PROVE Released(w)'
  <2>1. /\ wpc[w] = "close" /\ filenum' = filenum
        /\ handle' = IF IsOpen(w) THEN [handle EXCEPT ![w][wi[w]] = Closed] ELSE handle
        /\ NextFile(w, "close", "flag")
    BY <1>3 DEF Close, At, sizes
  <2>2. \A i \in 0..wi[w]-1 : handle[w][i] \notin Nat
    BY <2>1 DEF PollInv, Released
  <2>3. handle[w] \in [0..MaxFiles-1 -> Nat \cup {Null, Closed}] /\ wi[w] \in 0..MaxFiles-1
    BY DEF TypeOK
  <2>4. Closed \notin Nat
    BY DEF Closed
  <2>5. handle'[w] = IF IsOpen(w) THEN [handle[w] EXCEPT ![wi[w]] = Closed] ELSE handle[w]
    BY <2>1 DEF TypeOK
  <2>6. handle'[w][wi[w]] \notin Nat
    BY <2>3, <2>4, <2>5 DEF IsOpen
  <2>7. \A i \in 0..MaxFiles-1 : i # wi[w] => handle'[w][i] = handle[w][i]
    BY <2>3, <2>5
  <2>8. ASSUME NEW i \in 0..wi[w] PROVE handle'[w][i] \notin Nat
    <3>1. i \in 0..MaxFiles-1 /\ (i = wi[w] \/ i \in 0..wi[w]-1)
      BY <1>0
    <3> QED
      BY <3>1, <2>2, <2>6, <2>7
  <2>9. CASE wi[w] = filenum - 1
    <3>1. wpc'[w] = "flag"
      BY <2>1, <2>9 DEF NextFile, Goto, TypeOK
    <3> QED
      BY <3>1, <2>1, <2>8, <2>9 DEF Released
  <2>10. CASE wi[w] # filenum - 1
    <3>1. wpc'[w] = "close" /\ wi'[w] = wi[w] + 1
      BY <2>1, <2>10 DEF NextFile, Goto, TypeOK
    <3>2. 0..wi'[w]-1 = 0..wi[w]
      BY <3>1, <1>0
    <3> QED
      BY <3>1, <3>2, <2>8 DEF Released
  <2> QED
    BY <2>9, <2>10
<1>4. ASSUME Raise(w) PROVE Released(w)'
  <2>1. wpc[w] = "flag" /\ wpc'[w] = "done" /\ handle' = handle /\ filenum' = filenum
    BY <1>4 DEF Raise, At, Goto, sizes, TypeOK
  <2> QED
    BY <2>1 DEF PollInv, Released
<1>5. ASSUME Return(w) PROVE Released(w)'
  BY <1>5 DEF Return, jobVars, sizes, PollInv, Released
<1> QED
  BY <1>1, <1>2, <1>3, <1>4, <1>5 DEF Testlibc_func

LEMMA PollInvStep == TypeOK /\ PollInv /\ [Next]_vars => PollInv'
<1> SUFFICES ASSUME TypeOK, PollInv, [Next]_vars PROVE PollInv'
  OBVIOUS
<1> USE JobsAssumption
<1>0. ASSUME UNCHANGED <<sizes, jobVars>> PROVE \A w \in Job : Released(w)' = Released(w)
  BY <1>0 DEF Released, jobVars, sizes
<1>1. ASSUME Create PROVE PollInv'
  <2>1. /\ main = "create" /\ main' \in {"create", "join"}
        /\ main' = "create" => k' = k + 1
        /\ UNCHANGED <<sizes, jobVars>>
    BY <1>1 DEF Create, NextJob
  <2>2. \A w \in Job : thread'[w] = thread[w] \/ w = k
    BY <1>1 DEF Create, TypeOK
  <2>3. thread[k] = "none" /\ thread'[k] \in {"running", "failed"}
    BY <1>1 DEF Create, TypeOK, PollInv, Job
  <2>4. ~flag[k]
    BY <2>3 DEF PollInv, TypeOK
  <2>5. \A w \in Job : w \in Nat /\ (w >= k + 1 => w >= k /\ w # k)
    BY DEF Job, TypeOK
  <2> QED
    BY <2>1, <2>2, <2>3, <2>4, <2>5, <1>0 DEF PollInv, jobVars
<1>2. ASSUME Join PROVE PollInv'
  <2>1. /\ main' \in {"join", "poll", "crashed"}
        /\ main' = "poll" => k' = 0
        /\ UNCHANGED <<sizes, thread, jobVars>>
    BY <1>2 DEF Join, NextJob
  <2>2. \A w \in Job : ~(w < 0)
    BY DEF Job
  <2> QED
    BY <2>1, <2>2, <1>0 DEF PollInv, jobVars
<1>3. ASSUME Poll PROVE PollInv'
  <2>1. /\ main = "poll" /\ UNCHANGED <<sizes, thread, jobVars>>
        /\ \/ main' = "poll" /\ k' = 0
           \/ flag[k] /\ main' = "poll" /\ k' = k + 1
           \/ flag[k] /\ main' = "scan" /\ k = Jobs - 1
    BY <1>3 DEF Poll, NextJob
  <2>2. \A w \in Job : /\ ~(w < 0)
                       /\ w < k + 1 => w < k \/ w = k
                       /\ k = Jobs - 1 => w < k \/ w = k
    BY DEF Job, TypeOK
  <2> QED
    BY <2>1, <2>2, <1>0 DEF PollInv, jobVars
<1>4. ASSUME NEW w \in Job, Testlibc_func(w) PROVE PollInv'
  <2>1. Released(w)'
    BY <1>4, ReleasedStep
  <2>2. main' = main /\ k' = k /\ filenum' = filenum
    BY <1>4 DEF Testlibc_func, Open, Write, Fsync, Sync, Read, Close, Raise, Return,
                mainVars, sizes
  <2>3. thread[w] = "running" /\ main # "crashed"
    BY <1>4 DEF Testlibc_func, Open, Write, Fsync, Sync, Read, Close, Raise, Return, At
  <2>4. \/ wpc[w] # "done" /\ flag' = flag /\ thread' = thread
        \/ wpc'[w] = "done" /\ flag'[w] = TRUE /\ thread' = thread
        \/ wpc' = wpc /\ flag' = flag /\ thread'[w] = "ended"
    <3>1. CASE Open(w) \/ Write(w) \/ Fsync(w) \/ Sync(w) \/ Read(w) \/ Close(w)
      BY <3>1 DEF Open, Write, Fsync, Sync, Read, Close, At, mainVars
    <3>2. CASE Raise(w)
      BY <3>2 DEF Raise, Goto, mainVars, TypeOK
    <3>3. CASE Return(w)
      BY <3>3 DEF Return, jobVars, TypeOK
    <3> QED
      BY <1>4, <3>1, <3>2, <3>3 DEF Testlibc_func
  <2>6. main = "create" => ~(w >= k)
    BY <2>3 DEF PollInv
  <2>7. ASSUME NEW v \in Job, v # w
        PROVE  /\ wpc'[v] = wpc[v] /\ thread'[v] = thread[v] /\ flag'[v] = flag[v]
               /\ Released(v)'
    <3>1. /\ wpc'[v] = wpc[v] /\ wi'[v] = wi[v] /\ handle'[v] = handle[v]
          /\ flag'[v] = flag[v] /\ thread'[v] = thread[v]
      BY <1>4, <2>7, OthersKeep
    <3> QED
      BY <3>1, <2>2 DEF Released, PollInv
  <2>8. flag'[w] => wpc'[w] = "done" /\ thread'[w] \in {"running", "ended"}
    BY <2>3, <2>4 DEF PollInv
  <2>9. flag[w] => flag'[w]
    BY <2>4
  <2> QED
    BY <2>1, <2>2, <2>6, <2>7, <2>8, <2>9 DEF PollInv
<1>5. ASSUME Over \/ UNCHANGED vars PROVE PollInv'
  <2>1. UNCHANGED <<sizes, jobVars>> /\ UNCHANGED <<main, k, thread>>
    BY <1>5 DEF Over, vars, sizes, jobVars
  <2> QED
    BY <2>1, <1>0 DEF PollInv, jobVars
<1> QED
  BY <1>1, <1>2, <1>3, <1>4, <1>5 DEF Next, Main

(* For every number of jobs: main scans the directory only after every job has
   raised its flag and given its streams back, although the joins wait for
   nothing. *)
THEOREM BarrierHolds == Spec => []ScanAfterJobs
<1>1. Init => PollInv
  BY DEF Init, PollInv, Released
<1>2. PollInv => ScanAfterJobs
  BY DEF PollInv, Released, ScanAfterJobs
<1> QED
  BY <1>1, <1>2, PollInvStep, TypeCorrect, PTL DEF Spec

-----------------------------------------------------------------------------
(* The strengthening of OwnFiles: a stream that is open stands at the end of
   its file, so that a write appends and leaves no hole. *)
AtEnd(w, i) ==
    LET file == files[FileOf(w, i)]
    IN /\ \A n \in DOMAIN file : file[n] = w
       /\ handle[w][i] \in Nat => handle[w][i] = Len(file)

FilesInv ==
    filenum <= Stride =>
        \A w \in Job, i \in 0..filenum-1 : handle[w][i] # Null => AtEnd(w, i)

(* The sizes are settled before the threads start. *)
LEMMA SizesKept == [Next]_vars => UNCHANGED sizes
<1> SUFFICES ASSUME [Next]_vars PROVE UNCHANGED sizes
  OBVIOUS
<1>1. CASE Main
  BY <1>1 DEF Main, Create, Join, Poll
<1>2. ASSUME NEW w \in Job, Testlibc_func(w) PROVE UNCHANGED sizes
  BY <1>2 DEF Testlibc_func, Open, Write, Fsync, Sync, Read, Close, Raise, Return
<1>3. CASE Over \/ UNCHANGED vars
  BY <1>3 DEF Over, vars, sizes
<1> QED
  BY <1>1, <1>2, <1>3 DEF Next

LEMMA FilesInvStep == TypeOK /\ FilesInv /\ [Next]_vars => FilesInv'
<1> SUFFICES ASSUME TypeOK, FilesInv, [Next]_vars PROVE FilesInv'
  OBVIOUS
<1>a. filenum' = filenum
  BY SizesKept DEF sizes
<1> SUFFICES ASSUME filenum <= Stride,
                    NEW v \in Job, NEW j \in 0..filenum-1, handle'[v][j] # Null
             PROVE  AtEnd(v, j)'
  BY <1>a DEF FilesInv
<1> USE JobsAssumption
<1> DEFINE Blocks == Job \cup {Old, Hole}
<1>0. /\ v \in Nat /\ j \in 0..MaxFiles-1 /\ j \in 0..Stride-1
      /\ filenum \in 1..MaxFiles /\ FileOf(v, j) \in Name
      /\ files \in [Name -> Seq(Blocks)]
      /\ handle[v] \in [0..MaxFiles-1 -> Nat \cup {Null, Closed}]
  <2>1. filenum \in 1..MaxFiles /\ Stride \in Nat /\ MaxFiles \in Nat
    BY DEF TypeOK
  <2>2. j \in 0..MaxFiles-1 /\ j \in 0..Stride-1
    BY <2>1
  <2>3. FileOf(v, j) \in Name
    BY <2>2 DEF Name
  <2>4. v \in Nat
    BY DEF Job
  <2> QED
    BY <2>1, <2>2, <2>3, <2>4 DEF TypeOK
<1>1. handle[v][j] # Null => AtEnd(v, j)
  BY DEF FilesInv
<1>2. ASSUME UNCHANGED <<handle, files>> PROVE AtEnd(v, j)'
  BY <1>1, <1>2 DEF AtEnd
<1>3. ASSUME NEW w \in Job, Open(w) \/ Write(w) PROVE AtEnd(v, j)'
  <2> DEFINE i == wi[w]
             f == FileOf(w, i)
  <2>1. i \in 0..filenum-1 /\ i \in 0..MaxFiles-1 /\ i \in 0..Stride-1 /\ w \in Nat /\ f \in Name
    <3>1. i \in 0..MaxFiles-1 /\ i < filenum /\ Stride \in Nat /\ filenum \in Nat
      BY <1>0 DEF TypeOK
    <3>2. i \in 0..filenum-1 /\ i \in 0..Stride-1
      BY <3>1
    <3>3. f \in Name
      BY <3>1 DEF Name
    <3>4. w \in Nat
      BY DEF Job
    <3> QED
      BY <3>1, <3>2, <3>3, <3>4
  <2>2. CASE UNCHANGED <<handle, files>>
    BY <1>2, <2>2
  <2>3. CASE ~UNCHANGED <<handle, files>> /\ Open(w)
    <3>1. /\ files' = [files EXCEPT ![f] = << >>]
          /\ handle' = [handle EXCEPT ![w] = [handle[w] EXCEPT ![i] = 0]]
      BY <2>3 DEF Open
    <3>2. CASE v = w /\ j = i
      <4>1. files'[FileOf(v, j)] = << >> /\ handle'[v][j] = 0
        BY <3>1, <3>2, <2>1, <1>0 DEF TypeOK
      <4>2. Len(<< >>) = 0 /\ DOMAIN << >> = {}
        OBVIOUS
      <4> QED
        BY <4>1, <4>2 DEF AtEnd, FileOf
    <3>3. CASE ~(v = w /\ j = i)
      <4>1. FileOf(v, j) # f
        BY <3>3, <2>1, <1>0, FileOfInjective
      <4>2. files'[FileOf(v, j)] = files[FileOf(v, j)] /\ handle'[v][j] = handle[v][j]
        BY <3>1, <3>3, <4>1, <2>1, <1>0 DEF TypeOK
      <4> QED
        BY <4>2, <1>1 DEF AtEnd, FileOf
    <3> QED
      BY <3>2, <3>3
  <2>4. CASE ~UNCHANGED <<handle, files>> /\ Write(w)
    <3> DEFINE p == handle[w][i]
    <3>1. /\ p \in Nat
          /\ files' = [files EXCEPT ![f] = WriteAt(files[f], p, w)]
          /\ handle' = [handle EXCEPT ![w] = [handle[w] EXCEPT ![i] = p + 1]]
      BY <2>4 DEF Write, IsOpen
    <3>2. CASE v = w /\ j = i
      <4>1. p # Null
        BY <3>1 DEF Null
      <4>2. AtEnd(w, i) /\ p = Len(files[f])
        BY <3>1, <3>2, <4>1, <1>1 DEF AtEnd
      <4>3. files'[f] = WriteAt(files[f], Len(files[f]), w) /\ handle'[w][i] = Len(files[f]) + 1
        BY <3>1, <4>2, <2>1, <1>0, <3>2 DEF TypeOK
      <4>4. files[f] \in Seq(Blocks)
        BY <2>1, <1>0
      <4> HIDE DEF f, i, p, Blocks
      <4>5. /\ Len(files'[f]) = Len(files[f]) + 1
            /\ DOMAIN files'[f] = 1..(Len(files[f]) + 1)
            /\ \A n \in 1..(Len(files[f]) + 1) :
                  files'[f][n] = IF n = Len(files[f]) + 1 THEN w ELSE files[f][n]
        BY <4>3, <4>4, WriteAtEnd
      <4>6. DOMAIN files[f] = 1..Len(files[f]) /\ Len(files[f]) \in Nat
        BY <4>4, LenProperties
      <4>7. \A n \in 1..(Len(files[f]) + 1) : n = Len(files[f]) + 1 \/ n \in 1..Len(files[f])
        BY <4>6
      <4>8. \A n \in DOMAIN files[f] : files[f][n] = w
        BY <4>2 DEF AtEnd, f
      <4>9. \A n \in DOMAIN files'[f] : files'[f][n] = w
        BY <4>5, <4>6, <4>7, <4>8
      <4>10. FileOf(v, j) = f
        BY <3>2 DEF f
      <4>11. handle'[v][j] = Len(files'[FileOf(v, j)])
        BY <3>2, <4>3, <4>5, <4>10
      <4> QED
        BY <4>9, <4>10, <4>11, <3>2 DEF AtEnd, FileOf
    <3>3. CASE ~(v = w /\ j = i)
      <4>1. FileOf(v, j) # f
        BY <3>3, <2>1, <1>0, FileOfInjective
      <4>2. files'[FileOf(v, j)] = files[FileOf(v, j)] /\ handle'[v][j] = handle[v][j]
        BY <3>1, <3>3, <4>1, <2>1, <1>0 DEF TypeOK
      <4> QED
        BY <4>2, <1>1 DEF AtEnd, FileOf
    <3> QED
      BY <3>2, <3>3
  <2> QED
    BY <1>3, <2>2, <2>3, <2>4
<1>4. ASSUME NEW w \in Job, Read(w) PROVE AtEnd(v, j)'
  <2>1. files' = files
    BY <1>4 DEF Read
  <2>2. wi[w] \in 0..filenum-1
    BY DEF TypeOK
  <2>3. CASE handle[w][wi[w]] \in Nat
    <3>1. handle[w][wi[w]] # Null
      BY <2>3 DEF Null
    <3>2. handle[w][wi[w]] = Len(files[FileOf(w, wi[w])])
      BY <2>2, <2>3, <3>1 DEF FilesInv, AtEnd
    <3>3. handle' = handle
      BY <1>4, <2>3, <3>2 DEF Read
    <3> QED
      BY <1>2, <2>1, <3>3
  <2>4. CASE handle[w][wi[w]] \notin Nat
    BY <1>2, <2>1, <2>4, <1>4 DEF Read, IsOpen
  <2> QED
    BY <2>3, <2>4
<1>5. ASSUME NEW w \in Job, Close(w) PROVE AtEnd(v, j)'
  <2>1. files' = files
    BY <1>5 DEF Close
  <2>2. wi[w] \in 0..MaxFiles-1
    BY DEF TypeOK
  <2>3. \/ handle'[v][j] = handle[v][j]
        \/ handle[v][j] \in Nat /\ handle'[v][j] = Closed
    BY <1>5, <1>0, <2>2 DEF Close, IsOpen, TypeOK
  <2>4. Closed \notin Nat /\ Null \notin Nat
    BY DEF Closed, Null
  <2> QED
    BY <1>1, <2>1, <2>3, <2>4 DEF AtEnd
<1>6. UNCHANGED <<handle, files>> \/ \E w \in Job : Open(w) \/ Write(w) \/ Read(w) \/ Close(w)
  BY DEF Next, Main, Create, Join, Poll, Testlibc_func, Fsync, Sync, Raise, Return, Over, vars, jobVars
<1> QED
  BY <1>2, <1>3, <1>4, <1>5, <1>6

(* For every number of jobs, and as long as no job has more than 64 files: the
   jobs never write into each other's files. *)
THEOREM FilesOwned == Spec => []OwnFiles
<1>1. Init => FilesInv
  <2> SUFFICES ASSUME Init, NEW w \in Job, NEW i \in 0..filenum-1
               PROVE  handle[w][i] = Null
    BY DEF FilesInv
  <2>1. filenum \in 1..MaxFiles /\ MaxFiles \in Nat
    BY JobsAssumption DEF Init
  <2>2. i \in 0..MaxFiles-1
    BY <2>1
  <2> QED
    BY <2>2 DEF Init
<1>2. TypeOK /\ FilesInv => OwnFiles
  BY DEF FilesInv, OwnFiles, AtEnd
<1> QED
  BY <1>1, <1>2, FilesInvStep, TypeCorrect, PTL DEF Spec

-----------------------------------------------------------------------------
(* How many of the first m streams of h are open. *)
OpenIn(h, m) == Cardinality({x \in 0..m-1 : h[x] \in Nat})

LEMMA OpenInNext ==
  ASSUME NEW h, NEW m \in Nat
  PROVE  /\ OpenIn(h, m) \in Nat
         /\ OpenIn(h, 0) = 0
         /\ OpenIn(h, m + 1) = OpenIn(h, m) + IF h[m] \in Nat THEN 1 ELSE 0
<1> DEFINE S(l) == {x \in 0..l-1 : h[x] \in Nat}
<1>1. \A l \in Nat : IsFiniteSet(S(l))
  <2>1. \A l \in Nat : IsFiniteSet(0..l-1)
    BY FS_Interval
  <2>2. \A l \in Nat : S(l) \in SUBSET (0..l-1)
    OBVIOUS
  <2> HIDE DEF S
  <2> QED
    BY <2>1, <2>2, FS_Subset
<1>2. S(0) = {}
  OBVIOUS
<1>3. S(m + 1) = IF h[m] \in Nat THEN S(m) \cup {m} ELSE S(m)
  <2>1. 0..(m + 1)-1 = 0..m-1 \cup {m}
    OBVIOUS
  <2> QED
    BY <2>1
<1>4. m \notin S(m)
  OBVIOUS
<1>5. OpenIn(h, m) = Cardinality(S(m)) /\ OpenIn(h, 0) = Cardinality(S(0))
      /\ OpenIn(h, m + 1) = Cardinality(S(m + 1))
  BY DEF OpenIn
<1> HIDE DEF S
<1>6. Cardinality(S(m)) \in Nat /\ Cardinality(S(0)) = 0
  BY <1>1, <1>2, FS_CardinalityType, FS_EmptySet
<1>7. Cardinality(S(m) \cup {m}) = Cardinality(S(m)) + 1
  BY <1>1, <1>4, FS_AddElement
<1> QED
  BY <1>3, <1>5, <1>6, <1>7

LEMMA OpenInSame ==
  ASSUME NEW h, NEW g, NEW m \in Nat, \A x \in 0..m-1 : h[x] \in Nat <=> g[x] \in Nat
  PROVE  OpenIn(g, m) = OpenIn(h, m)
<1>1. {x \in 0..m-1 : h[x] \in Nat} = {x \in 0..m-1 : g[x] \in Nat}
  OBVIOUS
<1> QED
  BY <1>1 DEF OpenIn

LEMMA OpenInClose ==
  ASSUME NEW h, NEW g, NEW m \in Nat, NEW i \in 0..m-1, h[i] \in Nat, g[i] \notin Nat,
         \A x \in 0..m-1 : x # i => g[x] = h[x]
  PROVE  OpenIn(g, m) + 1 = OpenIn(h, m)
<1> DEFINE S == {x \in 0..m-1 : h[x] \in Nat}
<1>1. IsFiniteSet(S)
  <2>1. IsFiniteSet(0..m-1)
    BY FS_Interval
  <2>2. S \in SUBSET (0..m-1)
    OBVIOUS
  <2> HIDE DEF S
  <2> QED
    BY <2>1, <2>2, FS_Subset
<1>2. {x \in 0..m-1 : g[x] \in Nat} = S \ {i}
  OBVIOUS
<1>3. i \in S
  OBVIOUS
<1>4. OpenIn(g, m) = Cardinality(S \ {i}) /\ OpenIn(h, m) = Cardinality(S)
  BY <1>2 DEF OpenIn
<1> HIDE DEF S
<1>5. Cardinality(S) \in Nat /\ Cardinality(S \ {i}) = Cardinality(S) - 1
  BY <1>1, <1>3, FS_CardinalityType, FS_RemoveElement
<1> QED
  BY <1>4, <1>5

-----------------------------------------------------------------------------
(* What a job has recorded when it is at its label: it has been through all its
   files in each of the rounds behind it, and through those before wi in this
   one; a file adds to all rows but that of sync only if it is open. *)
Streams(w) == OpenIn(handle[w], filenum)
Before(w) == OpenIn(handle[w], wi[w])
Turn(w) == IF IsOpen(w) THEN 1 ELSE 0

Opening(w) ==
    /\ wj[w] = 0
    /\ rec[w]["fopen"] = Before(w)
    /\ \A a \in Apis \ {"fopen"} : rec[w][a] = 0
    /\ \A x \in wi[w]..filenum-1 : handle[w][x] = Null

Working(w) ==
    /\ rec[w]["fopen"] = Streams(w)
    /\ rec[w]["fclose"] = 0
    /\ rec[w]["sync"] = filenum * wj[w] + wi[w] + IF wpc[w] = "read" THEN 1 ELSE 0
    /\ rec[w]["fread"] = Streams(w) * wj[w] + Before(w)
    /\ rec[w]["fsync"] = Streams(w) * wj[w] + Before(w)
                           + IF wpc[w] \in {"sync", "read"} THEN Turn(w) ELSE 0
    /\ rec[w]["fwrite"] <= rec[w]["fsync"] + IF wpc[w] = "fsync" THEN Turn(w) ELSE 0

Closing(w) ==
    /\ rec[w]["sync"] = filenum * rounds
    /\ rec[w]["fsync"] = rec[w]["fopen"] * rounds
    /\ rec[w]["fread"] = rec[w]["fsync"]
    /\ rec[w]["fwrite"] <= rec[w]["fsync"]
    /\ rec[w]["fclose"] + Streams(w) <= rec[w]["fopen"]

Recorded(w) ==
    /\ wpc[w] = "open" => Opening(w)
    /\ wpc[w] \in {"write", "fsync", "sync", "read"} => Working(w)
    /\ wpc[w] \in {"close", "flag", "done"} => Closing(w)

RecordInv == \A w \in Job : Recorded(w)

(* The numbers of a job are numbers. *)
LEMMA JobNumbers ==
  ASSUME TypeOK, NEW w \in Job
  PROVE  /\ filenum \in Nat /\ rounds \in Nat \ {0} /\ MaxFiles \in Nat
         /\ wi[w] \in 0..filenum-1 /\ wj[w] \in 0..rounds-1
         /\ 0..filenum-1 \subseteq 0..MaxFiles-1
         /\ Streams(w) \in Nat /\ Before(w) \in Nat /\ Turn(w) \in {0, 1}
         /\ OpenIn(handle[w], wi[w] + 1) = Before(w) + Turn(w)
         /\ \A a \in Apis : rec[w][a] \in Nat
<1>1. /\ filenum \in Nat /\ rounds \in Nat \ {0} /\ MaxFiles \in Nat
      /\ wi[w] \in 0..filenum-1 /\ wj[w] \in 0..rounds-1
      /\ 0..filenum-1 \subseteq 0..MaxFiles-1
  BY JobsAssumption DEF TypeOK
<1>2. /\ Streams(w) \in Nat /\ Before(w) \in Nat
      /\ OpenIn(handle[w], wi[w] + 1) = Before(w) + Turn(w)
  <2>1. wi[w] \in Nat
    BY <1>1
  <2> QED
    BY <1>1, <2>1, OpenInNext DEF Streams, Before, Turn, IsOpen
<1> QED
  BY <1>1, <1>2 DEF Turn, TypeOK

(* Writing to and reading from the streams opens and closes none. *)
LEMMA StreamsKept ==
  ASSUME TypeOK, NEW w \in Job, filenum' = filenum, wi'[w] = wi[w],
         \A x \in 0..MaxFiles-1 : handle'[w][x] \in Nat <=> handle[w][x] \in Nat
  PROVE  Streams(w)' = Streams(w) /\ Before(w)' = Before(w) /\ Turn(w)' = Turn(w)
<1>1. /\ filenum \in Nat /\ wi[w] \in 0..filenum-1 /\ wi[w] \in Nat
      /\ wi[w] \in 0..MaxFiles-1
      /\ 0..filenum-1 \subseteq 0..MaxFiles-1 /\ 0..wi[w]-1 \subseteq 0..MaxFiles-1
  <2>1. /\ filenum \in Nat /\ wi[w] \in 0..filenum-1 /\ MaxFiles \in Nat
        /\ 0..filenum-1 \subseteq 0..MaxFiles-1
    BY JobNumbers
  <2>2. 0..wi[w]-1 \subseteq 0..filenum-1
    BY <2>1
  <2> QED
    BY <2>1, <2>2
<1>2. OpenIn(handle'[w], filenum) = OpenIn(handle[w], filenum)
  BY <1>1, OpenInSame
<1>3. OpenIn(handle'[w], wi[w]) = OpenIn(handle[w], wi[w])
  BY <1>1, OpenInSame
<1>4. IsOpen(w)' <=> IsOpen(w)
  BY <1>1 DEF IsOpen
<1> QED
  BY <1>2, <1>3, <1>4 DEF Streams, Before, Turn

(* A record adds one to its own row and nothing to the others. *)
LEMMA CountOne ==
  ASSUME TypeOK, NEW w \in Job, NEW api \in Apis, Count(w, api)
  PROVE  /\ rec'[w][api] = rec[w][api] + 1
         /\ \A a \in Apis \ {api} : rec'[w][a] = rec[w][a]
BY DEF Count, TypeOK

LEMMA OthersRecord ==
  ASSUME TypeOK, NEW w \in Job, Testlibc_func(w), NEW v \in Job, v # w
  PROVE  wj'[v] = wj[v] /\ rec'[v] = rec[v]
<1> USE DEF TypeOK
<1>1. ASSUME Open(w) \/ Write(w) PROVE wj'[v] = wj[v] /\ rec'[v] = rec[v]
  BY <1>1 DEF Open, Write, Count
<1>2. ASSUME Fsync(w) \/ Sync(w) \/ Read(w) PROVE wj'[v] = wj[v] /\ rec'[v] = rec[v]
  BY <1>2 DEF Fsync, Sync, Read, Count
<1>3. ASSUME Close(w) \/ Raise(w) PROVE wj'[v] = wj[v] /\ rec'[v] = rec[v]
  BY <1>3 DEF Close, Raise, Count
<1>4. ASSUME Return(w) PROVE wj'[v] = wj[v] /\ rec'[v] = rec[v]
  BY <1>4 DEF Return, jobVars
<1> QED
  BY <1>1, <1>2, <1>3, <1>4 DEF Testlibc_func

LEMMA RecordedStep ==
  ASSUME TypeOK, RecordInv, NEW w \in Job, Testlibc_func(w)
  PROVE  Recorded(w)'
<1> DEFINE h == handle[w]
           g == handle'[w]
           i == wi[w]
           n == filenum
<1>a. /\ n \in Nat /\ rounds \in Nat \ {0} /\ MaxFiles \in Nat
      /\ i \in 0..n-1 /\ wj[w] \in 0..rounds-1 /\ 0..n-1 \subseteq 0..MaxFiles-1
      /\ Streams(w) \in Nat /\ Before(w) \in Nat /\ Turn(w) \in {0, 1}
      /\ OpenIn(h, i + 1) = Before(w) + Turn(w)
  BY JobNumbers
<1>b. \A a \in Apis : rec[w][a] \in Nat
  BY JobNumbers
<1>c. h \in [0..MaxFiles-1 -> Nat \cup {Null, Closed}] /\ i \in 0..MaxFiles-1
  BY <1>a DEF TypeOK
<1>d. Recorded(w)
  BY DEF RecordInv
<1>e. n' = n /\ rounds' = rounds
  BY DEF Testlibc_func, Open, Write, Fsync, Sync, Read, Close, Raise, Return, sizes
<1>f. {"fopen", "fwrite", "fsync", "sync", "fread", "fclose"} \subseteq Apis
  BY DEF Apis
<1>g. Null \notin Nat /\ Closed \notin Nat
  BY DEF Null, Closed
<1>1. CASE Open(w)
  <2>1. wpc[w] = "open" /\ Opening(w) /\ wj'[w] = wj[w]
    BY <1>1, <1>d DEF Open, At, Recorded
  <2>2. h[i] = Null
    BY <1>a, <2>1 DEF Opening
  <2>3. /\ rec'[w]["fopen"] = OpenIn(g, i + 1)
        /\ \A a \in Apis \ {"fopen"} : rec'[w][a] = rec[w][a]
        /\ \A x \in 0..MaxFiles-1 : x # i => g[x] = h[x]
    <3>1. CASE handle' = [handle EXCEPT ![w][wi[w]] = 0] /\ Count(w, "fopen")
      <4>1. g = [h EXCEPT ![i] = 0] /\ g[i] = 0
        BY <1>c, <3>1 DEF TypeOK
      <4>2. /\ rec'[w]["fopen"] = rec[w]["fopen"] + 1
            /\ \A a \in Apis \ {"fopen"} : rec'[w][a] = rec[w][a]
        BY <1>f, <3>1, CountOne
      <4>3. OpenIn(g, i) = OpenIn(h, i)
        <5>1. i \in Nat /\ \A x \in 0..i-1 : x \in 0..MaxFiles-1 /\ x # i
          BY <1>a
        <5>2. \A x \in 0..i-1 : h[x] \in Nat <=> g[x] \in Nat
          BY <1>c, <4>1, <5>1
        <5> QED
          BY <5>1, <5>2, OpenInSame
      <4>4. OpenIn(g, i + 1) = OpenIn(g, i) + 1
        <5>1. i \in Nat
          BY <1>a
        <5>2. OpenIn(g, i + 1) = OpenIn(g, i) + IF g[i] \in Nat THEN 1 ELSE 0
          BY <5>1, OpenInNext
        <5> QED
          BY <4>1, <5>2
      <4> QED
        BY <1>c, <2>1, <4>1, <4>2, <4>3, <4>4 DEF Opening, Before
    <3>2. CASE UNCHANGED <<handle, rec>>
      <4>1. OpenIn(h, i + 1) = OpenIn(h, i)
        <5>1. i \in Nat
          BY <1>a
        <5>2. OpenIn(h, i + 1) = OpenIn(h, i) + IF h[i] \in Nat THEN 1 ELSE 0
          BY <5>1, OpenInNext
        <5>3. OpenIn(h, i) \in Nat
          BY <5>1, OpenInNext
        <5> QED
          BY <1>g, <2>2, <5>2, <5>3
      <4> QED
        BY <2>1, <3>2, <4>1 DEF Opening, Before
    <3> QED
      BY <1>1, <3>1, <3>2 DEF Open
  <2>4. CASE i = n - 1
    <3>1. wpc'[w] = "write" /\ wi'[w] = 0
      BY <1>1, <2>4 DEF Open, NextFile, Goto, TypeOK
    <3>2. rec'[w]["fopen"] = Streams(w)'
      BY <1>a, <1>e, <2>3, <2>4 DEF Streams
    <3>3. Before(w)' = 0
      BY <3>1, <1>a, OpenInNext DEF Before
    <3>4. Streams(w)' \in Nat
      BY <1>a, <1>e, OpenInNext DEF Streams
    <3>5. \A a \in Apis \ {"fopen"} : rec'[w][a] = 0
      BY <2>1, <2>3 DEF Opening
    <3>6. wj'[w] = 0
      BY <2>1 DEF Opening
    <3>7. Streams(w)' * wj'[w] = 0 /\ n' * wj'[w] = 0
      BY <1>a, <1>e, <3>4, <3>6
    <3>8. Working(w)'
      BY <3>1, <3>2, <3>3, <3>5, <3>7 DEF Working, Apis
    <3> QED
      BY <3>1, <3>8 DEF Recorded
  <2>5. CASE i # n - 1
    <3>1. wpc'[w] = "open" /\ wi'[w] = i + 1
      BY <1>1, <2>5 DEF Open, NextFile, Goto, TypeOK
    <3>2. Before(w)' = rec'[w]["fopen"]
      BY <2>3, <3>1 DEF Before
    <3>3. \A x \in wi'[w]..n'-1 : g[x] = Null
      <4>1. \A x \in i+1..n-1 : x \in i..n-1 /\ x # i /\ x \in 0..MaxFiles-1
        BY <1>a
      <4> QED
        BY <1>e, <2>1, <2>3, <3>1, <4>1 DEF Opening
    <3>4. Opening(w)'
      BY <2>1, <2>3, <3>2, <3>3 DEF Opening
    <3> QED
      BY <3>1, <3>4 DEF Recorded
  <2> QED
    BY <2>4, <2>5
<1>2. CASE Write(w)
  <2>1. /\ wpc[w] = "write" /\ Working(w) /\ wpc'[w] = "fsync"
        /\ wi'[w] = wi[w] /\ wj'[w] = wj[w]
    BY <1>2, <1>d DEF Write, At, Goto, Recorded, TypeOK
  <2>2. /\ rec'[w]["fwrite"] <= rec[w]["fwrite"] + Turn(w)
        /\ \A a \in Apis \ {"fwrite"} : rec'[w][a] = rec[w][a]
        /\ \A x \in 0..MaxFiles-1 : g[x] \in Nat <=> h[x] \in Nat
    <3>1. CASE /\ IsOpen(w) /\ Count(w, "fwrite")
               /\ handle' = [handle EXCEPT ![w][wi[w]] = handle[w][wi[w]] + 1]
      <4>1. g = [h EXCEPT ![i] = h[i] + 1] /\ h[i] \in Nat
        BY <1>c, <3>1 DEF TypeOK, IsOpen
      <4>2. /\ rec'[w]["fwrite"] = rec[w]["fwrite"] + 1
            /\ \A a \in Apis \ {"fwrite"} : rec'[w][a] = rec[w][a]
        BY <1>f, <3>1, CountOne
      <4> QED
        BY <1>b, <1>c, <1>f, <3>1, <4>1, <4>2 DEF Turn
    <3>2. CASE UNCHANGED <<handle, rec>>
      BY <1>a, <1>b, <1>f, <3>2
    <3> QED
      BY <1>2, <3>1, <3>2 DEF Write
  <2>3. Streams(w)' = Streams(w) /\ Before(w)' = Before(w) /\ Turn(w)' = Turn(w)
    BY <1>e, <2>1, <2>2, StreamsKept
  <2>4. rec'[w]["fwrite"] \in Nat
    BY <1>2, <1>b, <1>f, CountOne DEF Write
  <2>5. Working(w)'
    BY <1>a, <1>b, <1>e, <1>f, <2>1, <2>2, <2>3, <2>4 DEF Working, Apis
  <2> QED
    BY <2>1, <2>5 DEF Recorded
<1>3. CASE Fsync(w)
  <2>1. /\ wpc[w] = "fsync" /\ Working(w) /\ wpc'[w] = "sync"
        /\ wi'[w] = wi[w] /\ wj'[w] = wj[w] /\ handle' = handle
    BY <1>3, <1>d DEF Fsync, At, Goto, Recorded, TypeOK
  <2>2. /\ rec'[w]["fsync"] = rec[w]["fsync"] + Turn(w)
        /\ \A a \in Apis \ {"fsync"} : rec'[w][a] = rec[w][a]
    BY <1>3, <1>b, <1>f, CountOne DEF Fsync, Turn
  <2>3. Streams(w)' = Streams(w) /\ Before(w)' = Before(w) /\ Turn(w)' = Turn(w)
    BY <1>e, <2>1, StreamsKept
  <2>4. Working(w)'
    BY <1>a, <1>b, <1>e, <1>f, <2>1, <2>2, <2>3 DEF Working, Apis
  <2> QED
    BY <2>1, <2>4 DEF Recorded
<1>4. CASE Sync(w)
  <2>1. /\ wpc[w] = "sync" /\ Working(w) /\ wpc'[w] = "read"
        /\ wi'[w] = wi[w] /\ wj'[w] = wj[w] /\ handle' = handle
    BY <1>4, <1>d DEF Sync, At, Goto, Recorded, TypeOK
  <2>2. /\ rec'[w]["sync"] = rec[w]["sync"] + 1
        /\ \A a \in Apis \ {"sync"} : rec'[w][a] = rec[w][a]
    BY <1>4, <1>f, CountOne DEF Sync
  <2>3. Streams(w)' = Streams(w) /\ Before(w)' = Before(w) /\ Turn(w)' = Turn(w)
    BY <1>e, <2>1, StreamsKept
  <2>4. filenum * wj[w] \in Nat
    BY <1>a
  <2>5. Working(w)'
    BY <1>a, <1>b, <1>e, <1>f, <2>1, <2>2, <2>3, <2>4 DEF Working, Apis
  <2> QED
    BY <2>1, <2>5 DEF Recorded
<1>5. CASE Read(w)
  <2>1. wpc[w] = "read" /\ Working(w)
    BY <1>5, <1>d DEF Read, At, Recorded
  <2>2. /\ rec'[w]["fread"] = rec[w]["fread"] + Turn(w)
        /\ \A a \in Apis \ {"fread"} : rec'[w][a] = rec[w][a]
    BY <1>5, <1>b, <1>f, CountOne DEF Read, Turn
  <2>3. \A x \in 0..MaxFiles-1 : g[x] \in Nat <=> h[x] \in Nat
    <3>1. CASE handle' = handle
      BY <3>1
    <3>2. CASE IsOpen(w) /\ handle' = [handle EXCEPT ![w][wi[w]] = handle[w][wi[w]] + 1]
      <4>1. g = [h EXCEPT ![i] = h[i] + 1] /\ h[i] \in Nat
        BY <1>c, <3>2 DEF TypeOK, IsOpen
      <4> QED
        BY <1>c, <4>1
    <3> QED
      BY <1>5, <3>1, <3>2 DEF Read
  <2>4. \A m \in 0..n : OpenIn(g, m) = OpenIn(h, m)
    <3> SUFFICES ASSUME NEW m \in 0..n PROVE OpenIn(g, m) = OpenIn(h, m)
      OBVIOUS
    <3>1. m \in Nat /\ 0..m-1 \subseteq 0..n-1
      BY <1>a
    <3> QED
      BY <1>a, <2>3, <3>1, OpenInSame
  <2>5. Streams(w)' = Streams(w)
    BY <1>a, <1>e, <2>4 DEF Streams
  <2>6. /\ rec[w]["sync"] = n * wj[w] + i + 1
        /\ rec[w]["fread"] = Streams(w) * wj[w] + Before(w)
        /\ rec[w]["fsync"] = Streams(w) * wj[w] + Before(w) + Turn(w)
        /\ rec[w]["fwrite"] <= rec[w]["fsync"]
        /\ rec[w]["fopen"] = Streams(w) /\ rec[w]["fclose"] = 0
    BY <1>a, <1>b, <1>f, <2>1 DEF Working
  <2>7. /\ rec'[w]["sync"] = n * wj[w] + i + 1
        /\ rec'[w]["fread"] = Streams(w) * wj[w] + OpenIn(h, i + 1)
        /\ rec'[w]["fsync"] = Streams(w) * wj[w] + OpenIn(h, i + 1)
        /\ rec'[w]["fwrite"] <= rec'[w]["fsync"]
        /\ rec'[w]["fopen"] = Streams(w) /\ rec'[w]["fclose"] = 0
    <3>1. Streams(w) * wj[w] \in Nat
      BY <1>a
    <3>2. /\ rec'[w]["sync"] = rec[w]["sync"] /\ rec'[w]["fsync"] = rec[w]["fsync"]
          /\ rec'[w]["fwrite"] = rec[w]["fwrite"] /\ rec'[w]["fopen"] = rec[w]["fopen"]
          /\ rec'[w]["fclose"] = rec[w]["fclose"]
      BY <2>2, <1>f
    <3> QED
      BY <1>a, <2>2, <2>6, <3>1, <3>2
  <2>8. CASE i # n - 1
    <3>1. wpc'[w] = "write" /\ wi'[w] = i + 1 /\ wj'[w] = wj[w]
      BY <1>5, <2>8 DEF Read, NextFile, Goto, TypeOK
    <3>2. Before(w)' = OpenIn(h, i + 1)
      <4>1. i + 1 \in 0..n
        BY <1>a
      <4> QED
        BY <2>4, <3>1, <4>1 DEF Before
    <3>3. n * wj[w] \in Nat /\ Streams(w) * wj[w] \in Nat /\ OpenIn(h, i + 1) \in Nat
      BY <1>a
    <3>4. Working(w)'
      BY <1>a, <1>e, <2>5, <2>7, <3>1, <3>2, <3>3 DEF Working
    <3> QED
      BY <3>1, <3>4 DEF Recorded
  <2>9. CASE i = n - 1
    <3>1. OpenIn(h, i + 1) = Streams(w)
      BY <1>a, <2>9 DEF Streams
    <3>2. /\ n * (wj[w] + 1) = n * wj[w] + n
          /\ Streams(w) * (wj[w] + 1) = Streams(w) * wj[w] + Streams(w)
          /\ n * wj[w] \in Nat /\ Streams(w) * wj[w] \in Nat
      BY <1>a
    <3>3. /\ rec'[w]["sync"] = n * (wj[w] + 1)
          /\ rec'[w]["fsync"] = Streams(w) * (wj[w] + 1)
          /\ rec'[w]["fread"] = Streams(w) * (wj[w] + 1)
      BY <1>a, <2>7, <2>9, <3>1, <3>2
    <3>4. CASE wj[w] < rounds - 1
      <4>1. wpc'[w] = "write" /\ wi'[w] = 0 /\ wj'[w] = wj[w] + 1
        BY <1>5, <2>9, <3>4 DEF Read, NextFile, Goto, TypeOK
      <4>2. Before(w)' = 0
        BY <4>1, <1>a, OpenInNext DEF Before
      <4>3. n * (wj[w] + 1) \in Nat /\ Streams(w) * (wj[w] + 1) \in Nat
        BY <1>a, <3>2
      <4> HIDE DEF n
      <4>4. Working(w)'
        BY <1>e, <2>5, <2>7, <3>3, <4>1, <4>2, <4>3 DEF Working, n
      <4> QED
        BY <4>1, <4>4 DEF Recorded
    <3>5. CASE ~(wj[w] < rounds - 1)
      <4>1. wpc'[w] = "close"
        BY <1>5, <2>9, <3>5 DEF Read, NextFile, Goto, TypeOK
      <4>2. wj[w] + 1 = rounds
        BY <1>a, <3>5
      <4>3. Closing(w)'
        BY <1>a, <1>e, <2>5, <2>7, <3>3, <4>2 DEF Closing
      <4> QED
        BY <4>1, <4>3 DEF Recorded
    <3> QED
      BY <3>4, <3>5
  <2> QED
    BY <2>8, <2>9
<1>6. CASE Close(w)
  <2>1. wpc[w] = "close" /\ Closing(w) /\ wpc'[w] \in {"close", "flag"}
    BY <1>6, <1>d DEF Close, At, NextFile, Goto, Recorded, TypeOK
  <2>2. /\ rec'[w]["fclose"] \in Nat /\ rec'[w]["fclose"] <= rec[w]["fclose"] + Turn(w)
        /\ \A a \in Apis \ {"fclose"} : rec'[w][a] = rec[w][a]
    <3>1. CASE IsOpen(w) /\ Count(w, "fclose")
      BY <1>b, <1>f, <3>1, CountOne DEF Turn
    <3>2. CASE rec' = rec
      BY <1>a, <1>b, <1>f, <3>2
    <3> QED
      BY <1>6, <3>1, <3>2 DEF Close
  <2>3. Streams(w)' + Turn(w) = Streams(w)
    <3>1. CASE IsOpen(w)
      <4>1. g = [h EXCEPT ![i] = Closed] /\ h[i] \in Nat
        BY <1>6, <1>c, <3>1 DEF Close, IsOpen, TypeOK
      <4>2. /\ h[i] \in Nat /\ g[i] \notin Nat
            /\ \A x \in 0..n-1 : x # i => g[x] = h[x]
        BY <1>a, <1>c, <1>g, <4>1
      <4>3. n \in Nat /\ i \in 0..n-1
        BY <1>a
      <4>4. OpenIn(g, n) + 1 = OpenIn(h, n)
        <5> HIDE DEF g, h, i, n
        <5> QED
          BY <4>2, <4>3, OpenInClose
      <4> QED
        BY <1>e, <3>1, <4>4 DEF Streams, Turn
    <3>2. CASE ~IsOpen(w)
      <4>1. handle' = handle
        BY <1>6, <3>2 DEF Close
      <4> QED
        BY <1>a, <1>e, <3>2, <4>1 DEF Streams, Turn
    <3> QED
      BY <3>1, <3>2
  <2>4. Streams(w)' \in Nat
    BY <1>a, <1>e, OpenInNext DEF Streams
  <2>5. /\ rec'[w]["sync"] = rec[w]["sync"] /\ rec'[w]["fsync"] = rec[w]["fsync"]
        /\ rec'[w]["fwrite"] = rec[w]["fwrite"] /\ rec'[w]["fopen"] = rec[w]["fopen"]
        /\ rec'[w]["fread"] = rec[w]["fread"]
    BY <2>2, <1>f
  <2>6. rec[w]["fclose"] \in Nat /\ rec[w]["fopen"] \in Nat
    BY <1>b, <1>f
  <2>7. rec'[w]["fclose"] + Streams(w)' <= rec'[w]["fopen"]
    BY <1>a, <2>1, <2>2, <2>3, <2>4, <2>5, <2>6 DEF Closing
  <2>8. Closing(w)'
    BY <1>e, <2>1, <2>5, <2>7 DEF Closing
  <2> QED
    BY <2>1, <2>8 DEF Recorded
<1>7. CASE Raise(w)
  <2>1. /\ wpc[w] = "flag" /\ Closing(w) /\ wpc'[w] = "done"
        /\ handle' = handle /\ rec' = rec
    BY <1>7, <1>d DEF Raise, At, Goto, Recorded, TypeOK
  <2>2. Closing(w)'
    BY <1>e, <2>1 DEF Closing, Streams
  <2> QED
    BY <2>1, <2>2 DEF Recorded
<1>8. CASE Return(w)
  <2>1. /\ wpc[w] = "done" /\ Closing(w) /\ wpc' = wpc
        /\ handle' = handle /\ rec' = rec
    BY <1>8, <1>d DEF Return, At, jobVars, Recorded
  <2>2. Closing(w)'
    BY <1>e, <2>1 DEF Closing, Streams
  <2> QED
    BY <2>1, <2>2 DEF Recorded
<1> QED
  BY <1>1, <1>2, <1>3, <1>4, <1>5, <1>6, <1>7, <1>8 DEF Testlibc_func

LEMMA RecordInvStep == TypeOK /\ RecordInv /\ [Next]_vars => RecordInv'
<1> SUFFICES ASSUME TypeOK, RecordInv, [Next]_vars, NEW v \in Job PROVE Recorded(v)'
  BY DEF RecordInv
<1> USE DEF Recorded, Opening, Working, Closing, Streams, Before, Turn, IsOpen
<1>1. filenum' = filenum /\ rounds' = rounds
  BY SizesKept DEF sizes
<1>2. ASSUME wpc'[v] = wpc[v], wi'[v] = wi[v], wj'[v] = wj[v], handle'[v] = handle[v],
             rec'[v] = rec[v]
      PROVE  Recorded(v)'
  BY <1>1, <1>2 DEF RecordInv
<1>3. CASE Main \/ Over \/ UNCHANGED vars
  BY <1>2, <1>3 DEF Main, Create, Join, Poll, Over, vars, jobVars
<1>4. ASSUME NEW w \in Job, Testlibc_func(w) PROVE Recorded(v)'
  <2>1. CASE v = w
    BY <1>4, <2>1, RecordedStep
  <2>2. CASE v # w
    BY <1>2, <1>4, <2>2, OthersKeep, OthersRecord
  <2> QED
    BY <2>1, <2>2
<1> QED
  BY <1>3, <1>4 DEF Next

(* Whatever calls fail, what a job adds to the rows of the CSV file relates as
   the loops of the job say. *)
THEOREM RecordsBalanced == Spec => []RecordsBalance
<1>1. Init => RecordInv
  <2> SUFFICES ASSUME Init, NEW w \in Job PROVE Recorded(w)
    BY DEF RecordInv
  <2>1. filenum \in 1..MaxFiles /\ MaxFiles \in Nat
    BY JobsAssumption DEF Init
  <2>2. \A x \in 0..filenum-1 : handle[w][x] = Null
    <3>1. 0..filenum-1 \subseteq 0..MaxFiles-1
      BY <2>1
    <3> QED
      BY <3>1 DEF Init
  <2>3. Before(w) = 0
    BY OpenInNext DEF Init, Before
  <2>4. Opening(w)
    BY <2>2, <2>3 DEF Init, Opening, Apis
  <2> QED
    BY <2>4 DEF Init, Recorded
<1>2. TypeOK /\ RecordInv => RecordsBalance
  <2> SUFFICES ASSUME TypeOK, RecordInv, NEW w \in Job, wpc[w] = "done"
               PROVE  Closing(w) /\ rec[w]["fclose"] <= rec[w]["fopen"]
    BY DEF RecordsBalance, Closing
  <2>1. Closing(w)
    BY DEF RecordInv, Recorded
  <2>2. Streams(w) \in Nat /\ rec[w]["fclose"] \in Nat /\ rec[w]["fopen"] \in Nat
    BY JobNumbers DEF Apis
  <2> QED
    BY <2>1, <2>2 DEF Closing
<1> QED
  BY <1>1, <1>2, RecordInvStep, TypeCorrect, PTL DEF Spec
=============================================================================
