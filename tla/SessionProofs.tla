---------------------------- MODULE SessionProofs ----------------------------
(***************************************************************************)
(* Proofs about Session, for every medium, every word size and every       *)
(* sequence of runs: what step 3 hands out fits into the free space, and   *)
(* the mounts of runs that were cut short do not pile up.                  *)
(***************************************************************************)
EXTENDS Session, TLAPS

(* The defining facts of integer division. *)
LEMMA DivBounds ==
  ASSUME NEW a \in Nat, NEW b \in Nat \ {0}
  PROVE  /\ a \div b \in Nat
         /\ (a \div b) * b <= a
         /\ a < (a \div b) * b + b
  OBVIOUS

LEMMA MulMono ==
  ASSUME NEW a \in Nat, NEW b \in Nat, NEW c \in Nat, a <= b
  PROVE  a * c <= b * c /\ c * a <= c * b
  <1>1. PICK d \in Nat : b = a + d
    <2>1. b - a \in Nat /\ b = a + (b - a)
      OBVIOUS
    <2> QED
      BY <2>1
  <1>2. b * c = a * c + d * c /\ d * c \in Nat
    BY <1>1
  <1>3. c * b = c * a + c * d /\ c * d \in Nat
    BY <1>1
  <1> QED
    BY <1>2, <1>3

LEMMA ModLe ==
  ASSUME NEW a \in Nat, NEW b \in Nat \ {0}
  PROVE  a % b \in Nat /\ a % b <= a
  OBVIOUS

LEMMA DivLower ==
  ASSUME NEW a \in Nat, NEW b \in Nat \ {0}, NEW x \in Nat, x * b <= a
  PROVE  x <= a \div b
  <1>1. SUFFICES ASSUME a \div b + 1 <= x PROVE FALSE
    BY DivBounds
  <1>2. (a \div b + 1) * b <= x * b
    BY <1>1, DivBounds, MulMono
  <1>3. (a \div b + 1) * b = (a \div b) * b + b
    BY DivBounds
  <1> QED
    BY <1>2, <1>3, DivBounds

-----------------------------------------------------------------------------
(* What sys_medium_get_info reports is never more than what is free. *)
LEMMA RemainFits ==
  ASSUME NEW m \in [bsize : Nat, blocks : Nat, bavail : Nat]
  PROVE  RemainSize(m) \in Nat /\ RemainSize(m) * Kilo <= FreeKB(m)
  <1> USE SessionAssumption
  <1> DEFINE large == m.bsize \div Kilo
             small == m.bavail \div Kilo
             kb == IF m.bsize >= Kilo THEN large * m.bavail ELSE small * m.bsize
  <1>1. m.bsize \in Nat /\ m.blocks \in Nat /\ m.bavail \in Nat
    OBVIOUS
  <1>2. large \in Nat /\ small \in Nat /\ kb \in Nat
    BY <1>1, DivBounds
  <1>3. kb * Kilo <= m.bsize * m.bavail
    <2>1. large * Kilo <= m.bsize /\ small * Kilo <= m.bavail
      BY <1>1, DivBounds
    <2>2. (large * Kilo) * m.bavail <= m.bsize * m.bavail
      BY <1>1, <1>2, <2>1, MulMono
    <2>3. m.bsize * (small * Kilo) <= m.bsize * m.bavail
      BY <1>1, <1>2, <2>1, MulMono
    <2>4. (large * m.bavail) * Kilo = (large * Kilo) * m.bavail
      BY <1>1, <1>2
    <2>5. (small * m.bsize) * Kilo = m.bsize * (small * Kilo)
      BY <1>1, <1>2
    <2> QED
      BY <2>2, <2>3, <2>4, <2>5
  <1>4. m.bsize * m.bavail \in Nat
    BY <1>1
  <1> HIDE DEF kb
  <1>5. kb <= FreeKB(m) /\ FreeKB(m) \in Nat
    BY <1>2, <1>3, <1>4, DivLower, DivBounds DEF FreeKB
  <1>6. kb % Word \in Nat /\ kb % Word <= kb
    BY <1>2, ModLe
  <1>7. /\ (kb % Word) \div Kilo \in Nat
        /\ ((kb % Word) \div Kilo) * Kilo <= kb % Word
    BY <1>6, DivBounds
  <1>8. RemainSize(m) = IF m.blocks < 1 THEN 0 ELSE (kb % Word) \div Kilo
    BY DEF RemainSize, kb
  <1> QED
    BY <1>2, <1>5, <1>6, <1>7, <1>8

(* The blocks of one job take at most its share. *)
LEMMA ShareFits ==
  ASSUME NEW R \in Nat, NEW J \in Nat \ {0}, NEW N \in Nat \ {0}, NEW S \in Nat \ {0},
         NEW P \in Nat, P * J <= R
  PROVE  J * N * ((((P \div N) * Kilo) \div S) * S) <= R * Kilo
  <1> USE SessionAssumption
  <1> DEFINE Q == P \div N
             C == (Q * Kilo) \div S
  <1>1. Q \in Nat /\ Q * N <= P
    BY DivBounds
  <1> HIDE DEF Q
  <1>2. Q * Kilo \in Nat
    BY <1>1
  <1>3. C \in Nat /\ C * S <= Q * Kilo
    BY <1>2, DivBounds
  <1> HIDE DEF C
  <1>4. C * S \in Nat /\ J * N \in Nat
    BY <1>3
  <1>5. (J * N) * (C * S) <= (J * N) * (Q * Kilo)
    BY <1>2, <1>3, <1>4, MulMono
  <1>6. (J * N) * (Q * Kilo) = ((Q * N) * J) * Kilo
    BY <1>1
  <1>7. (Q * N) * J <= P * J
    BY <1>1, MulMono
  <1>8. (Q * N) * J \in Nat /\ (Q * N) * J <= R
    BY <1>1, <1>7
  <1>9. ((Q * N) * J) * Kilo <= R * Kilo
    BY <1>8, MulMono
  <1>10. (J * N) * (C * S) <= R * Kilo
    BY <1>1, <1>2, <1>4, <1>5, <1>6, <1>8, <1>9
  <1> QED
    BY <1>10 DEF C, Q

(* The size of one file, when N files of at least L MB share P MB. *)
LEMMA FileSize ==
  ASSUME NEW P \in Nat, NEW L \in Nat \ {0}, NEW S \in 1..Kilo,
         P \div L # 0,
         NEW C, C = ((P \div (P \div L)) * Kilo) \div S
  PROVE  C \in Nat /\ C >= 1 /\ C * S > L * Kilo - S /\ C * S < 2 * L * Kilo
  <1> USE SessionAssumption
  <1> DEFINE N == P \div L
             Q == P \div N
  <1>0. C = (Q * Kilo) \div S
    OBVIOUS
  <1>1. N \in Nat \ {0} /\ N * L <= P /\ P < N * L + L
    BY DivBounds
  <1> HIDE DEF N
  <1>2. Q \in Nat /\ Q * N <= P /\ P < Q * N + N
    BY <1>1, DivBounds
  <1> HIDE DEF Q
  <1>3. L <= Q
    <2>1. SUFFICES ASSUME Q + 1 <= L PROVE FALSE
      BY <1>2
    <2>2. N * (Q + 1) <= N * L
      BY <1>1, <1>2, <2>1, MulMono
    <2>3. N * (Q + 1) = Q * N + N
      BY <1>1, <1>2
    <2> QED
      BY <1>1, <1>2, <2>2, <2>3
  <1>4. Q < 2 * L
    <2>1. SUFFICES ASSUME 2 * L <= Q PROVE FALSE
      BY <1>2
    <2>2. (2 * L) * N <= Q * N
      BY <1>1, <1>2, <2>1, MulMono
    <2>3. (2 * L) * N = N * L + N * L
      BY <1>1
    <2>4. 1 * L <= N * L
      BY <1>1, MulMono
    <2>5. N * L \in Nat /\ Q * N \in Nat
      BY <1>1, <1>2
    <2> QED
      BY <1>1, <1>2, <2>2, <2>3, <2>4, <2>5
  <1>5. Q * Kilo \in Nat /\ L * Kilo <= Q * Kilo
    BY <1>2, <1>3, MulMono
  <1>6. Q * Kilo < (2 * L) * Kilo
    <2>1. (Q + 1) * Kilo <= (2 * L) * Kilo
      BY <1>2, <1>4, MulMono
    <2>2. (Q + 1) * Kilo = Q * Kilo + Kilo
      BY <1>2
    <2> QED
      BY <1>5, <2>1, <2>2
  <1>7. C \in Nat /\ C * S <= Q * Kilo /\ Q * Kilo < C * S + S
    BY <1>0, <1>5, DivBounds
  <1>8. C >= 1
    <2>1. SUFFICES ASSUME C = 0 PROVE FALSE
      BY <1>7
    <2>2. Q * Kilo < S
      BY <1>7, <2>1
    <2>3. 1 * Kilo <= Q * Kilo
      BY <1>2, <1>3, MulMono
    <2> QED
      BY <1>5, <2>2, <2>3
  <1>9. C * S \in Nat /\ (2 * L) * Kilo = 2 * L * Kilo /\ L * Kilo \in Nat
    BY <1>7
  <1>10. C * S > L * Kilo - S /\ C * S < 2 * L * Kilo
    BY <1>5, <1>6, <1>7, <1>9
  <1> QED
    BY <1>7, <1>8, <1>10

-----------------------------------------------------------------------------
LEMMA TypeStep == TypeOK /\ [Next]_vars => TypeOK'
  <1> SUFFICES ASSUME TypeOK, [Next]_vars PROVE TypeOK'
    OBVIOUS
  <1> USE SessionAssumption DEF TypeOK, Goto, End, system, sizes
  <1>1. CASE ReadOptions
    <2>1. opt' \in [jobs : 0..MaxJobs, filesize : 1..Kilo, rwsize : 1..Kilo]
      BY <1>1 DEF ReadOptions, JobsAccepted, FileSizeAccepted, RwSizeAccepted
    <2> QED
      BY <1>1, <2>1 DEF ReadOptions, Phases
  <1>2. ASSUME Umount PROVE mounts' \in 0..MaxMounts /\ busy' \in BOOLEAN
    <2>1. CASE mounts > 0 /\ mounts' = mounts - 1 /\ busy' = busy
      BY <2>1
    <2>2. CASE busy' = TRUE /\ mounts' = mounts
      BY <2>2
    <2>3. CASE mounts' = mounts /\ busy' = busy
      BY <2>3
    <2> QED
      BY <1>2, <2>1, <2>2, <2>3, Zenon DEF Umount
  <1>3. CASE UmountFirst
    BY <1>2, <1>3 DEF UmountFirst, Phases
  <1>4. CASE Mkdir
    BY <1>4 DEF Mkdir, Phases
  <1>5. CASE Mount
    BY <1>5 DEF Mount, Phases
  <1>6. CASE GetInfo
    BY <1>6 DEF GetInfo, Phases
  <1>7. CASE Allocate
    <2>1. medium \in [bsize : Nat, blocks : Nat, bavail : Nat]
      BY DEF NoMedium
    <2>2. RemainSize(medium) \in Nat
      BY <2>1, RemainFits
    <2>3. opt.jobs # 0 =>
            /\ RemainSize(medium) \div opt.jobs \in Nat
            /\ (RemainSize(medium) \div opt.jobs) \div opt.filesize \in Nat
      BY <2>2, DivBounds
    <2>4. prejobsize' \in Nat /\ prejobfilenum' \in Nat
      BY <1>7, <2>3 DEF Allocate
    <2> QED
      BY <1>7, <2>4 DEF Allocate, Phases
  <1>8. CASE Test
    BY <1>8 DEF Test, Phases
  <1>9. CASE UmountLast
    BY <1>2, <1>9 DEF UmountLast, Phases
  <1>10. CASE Killed
    <2>1. mounts' \in 0..MaxMounts
      BY <1>10 DEF Killed
    <2>2. point' \in BOOLEAN
      BY <1>10 DEF Killed
    <2> QED
      BY <1>10, <2>1, <2>2 DEF Killed, Phases
  <1>11. CASE NextRun
    BY <1>11 DEF NextRun, Phases, NoOption, NoMedium
  <1>12. CASE UNCHANGED vars
    BY <1>12 DEF vars
  <1> QED
    BY <1>1, <1>3, <1>4, <1>5, <1>6, <1>7, <1>8, <1>9, <1>10, <1>11, <1>12 DEF Next

(* The variables keep their types, whatever the options and the media are. *)
THEOREM TypeCorrect == Spec => []TypeOK
  <1>1. Init => TypeOK
    <2>1. NoOption \in [jobs : 0..MaxJobs, filesize : 1..Kilo, rwsize : 1..Kilo]
      BY SessionAssumption DEF NoOption
    <2>2. 0 \in 0..MaxMounts
      BY SessionAssumption
    <2> SUFFICES ASSUME Init PROVE TypeOK
      OBVIOUS
    <2>3. /\ phase \in Phases
          /\ why \in {"none", "usage", "mount", "info", "nofile", "done", "killed"}
          /\ point \in BOOLEAN /\ busy \in BOOLEAN
      BY DEF Init, Phases
    <2>4. mounts = 0 /\ opt = NoOption /\ medium = NoMedium
      BY DEF Init
    <2>5. prejobsize \in Nat /\ prejobfilenum \in Nat
      BY DEF Init
    <2> QED
      BY <2>1, <2>2, <2>3, <2>4, <2>5 DEF TypeOK
  <1> QED
    BY <1>1, TypeStep, PTL DEF Spec

-----------------------------------------------------------------------------
(* While the jobs run, the sizes are those of step 3. *)
AllocInv ==
    JobsRun => /\ prejobsize = RemainSize(medium) \div opt.jobs
               /\ prejobfilenum = prejobsize \div opt.filesize
               /\ prejobfilenum # 0

LEMMA AllocStep == AllocInv /\ [Next]_vars => AllocInv'
  <1> SUFFICES ASSUME AllocInv, [Next]_vars PROVE AllocInv'
    OBVIOUS
  <1> USE DEF AllocInv, JobsRun, Goto, End, system, sizes
  <1>1. CASE Allocate
    BY <1>1 DEF Allocate, RemainSize
  <1>2. CASE ReadOptions \/ UmountFirst \/ Mkdir \/ Mount \/ GetInfo
    BY <1>2 DEF ReadOptions, UmountFirst, Mkdir, Mount, GetInfo
  <1>3. CASE Test \/ UmountLast \/ Killed \/ NextRun
    BY <1>3 DEF Test, UmountLast, Killed, NextRun
  <1>4. CASE UNCHANGED vars
    BY <1>4 DEF vars, RemainSize
  <1> QED
    BY <1>1, <1>2, <1>3, <1>4 DEF Next

LEMMA AllocAlways == Spec => [](TypeOK /\ AllocInv)
  <1>1. Init => AllocInv
    BY DEF Init, AllocInv, JobsRun
  <1> QED
    BY <1>1, AllocStep, TypeCorrect, PTL DEF Spec

(* No medium, however large, small or oddly divided, makes step 3 give the
   jobs more than is free. *)
THEOREM AllocationFits == Spec => []JobsFit
  <1>1. ASSUME TypeOK, AllocInv, JobsRun
        PROVE  opt.jobs * prejobfilenum * (Count * opt.rwsize) <= FreeKB(medium)
    <2> USE SessionAssumption
    <2>1. medium \in [bsize : Nat, blocks : Nat, bavail : Nat]
      BY <1>1 DEF TypeOK, NoMedium
    <2> DEFINE R == RemainSize(medium)
    <2>2. R \in Nat /\ R * Kilo <= FreeKB(medium)
      BY <2>1, RemainFits
    <2>3. opt.jobs \in Nat \ {0} /\ opt.rwsize \in Nat \ {0}
      BY <1>1 DEF TypeOK, JobsRun
    <2>4. prejobsize \in Nat /\ prejobfilenum \in Nat \ {0}
      BY <1>1 DEF TypeOK, AllocInv
    <2>5. prejobsize = R \div opt.jobs
      BY <1>1 DEF AllocInv
    <2> HIDE DEF R
    <2>6. prejobsize * opt.jobs <= R
      BY <2>2, <2>3, <2>5, DivBounds
    <2>7. opt.jobs * prejobfilenum * (Count * opt.rwsize) <= R * Kilo
      BY <2>2, <2>3, <2>4, <2>6, ShareFits DEF Count
    <2>8. Count \in Nat
      <3>1. prejobsize \div prejobfilenum \in Nat
        BY <2>4, DivBounds
      <3>2. (prejobsize \div prejobfilenum) * Kilo \in Nat
        BY <3>1
      <3> QED
        BY <2>3, <3>2, DivBounds DEF Count
    <2>9. FreeKB(medium) \in Nat
      <3>1. medium.bsize * medium.bavail \in Nat
        BY <2>1
      <3> QED
        BY <3>1, DivBounds DEF FreeKB
    <2>10. /\ opt.jobs * prejobfilenum * (Count * opt.rwsize) \in Nat
           /\ R * Kilo \in Nat
      BY <2>2, <2>3, <2>4, <2>8
    <2> QED
      BY <2>2, <2>7, <2>9, <2>10
  <1>2. TypeOK /\ AllocInv => JobsFit
    BY <1>1 DEF JobsFit
  <1> QED
    BY <1>2, AllocAlways, PTL

(* The limits of -l and -s keep every file at one block or more and below
   twice the size asked for. *)
THEOREM FileSizesKept == Spec => []FileSizeInRange
  <1>1. ASSUME TypeOK, AllocInv, JobsRun
        PROVE  /\ Count >= 1
               /\ Count * opt.rwsize > opt.filesize * Kilo - opt.rwsize
               /\ Count * opt.rwsize < 2 * opt.filesize * Kilo
    <2>1. prejobsize \in Nat /\ opt.filesize \in Nat \ {0} /\ opt.rwsize \in 1..Kilo
      BY <1>1 DEF TypeOK
    <2>2. prejobfilenum = prejobsize \div opt.filesize /\ prejobfilenum # 0
      BY <1>1 DEF AllocInv
    <2>3. Count = ((prejobsize \div (prejobsize \div opt.filesize)) * Kilo) \div opt.rwsize
      BY <2>2 DEF Count
    <2> HIDE DEF Count
    <2> QED
      BY <2>1, <2>2, <2>3, FileSize
  <1>2. TypeOK /\ AllocInv => FileSizeInRange
    BY <1>1 DEF FileSizeInRange
  <1> QED
    BY <1>2, AllocAlways, PTL

-----------------------------------------------------------------------------
(* Where something may be mounted while no umount has failed. *)
MountInv ==
    /\ mounts > 0 => point
    /\ ~busy => /\ mounts <= 1
                /\ phase \in {"mkdir", "mount"} => mounts = 0
                /\ phase = "over" /\ why \in {"mount", "info", "done"} => mounts = 0

LEMMA MountStep == TypeOK /\ MountInv /\ [Next]_vars => MountInv'
  <1> SUFFICES ASSUME TypeOK, MountInv, [Next]_vars PROVE MountInv'
    OBVIOUS
  <1> USE DEF MountInv, Goto, End, system, sizes
  <1>0. mounts \in Nat /\ busy \in BOOLEAN
    BY SessionAssumption DEF TypeOK
  <1>1. CASE ReadOptions
    BY <1>1 DEF ReadOptions
  <1>2. CASE UmountFirst
    BY <1>0, <1>2 DEF UmountFirst, Umount
  <1>3. CASE Mkdir
    BY <1>3 DEF Mkdir
  <1>4. CASE Mount
    BY <1>0, <1>4 DEF Mount
  <1>5. CASE GetInfo \/ Allocate \/ Test
    BY <1>5 DEF GetInfo, Allocate, Test
  <1>6. CASE UmountLast
    BY <1>0, <1>6 DEF UmountLast, Umount
  <1>7. CASE Killed \/ NextRun
    <2>1. mounts' = mounts \/ mounts' = 0
      BY <1>7 DEF Killed, NextRun
    <2>2. busy' = busy
      BY <1>7 DEF Killed, NextRun
    <2>3. mounts' = 0 \/ (mounts' = mounts /\ point' = point)
      BY <1>7 DEF Killed, NextRun
    <2>4. phase' \notin {"mkdir", "mount"} /\ why' \notin {"mount", "info", "done"}
      BY <1>7 DEF Killed, NextRun
    <2> QED
      BY <1>0, <2>1, <2>2, <2>3, <2>4
  <1>8. CASE UNCHANGED vars
    BY <1>8 DEF vars
  <1> QED
    BY <1>1, <1>2, <1>3, <1>4, <1>5, <1>6, <1>7, <1>8 DEF Next

LEMMA MountAlways == Spec => []MountInv
  <1>1. Init => MountInv
    BY DEF Init, MountInv
  <1> QED
    BY <1>1, MountStep, TypeCorrect, PTL DEF Spec

(* The umount at the start of a run takes away what runs before it left, so
   that mounts do not pile up. *)
THEOREM MountsDoNotPileUp == Spec => []OneMount
  <1>1. MountInv => OneMount
    BY DEF MountInv, OneMount
  <1> QED
    BY <1>1, MountAlways, PTL

(* A run that ends through an umount leaves nothing mounted. *)
THEOREM RunsCleanUp == Spec => []NothingLeftMounted
  <1>1. MountInv => NothingLeftMounted
    BY DEF MountInv, NothingLeftMounted
  <1> QED
    BY <1>1, MountAlways, PTL
=============================================================================
