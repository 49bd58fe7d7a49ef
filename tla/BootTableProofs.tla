--------------------------- MODULE BootTableProofs ---------------------------
(***************************************************************************)
(* What holds of BootTable for every disk, every size of ptes and every    *)
(* number of calls.                                                        *)
(***************************************************************************)
EXTENDS BootTable, NumberTheorems, SequenceTheorems, TLAPS

(* Sequences with an element taken out. *)
LEMMA RemoveAtProps ==
  ASSUME NEW S, NEW s \in Seq(S), NEW k \in 1..Len(s)
  PROVE  /\ RemoveAt(s, k) \in Seq(S)
         /\ Len(RemoveAt(s, k)) = Len(s) - 1
         /\ \A j \in 1..Len(s)-1 : RemoveAt(s, k)[j] = IF j < k THEN s[j] ELSE s[j + 1]
<1> DEFINE a == SubSeq(s, 1, k - 1)
           b == SubSeq(s, k + 1, Len(s))
<1>1. /\ a \in Seq(S) /\ Len(a) = k - 1
      /\ \A j \in 1..k-1 : a[j] = s[j]
  <2>1. \A i \in 1..k-1 : s[i] \in S
    BY ElementOfSeq
  <2>2. /\ a \in Seq(S) /\ Len(a) = IF 1 <= k - 1 THEN k - 1 - 1 + 1 ELSE 0
        /\ \A j \in 1..(k - 1 - 1 + 1) : a[j] = s[1 + j - 1]
    BY <2>1, SubSeqProperties
  <2> HIDE DEF a
  <2> QED
    BY <2>2
<1>2. /\ b \in Seq(S) /\ Len(b) = Len(s) - k
      /\ \A j \in 1..Len(s)-k : b[j] = s[k + j]
  <2>1. \A i \in k+1..Len(s) : s[i] \in S
    BY ElementOfSeq
  <2>2. /\ b \in Seq(S) /\ Len(b) = IF k + 1 <= Len(s) THEN Len(s) - (k + 1) + 1 ELSE 0
        /\ \A j \in 1..(Len(s) - (k + 1) + 1) : b[j] = s[(k + 1) + j - 1]
    BY <2>1, SubSeqProperties
  <2> HIDE DEF b
  <2> QED
    BY <2>2
<1>3. RemoveAt(s, k) = a \o b
  BY DEF RemoveAt
<1> HIDE DEF a, b
<1>4. /\ a \o b \in Seq(S)
      /\ Len(a \o b) = Len(a) + Len(b)
      /\ \A i \in 1..Len(a) + Len(b) : (a \o b)[i] = IF i <= Len(a) THEN a[i] ELSE b[i - Len(a)]
  BY <1>1, <1>2, ConcatProperties
<1>5. ASSUME NEW j \in 1..Len(s)-1 PROVE (a \o b)[j] = IF j < k THEN s[j] ELSE s[j + 1]
  <2>1. j \in 1..Len(a) + Len(b)
    BY <1>1, <1>2
  <2>2. (a \o b)[j] = IF j <= Len(a) THEN a[j] ELSE b[j - Len(a)]
    BY <1>4, <2>1
  <2>3. CASE j < k
    BY <1>1, <2>2, <2>3
  <2>4. CASE ~(j < k)
    <3>1. j - Len(a) \in 1..Len(s)-k /\ k + (j - Len(a)) = j + 1 /\ ~(j <= Len(a))
      BY <1>1, <2>4
    <3> QED
      BY <1>2, <2>2, <2>4, <3>1
  <2> QED
    BY <2>3, <2>4
<1>6. Len(a \o b) = Len(s) - 1
  BY <1>1, <1>2, <1>4
<1> QED
  BY <1>3, <1>4, <1>5, <1>6

LEMMA FrontProps ==
  ASSUME NEW S, NEW s \in Seq(S), s # << >>
  PROVE  /\ Front(s) \in Seq(S)
         /\ Len(Front(s)) = Len(s) - 1
         /\ \A j \in 1..Len(s)-1 : Front(s)[j] = s[j]
<1>1. Len(s) \in Nat /\ Len(s) # 0
  BY EmptySeq
<1>2. \A i \in 1..Len(s)-1 : s[i] \in S
  BY ElementOfSeq
<1>3. /\ SubSeq(s, 1, Len(s) - 1) \in Seq(S)
      /\ Len(SubSeq(s, 1, Len(s) - 1)) = IF 1 <= Len(s) - 1 THEN Len(s) - 1 - 1 + 1 ELSE 0
      /\ \A j \in 1..(Len(s) - 1 - 1 + 1) : SubSeq(s, 1, Len(s) - 1)[j] = s[1 + j - 1]
  BY <1>1, <1>2, SubSeqProperties
<1> DEFINE f == SubSeq(s, 1, Len(s) - 1)
<1>4. Front(s) = f
  BY DEF Front
<1>5. /\ f \in Seq(S)
      /\ Len(f) = IF 1 <= Len(s) - 1 THEN Len(s) - 1 - 1 + 1 ELSE 0
      /\ \A j \in 1..(Len(s) - 1 - 1 + 1) : f[j] = s[1 + j - 1]
  BY <1>3
<1> HIDE DEF f
<1>6. Len(f) = Len(s) - 1
  <2> DEFINE n == Len(s)
             m == Len(f)
  <2>1. n \in Nat /\ n # 0 /\ m = IF 1 <= n - 1 THEN n - 1 - 1 + 1 ELSE 0
    BY <1>1, <1>5
  <2> HIDE DEF n, m
  <2>2. m = n - 1
    BY <2>1
  <2> QED
    BY <2>2 DEF n, m
<1>7. ASSUME NEW j \in 1..Len(s)-1 PROVE f[j] = s[j]
  <2>1. j \in 1..(Len(s) - 1 - 1 + 1) /\ 1 + j - 1 = j
    BY <1>1
  <2> QED
    BY <1>5, <2>1
<1> QED
  BY <1>4, <1>5, <1>6, <1>7

-----------------------------------------------------------------------------
(* What the operators do to a link. *)
Same(l, r) == l.buffer = r.buffer /\ l.link = r.link /\ l.part = r.part /\ l.ext = r.ext

LEMMA EntryType == NoEntry \in Entries
  BY BootAssumption DEF NoEntry, Entries, Kinds

LEMMA LinkTypes ==
  ASSUME NEW l \in Links
  PROVE  /\ l.offset \in Nat /\ l.buffer \in Buffers /\ l.sector \in Tables
         /\ l.part \in 0..3 /\ l.ext \in 0..3 /\ l.changed \in BOOLEAN /\ l.link \in Nat
         /\ \A i \in 0..3 : l.sector.entry[i] \in Entries
         /\ Part(l) \in Entries /\ Ext(l) \in Entries
         /\ Part(l).sys \in Kinds /\ Part(l).start \in 0..Word-1 /\ Part(l).nr \in 0..Word-1
         /\ Ext(l).sys \in Kinds /\ Ext(l).start \in 0..Word-1 /\ Ext(l).nr \in 0..Word-1
         /\ get_partition_start(l) \in Nat
<1>1. /\ l.offset \in Nat /\ l.buffer \in Buffers /\ l.sector \in Tables
      /\ l.part \in 0..3 /\ l.ext \in 0..3 /\ l.changed \in BOOLEAN /\ l.link \in Nat
  BY DEF Links
<1>2. \A i \in 0..3 : l.sector.entry[i] \in Entries
  BY <1>1 DEF Tables
<1>3. Part(l) \in Entries /\ Ext(l) \in Entries
  BY <1>1, <1>2 DEF Part, Ext
<1>4. /\ Part(l).sys \in Kinds /\ Part(l).start \in 0..Word-1 /\ Part(l).nr \in 0..Word-1
      /\ Ext(l).sys \in Kinds /\ Ext(l).start \in 0..Word-1 /\ Ext(l).nr \in 0..Word-1
  BY <1>3 DEF Entries
<1>5. get_partition_start(l) \in Nat
  BY <1>1, <1>4, BootAssumption DEF get_partition_start
<1> QED
  BY <1>1, <1>2, <1>3, <1>4, <1>5

(* A link with another entry in its sector, marked to be written. *)
Put(l, i, e) == [l EXCEPT !.sector.entry[i] = e, !.changed = TRUE]

WithEntry(p, l, i, e) ==
    /\ p \in Links
    /\ Same(p, l)
    /\ p.offset = l.offset
    /\ p.changed = TRUE
    /\ \A j \in 0..3 : p.sector.entry[j] = IF j = i THEN e ELSE l.sector.entry[j]

LEMMA PutProps ==
  ASSUME NEW l \in Links, NEW i \in 0..3, NEW e \in Entries
  PROVE  WithEntry(Put(l, i, e), l, i, e)
<1> DEFINE t == [l.sector EXCEPT !.entry[i] = e]
<1>1. l.sector \in Tables
  BY DEF Links
<1>2. t \in Tables /\ \A j \in 0..3 : t.entry[j] = IF j = i THEN e ELSE l.sector.entry[j]
  BY <1>1 DEF Tables
<1>3. Put(l, i, e) = [l EXCEPT !.sector = t, !.changed = TRUE]
  BY DEF Put, Links
<1> HIDE DEF t
<1> QED
  BY <1>2, <1>3 DEF Links, Same, WithEntry

LEMMA MovedProps ==
  ASSUME NEW l \in Links, l.part # l.ext, extended_offset \in Nat
  PROVE  /\ Moved(l) \in Links
         /\ Same(Moved(l), l)
         /\ Moved(l).offset = extended_offset
         /\ Moved(l).changed = TRUE
         /\ Ext(Moved(l)) = Ext(l)
         /\ Part(Moved(l)).nr = Part(l).nr
         /\ Part(Moved(l)).sys = Part(l).sys
         /\ Part(Moved(l)).start = (get_partition_start(l) - extended_offset) % Word
<1> DEFINE a == (get_partition_start(l) - extended_offset) % Word
           p == [Part(l) EXCEPT !.start = a]
           t == [l.sector EXCEPT !.entry[l.part] = p]
<1>1. /\ l.part \in 0..3 /\ l.ext \in 0..3 /\ l.sector \in Tables
      /\ Part(l) \in Entries /\ get_partition_start(l) \in Nat
  BY LinkTypes
<1>2. a \in 0..Word-1
  <2>1. get_partition_start(l) - extended_offset \in Int
    BY <1>1
  <2> HIDE DEF get_partition_start
  <2> QED
    BY <2>1, BootAssumption
<1>3. Moved(l) = [l EXCEPT !.sector = t, !.offset = extended_offset, !.changed = TRUE]
  BY <1>1 DEF Moved, Part, Links
<1> HIDE DEF a
<1>4. p \in Entries /\ p.nr = Part(l).nr /\ p.sys = Part(l).sys /\ p.start = a
  BY <1>1, <1>2 DEF Entries
<1> HIDE DEF p
<1>5. t \in Tables /\ \A j \in 0..3 : t.entry[j] = IF j = l.part THEN p ELSE l.sector.entry[j]
  BY <1>1, <1>4 DEF Tables
<1> HIDE DEF t
<1>6. /\ Moved(l) \in Links
      /\ Same(Moved(l), l)
      /\ Moved(l).offset = extended_offset
      /\ Moved(l).changed = TRUE
      /\ Moved(l).sector = t
  BY <1>3, <1>5 DEF Links, Same
<1>7. Part(Moved(l)) = p /\ Ext(Moved(l)) = Ext(l)
  BY <1>1, <1>5, <1>6 DEF Part, Ext, Same
<1> QED
  BY <1>4, <1>6, <1>7 DEF a

(* The entries of a sector that a fresh link uses. *)
LEMMA MinOfEntries ==
  ASSUME NEW S \in SUBSET (0..3), S # {}
  PROVE  Min(S) \in S /\ \A j \in S : Min(S) <= j
<1>1. \E m \in S : \A j \in S : m <= j
  <2>1. CASE 0 \in S
    BY <2>1
  <2>2. CASE 0 \notin S /\ 1 \in S
    BY <2>2
  <2>3. CASE 0 \notin S /\ 1 \notin S /\ 2 \in S
    BY <2>3
  <2>4. CASE 0 \notin S /\ 1 \notin S /\ 2 \notin S
    <3>1. \A j \in S : j = 3
      BY <2>4
    <3>2. PICK x \in S : TRUE
      OBVIOUS
    <3>3. x <= x /\ \A j \in S : j = x
      BY <3>1
    <3> QED
      BY <3>3
  <2> QED
    BY <2>1, <2>2, <2>3, <2>4
<1> QED
  BY <1>1 DEF Min

LEMMA EntriesApart ==
  ASSUME NEW t \in Tables
  PROVE  PartOf(t) \in 0..3 /\ ExtOf(t) \in 0..3 /\ PartOf(t) # ExtOf(t)
<1> DEFINE D == Used(t, "data")
           X == Used(t, "ext")
<1>1. D \in SUBSET (0..3) /\ X \in SUBSET (0..3) /\ D \cap X = {}
  BY DEF Used
<1> HIDE DEF D, X
<1>2. /\ PartOf(t) = CASE D # {} -> Min(D) [] D = {} /\ 0 \notin X -> 0 [] OTHER -> 1
      /\ ExtOf(t) = CASE X # {} -> Min(X) [] X = {} /\ PartOf(t) # 0 -> 0 [] OTHER -> 1
  BY DEF PartOf, ExtOf, D, X
<1>3. (D # {} => Min(D) \in D) /\ (X # {} => Min(X) \in X /\ \A j \in X : Min(X) <= j)
  BY <1>1, MinOfEntries
<1>4. CASE D # {}
  <2>1. PartOf(t) = Min(D)
    BY <1>2, <1>4
  <2> QED
    BY <1>1, <1>2, <1>3, <1>4, <2>1
<1>5. CASE D = {}
  <2>1. PartOf(t) = IF 0 \in X THEN 1 ELSE 0
    BY <1>2, <1>5
  <2>2. PartOf(t) \in 0..3 /\ PartOf(t) \in {0, 1} /\ (0 \in X <=> PartOf(t) = 1)
    BY <2>1
  <2>3. CASE X # {}
    <3>1. ExtOf(t) = Min(X)
      BY <1>2, <2>3
    <3>2. ExtOf(t) \in 0..3 /\ ExtOf(t) \in X /\ (0 \in X => ExtOf(t) <= 0)
      BY <3>1, <1>1, <1>3, <2>3
    <3> QED
      BY <3>2, <2>2, <1>1
  <2>4. CASE X = {}
    BY <1>2, <2>2, <2>4
  <2> QED
    BY <2>3, <2>4
<1> QED
  BY <1>4, <1>5

-----------------------------------------------------------------------------
(* The inductive invariant.  First how the calls of read_extended succeed each
   other, ... *)
Control ==
    /\ pc \in {"chain", "remove"} => at \in 0..3
    /\ pc = "chain" => mbr.entry[ext_index].sys = "ext" /\ mbr.entry[ext_index].start # 0
    /\ pc = "remove" => links # << >>

(* ... from where the places of the links count, ... *)
Offsets ==
    /\ links = << >> => extended_offset = 0 /\ chain = << >>
    /\ links # << >> =>
         /\ extended_offset = mbr.entry[ext_index].start /\ extended_offset # 0
         /\ links[1].offset = extended_offset
    /\ \A k \in 1..Len(links) : links[k].offset >= extended_offset

(* ... that the pointer is never the partition, without which clearing one would
   change the other, ... *)
Apart == \A k \in 1..Len(links) : links[k].part # links[k].ext

(* ... and that the links form a chain, also while it is read. *)
Chained ==
    /\ \A k \in 1..Len(links)-1 :
          /\ Ext(links[k]).sys = "ext"
          /\ links[k + 1].offset = extended_offset + Ext(links[k]).start
    /\ Read /\ links # << >> => Ext(links[Len(links)]).sys # "ext"

Shape == TypeOK /\ Control /\ Offsets /\ Apart /\ Chained

LEMMA LinkType ==
  ASSUME TypeOK, NEW k \in 1..Len(links)
  PROVE  links[k] \in Links
BY ElementOfSeq DEF TypeOK

(* What a deletion leaves of each link: the one that was at j or behind it. *)
NewPointer(k) == IF Ext(links[k]).sys = "none" THEN NoEntry ELSE Ext(links[k])
From(k, j) == links[IF j < k THEN j ELSE j + 1]

Deleted(k, d) ==
    /\ d \in Seq(Links) /\ Len(d) = Len(links) - 1
    /\ \A j \in 1..Len(links)-1 :
         d[j] = IF j = k - 1 THEN Put(links[j], links[j].ext, NewPointer(k))
                ELSE IF k = 1 /\ j = 1 THEN Moved(links[2]) ELSE From(k, j)

LEMMA DeleteOne ==
  ASSUME Shape, pc = "remove", NEW k \in 1..Len(links), Len(links) > 1
  PROVE  Deleted(k, delete_partition(k))
<1>1. links \in Seq(Links) /\ Len(links) \in Nat /\ extended_offset \in Nat
  BY BootAssumption DEF Shape, TypeOK
<1>2. \A j \in 1..Len(links) : links[j] \in Links
  BY LinkType DEF Shape
<1>3. NewPointer(k) \in Entries
  BY <1>2, LinkTypes, EntryType DEF NewPointer
<1>4. ASSUME k > 1 PROVE Deleted(k, delete_partition(k))
  <2> DEFINE b == Put(links[k - 1], links[k - 1].ext, NewPointer(k))
             p == [links EXCEPT ![k - 1] = b]
  <2>1. k - 1 \in 1..Len(links) /\ links[k - 1] \in Links /\ links[k - 1].ext \in 0..3
    BY <1>1, <1>2, <1>4, LinkTypes
  <2>2. b \in Links
    BY <1>3, <2>1, PutProps DEF WithEntry
  <2> HIDE DEF b
  <2>3. /\ p \in Seq(Links) /\ Len(p) = Len(links)
        /\ \A j \in 1..Len(links) : p[j] = IF j = k - 1 THEN b ELSE links[j]
    BY <1>1, <2>1, <2>2, ExceptSeq
  <2>4. PassOn(k, NewPointer(k)) = p
    BY DEF PassOn, Put, b
  <2>5. CASE Ext(links[k]).sys = "none"
    <3>1. k = Len(links)
      BY <1>1, <2>5 DEF Shape, Chained
    <3>2. delete_partition(k) = Front(p)
      <4>1. PassOn(k, NoEntry) = p
        BY <2>4, <2>5 DEF NewPointer
      <4> HIDE DEF p
      <4> QED
        BY <1>4, <2>5, <4>1 DEF delete_partition
    <3> HIDE DEF p
    <3>3. p # << >>
      BY <1>1, <2>3
    <3>4. /\ Front(p) \in Seq(Links)
          /\ Len(Front(p)) = Len(p) - 1
          /\ \A j \in 1..Len(p)-1 : Front(p)[j] = p[j]
      BY <2>3, <3>3, FrontProps
    <3>5. ASSUME NEW j \in 1..Len(links)-1
          PROVE  Front(p)[j] = IF j = k - 1 THEN b ELSE From(k, j)
      BY <1>1, <2>3, <3>1, <3>4 DEF From
    <3> QED
      BY <1>4, <2>3, <3>2, <3>4, <3>5 DEF Deleted, b
  <2>6. CASE Ext(links[k]).sys # "none"
    <3>1. delete_partition(k) = RemoveAt(p, k)
      BY <1>4, <2>4, <2>6 DEF delete_partition, NewPointer
    <3> HIDE DEF p
    <3>2. /\ RemoveAt(p, k) \in Seq(Links)
          /\ Len(RemoveAt(p, k)) = Len(p) - 1
          /\ \A j \in 1..Len(p)-1 : RemoveAt(p, k)[j] = IF j < k THEN p[j] ELSE p[j + 1]
      <4>1. p \in Seq(Links) /\ k \in 1..Len(p)
        BY <2>3
      <4> QED
        BY <4>1, RemoveAtProps
    <3>3. ASSUME NEW j \in 1..Len(links)-1
          PROVE  RemoveAt(p, k)[j] = IF j = k - 1 THEN b ELSE From(k, j)
      BY <1>1, <2>3, <3>2 DEF From
    <3> QED
      BY <1>4, <2>3, <3>1, <3>2, <3>3 DEF Deleted, b
  <2> QED
    BY <2>5, <2>6
<1>5. ASSUME k = 1 PROVE Deleted(k, delete_partition(k))
  <2> DEFINE b == Moved(links[2])
             p == [links EXCEPT ![2] = b]
  <2>1. 2 \in 1..Len(links) /\ links[2].part # links[2].ext
    BY <1>1 DEF Shape, Apart
  <2>2. b \in Links
    BY <1>1, <1>2, <2>1, MovedProps
  <2>3. delete_partition(k) = RemoveAt(p, 1)
    BY <1>5 DEF delete_partition
  <2> HIDE DEF b
  <2>4. /\ p \in Seq(Links) /\ Len(p) = Len(links)
        /\ \A j \in 1..Len(links) : p[j] = IF j = 2 THEN b ELSE links[j]
    BY <1>1, <2>1, <2>2, ExceptSeq
  <2> HIDE DEF p
  <2>5. /\ RemoveAt(p, 1) \in Seq(Links)
        /\ Len(RemoveAt(p, 1)) = Len(p) - 1
        /\ \A j \in 1..Len(p)-1 : RemoveAt(p, 1)[j] = IF j < 1 THEN p[j] ELSE p[j + 1]
    <3>1. p \in Seq(Links) /\ 1 \in 1..Len(p)
      BY <2>1, <2>4
    <3> QED
      BY <3>1, RemoveAtProps
  <2>6. ASSUME NEW j \in 1..Len(links)-1
        PROVE  j # k - 1 /\ RemoveAt(p, 1)[j] = IF j = 1 THEN b ELSE From(k, j)
    BY <1>1, <1>5, <2>4, <2>5 DEF From
  <2> QED
    BY <1>5, <2>3, <2>4, <2>5, <2>6 DEF Deleted, b
<1> QED
  BY <1>4, <1>5

LEMMA DeletedLinks ==
  ASSUME Shape, NEW k \in 1..Len(links), Len(links) > 1,
         NEW d, Deleted(k, d), NEW j \in 1..Len(links)-1
  PROVE  /\ From(k, j) \in Links /\ d[j] \in Links
         /\ Same(d[j], From(k, j))
         /\ d[j].changed \/ d[j] = From(k, j)
         /\ Part(d[j]).nr = Part(From(k, j)).nr
         /\ Part(d[j]).sys = Part(From(k, j)).sys
         /\ Ext(d[j]) = IF j = k - 1 THEN NewPointer(k) ELSE Ext(From(k, j))
         /\ d[j].offset = IF k = 1 /\ j = 1 THEN extended_offset ELSE From(k, j).offset
         /\ Part(d[j]).start = IF k = 1 /\ j = 1
                               THEN (get_partition_start(links[2]) - extended_offset) % Word
                               ELSE Part(From(k, j)).start
<1>1. links \in Seq(Links) /\ Len(links) \in Nat /\ extended_offset \in Nat
  BY BootAssumption DEF Shape, TypeOK
<1>2. \A i \in 1..Len(links) : links[i] \in Links /\ links[i].part # links[i].ext
  BY LinkType DEF Shape, Apart
<1>3. From(k, j) \in Links
  BY <1>1, <1>2 DEF From
<1>4. CASE j = k - 1
  <2>1. From(k, j) = links[j] /\ j \in 1..Len(links) /\ ~(k = 1 /\ j = 1)
    BY <1>1, <1>4 DEF From
  <2>2. NewPointer(k) \in Entries
    BY <1>2, LinkTypes, EntryType DEF NewPointer
  <2> DEFINE l == links[j]
             e == NewPointer(k)
             x == l.ext
  <2>3. l \in Links /\ l.part # x /\ x \in 0..3 /\ l.part \in 0..3 /\ e \in Entries
    BY <1>2, <2>1, <2>2, LinkTypes
  <2>4. d[j] = Put(l, x, e) /\ x = l.ext
    BY <1>4 DEF Deleted
  <2>5. From(k, j) = l
    BY <2>1
  <2> HIDE DEF l, e, x
  <2>6. WithEntry(d[j], l, x, e)
    BY <2>3, <2>4, PutProps
  <2>7. Part(d[j]) = Part(l) /\ Ext(d[j]) = e
    BY <2>3, <2>4, <2>6 DEF Part, Ext, Same, WithEntry
  <2> QED
    BY <1>4, <2>1, <2>3, <2>5, <2>6, <2>7 DEF e, WithEntry
<1>5. CASE j # k - 1 /\ k = 1 /\ j = 1
  <2>1. From(k, j) = links[2] /\ links[2] \in Links /\ links[2].part # links[2].ext
    BY <1>1, <1>2, <1>5 DEF From
  <2>2. d[j] = Moved(links[2])
    BY <1>5 DEF Deleted
  <2> QED
    BY <1>1, <1>5, <2>1, <2>2, MovedProps
<1>6. CASE j # k - 1 /\ ~(k = 1 /\ j = 1)
  <2>1. d[j] = From(k, j)
    BY <1>6 DEF Deleted
  <2> QED
    BY <1>3, <1>6, <2>1 DEF Same
<1> QED
  BY <1>4, <1>5, <1>6

LEMMA ModSmall ==
  ASSUME NEW b \in Nat \ {0}, NEW x \in 0..b-1
  PROVE  x % b = x
OBVIOUS

(* A partition stays where it is, as far as 32 bits reach from the first link. *)
LEMMA StartKept ==
  ASSUME Shape, NEW k \in 1..Len(links), Len(links) > 1,
         NEW d, Deleted(k, d), NEW j \in 1..Len(links)-1,
         get_partition_start(From(k, j)) - extended_offset < Word
  PROVE  get_partition_start(d[j]) = get_partition_start(From(k, j))
<1>1. Len(links) \in Nat /\ extended_offset \in Nat
  BY BootAssumption DEF Shape, TypeOK
<1>2. CASE k = 1 /\ j = 1
  <2>1. From(k, j) = links[2] /\ 2 \in 1..Len(links)
    BY <1>1, <1>2 DEF From
  <2>2. links[2] \in Links /\ links[2].offset >= extended_offset
    BY <2>1, LinkType DEF Shape, Offsets
  <2>3. links[2].offset \in Nat /\ Part(links[2]).start \in Nat
    BY <2>2, LinkTypes, BootAssumption
  <2> DEFINE x == get_partition_start(links[2]) - extended_offset
  <2>4. x \in Int /\ x >= 0 /\ get_partition_start(links[2]) = x + extended_offset
    <3> DEFINE g == get_partition_start(links[2])
    <3>1. g = links[2].offset + Part(links[2]).start
      BY DEF get_partition_start
    <3>2. g \in Nat /\ g >= extended_offset
      BY <1>1, <2>2, <2>3, <3>1
    <3> HIDE DEF g
    <3> QED
      BY <1>1, <3>2 DEF g
  <2>5. x < Word
    BY <2>1
  <2>6. Part(d[j]).start = x % Word /\ d[j].offset = extended_offset
    BY <1>2, DeletedLinks
  <2> HIDE DEF x
  <2>7. x \in 0..Word-1
    BY <2>4, <2>5, BootAssumption
  <2>8. x % Word = x
    BY <2>7, ModSmall, BootAssumption
  <2>9. get_partition_start(d[j]) = extended_offset + x
    BY <2>6, <2>8 DEF get_partition_start
  <2> QED
    BY <1>1, <2>1, <2>4, <2>9
<1>3. CASE ~(k = 1 /\ j = 1)
  BY <1>3, DeletedLinks DEF get_partition_start
<1> QED
  BY <1>2, <1>3

(* The only link keeps its place and its pointer. *)
LEMMA ClearOnly ==
  ASSUME Shape, Len(links) = 1
  PROVE  LET d == delete_partition(1)
         IN /\ d \in Seq(Links) /\ Len(d) = 1
            /\ Same(d[1], links[1])
            /\ d[1].changed
            /\ Part(d[1]) = NoEntry
            /\ Ext(d[1]) = Ext(links[1])
            /\ d[1].offset = links[1].offset
<1> DEFINE l == links[1]
           x == l.part
           c == Put(l, x, NoEntry)
<1>1. l \in Links /\ x # l.ext /\ x \in 0..3 /\ l.ext \in 0..3 /\ x = l.part
  BY LinkType, LinkTypes DEF Shape, Apart
<1>2. delete_partition(1) = << c >>
  BY DEF delete_partition, Cleared, Put
<1> HIDE DEF l, x
<1>3. WithEntry(c, l, x, NoEntry)
  BY <1>1, PutProps, EntryType
<1> HIDE DEF c
<1>4. Part(c) = NoEntry /\ Ext(c) = Ext(l)
  BY <1>1, <1>3 DEF Part, Ext, Same, WithEntry
<1>5. << c >> \in Seq(Links) /\ Len(<< c >>) = 1 /\ << c >>[1] = c
  BY <1>3 DEF WithEntry
<1> QED
  BY <1>2, <1>3, <1>4, <1>5 DEF l, WithEntry

-----------------------------------------------------------------------------
(* Every action keeps the shape. *)
LEMMA ShapeInit == Init => Shape
<1> SUFFICES ASSUME Init PROVE Shape
  OBVIOUS
<1>1. NoTable \in Tables
  BY EntryType DEF NoTable, Tables
<1>2. 0 \in 0..Word-1
  BY BootAssumption
<1>3. TypeOK
  BY <1>1, <1>2, BootAssumption DEF Init, TypeOK
<1> QED
  BY <1>3 DEF Init, Shape, Control, Offsets, Apart, Chained, Read

LEMMA ShapeGetBoot == Shape /\ get_boot => Shape'
<1> SUFFICES ASSUME Shape, get_boot PROVE Shape'
  OBVIOUS
<1>1. NoTable \in Tables
  BY EntryType DEF NoTable, Tables
<1>2. mbr' \in Tables /\ pc' \in {"idle", "entries"}
  BY <1>1, BootAssumption DEF get_boot
<1>3. links' = << >> /\ chain' = << >> /\ extended_offset' = 0 /\ ext_index' = 0 /\ at' = 0
  BY DEF get_boot
<1>4. boots' \in 0..MaxBoots /\ heap' = heap /\ lost' = lost
  BY BootAssumption DEF get_boot, Shape, TypeOK
<1>5. 0 \in 0..Word-1
  BY BootAssumption
<1>6. links' \in Seq(Links) /\ chain' \in Seq(Links) /\ Len(links') = 0
  BY <1>3
<1>7. TypeOK'
  BY <1>2, <1>3, <1>4, <1>5, <1>6, BootAssumption DEF Shape, TypeOK
<1> QED
  BY <1>2, <1>3, <1>6, <1>7 DEF Shape, Control, Offsets, Apart, Chained, Read

LEMMA ShapeSkipEntry == Shape /\ SkipEntry => Shape'
<1> SUFFICES ASSUME Shape, SkipEntry PROVE Shape'
  OBVIOUS
<1>1. TypeOK'
  BY DEF SkipEntry, found, Shape, TypeOK
<1> QED
  BY <1>1 DEF SkipEntry, found, Shape, TypeOK, Control, Offsets, Apart, Chained, Read

LEMMA ShapeEnterExtended == Shape /\ EnterExtended => Shape'
<1> SUFFICES ASSUME Shape, EnterExtended PROVE Shape'
  OBVIOUS
<1>1. links = << >> /\ at \in 0..3 /\ mbr.entry[at].sys = "ext"
  BY DEF EnterExtended, IsExtended, Shape, TypeOK
<1>2. TypeOK'
  BY <1>1 DEF EnterExtended, Shape, TypeOK
<1>3. Control'
  BY <1>1 DEF EnterExtended, Control
<1> QED
  BY <1>1, <1>2, <1>3 DEF EnterExtended, Shape, Offsets, Apart, Chained, Read

LEMMA PointerType == Shape => Pointer \in Entries /\ Pointer.start \in 0..Word-1
<1> SUFFICES ASSUME Shape PROVE Pointer \in Entries
  BY DEF Entries
<1>1. CASE links = << >>
  BY <1>1 DEF Shape, TypeOK, Tables, Pointer
<1>2. CASE links # << >>
  <2>1. Len(links) \in 1..Len(links)
    BY <1>2, EmptySeq DEF Shape, TypeOK
  <2>2. links[Len(links)] \in Links
    BY <2>1, LinkType DEF Shape
  <2> QED
    BY <1>2, <2>2, LinkTypes DEF Pointer, Last
<1> QED
  BY <1>1, <1>2

LEMMA FreshProps == TypeOK /\ heap # Buffers => Fresh \in Buffers /\ Fresh \notin heap
BY DEF TypeOK, Fresh

LEMMA ReadPteProps ==
  ASSUME Shape, heap # Buffers, NEW t \in LinkTables
  PROVE  /\ read_pte(t) \in Links
         /\ read_pte(t).offset = extended_offset + Pointer.start
         /\ read_pte(t).buffer = Fresh
         /\ read_pte(t).part # read_pte(t).ext
         /\ read_pte(t).link = Len(chain) + 1
<1>1. t \in Tables
  BY BootAssumption
<1>2. extended_offset + Pointer.start \in Nat /\ Len(chain) + 1 \in Nat
  BY PointerType, BootAssumption DEF Shape, TypeOK
<1>3. Fresh \in Buffers
  BY FreshProps DEF Shape
<1> QED
  BY <1>1, <1>2, <1>3, EntriesApart DEF read_pte, Links

LEMMA ShapeReadLink == Shape /\ ReadLink => Shape'
<1> SUFFICES ASSUME Shape, ReadLink PROVE Shape'
  OBVIOUS
<1>1. PICK t \in LinkTables : /\ links' = Append(links, read_pte(t))
                              /\ chain' = Append(chain, read_pte(t))
  BY DEF ReadLink
<1> DEFINE n == Len(links)
           r == read_pte(t)
<1>2. links \in Seq(Links) /\ chain \in Seq(Links) /\ n \in Nat /\ extended_offset \in Nat
  BY BootAssumption DEF Shape, TypeOK
<1>3. /\ r \in Links /\ r.part # r.ext
      /\ r.offset = extended_offset + Pointer.start
  BY ReadPteProps DEF ReadLink
<1>4. pc = "chain" /\ pc' = "chain" /\ mbr' = mbr /\ ext_index' = ext_index /\ at' = at
      /\ Pointer.sys = "ext" /\ mbr.entry[ext_index].start # 0
  BY DEF ReadLink, Shape, Control
<1>5. Pointer.start \in 0..Word-1 /\ Pointer.start \in Nat
  BY PointerType, BootAssumption
<1> HIDE DEF r
<1>6. /\ links' \in Seq(Links) /\ Len(links') = n + 1
      /\ \A k \in 1..n : links'[k] = links[k]
      /\ links'[n + 1] = r
      /\ chain' \in Seq(Links)
  BY <1>1, <1>2, <1>3, AppendProperties DEF r
<1>7. extended_offset' \in 0..Word-1
  BY <1>5 DEF ReadLink, Shape, TypeOK
<1>8. TypeOK'
  <2>1. heap' \subseteq Buffers /\ lost' = lost /\ boots' = boots
    BY FreshProps DEF ReadLink, Shape, TypeOK
  <2>2. 4 + (n + 1) <= MaxParts
    BY <1>2, BootAssumption DEF ReadLink, Full
  <2> HIDE DEF n
  <2> QED
    BY <1>4, <1>6, <1>7, <2>1, <2>2 DEF Shape, TypeOK
<1>9. Control'
  BY <1>4 DEF Shape, Control
<1>10. CASE links = << >>
  <2>1. n = 0 /\ Pointer = mbr.entry[ext_index]
    BY <1>10 DEF Pointer
  <2>2. extended_offset = 0 /\ extended_offset' = Pointer.start /\ Pointer.start # 0
    BY <1>4, <1>10, <2>1 DEF ReadLink, Shape, Offsets
  <2>3. Len(links') = 1 /\ links'[1] = r /\ r.offset = extended_offset'
    BY <1>3, <1>5, <1>6, <2>1, <2>2
  <2>4. Offsets'
    <3>1. links' # << >>
      BY <2>3
    <3>2. extended_offset' = mbr'.entry[ext_index'].start /\ extended_offset' # 0
      BY <1>4, <2>1, <2>2
    <3>3. links'[1].offset = extended_offset'
      BY <2>3
    <3>4. ASSUME NEW k \in 1..Len(links') PROVE links'[k].offset >= extended_offset'
      <4>1. k = 1
        BY <2>3
      <4>2. extended_offset' \in Nat
        BY <1>5, <2>2
      <4> QED
        BY <3>3, <4>1, <4>2
    <3> QED
      BY <3>1, <3>2, <3>3, <3>4 DEF Offsets
  <2>5. Apart' /\ Chained'
    BY <1>3, <1>4, <2>3 DEF Apart, Chained, Read
  <2> QED
    BY <1>8, <1>9, <2>4, <2>5 DEF Shape
<1>11. CASE links # << >>
  <2>1. n # 0 /\ n \in 1..n /\ Pointer = Ext(links[n])
    BY <1>2, <1>11, EmptySeq DEF Pointer, Last
  <2>2. extended_offset' = extended_offset /\ extended_offset # 0
    BY <1>11 DEF ReadLink, Shape, Offsets
  <2>3. r.offset >= extended_offset
    BY <1>2, <1>3, <1>5
  <2>4. 1 \in 1..n /\ links'[1] = links[1]
    BY <1>2, <1>6, <2>1
  <2>5. \A k \in 1..n+1 : k \in 1..n \/ k = n + 1
    BY <1>2
  <2>6. Offsets'
    BY <1>4, <1>6, <1>11, <2>2, <2>3, <2>4, <2>5 DEF Shape, Offsets
  <2>7. Apart'
    BY <1>3, <1>6, <2>5 DEF Shape, Apart
  <2>8. ASSUME NEW k \in 1..n
        PROVE  Ext(links'[k]).sys = "ext"
               /\ links'[k + 1].offset = extended_offset' + Ext(links'[k]).start
    <3>1. CASE k = n
      BY <1>3, <1>4, <1>6, <2>1, <2>2, <3>1
    <3>2. CASE k # n
      <4>1. k \in 1..n-1 /\ k + 1 \in 1..n
        BY <1>2, <3>2
      <4>2. Ext(links[k]).sys = "ext" /\ links[k + 1].offset = extended_offset + Ext(links[k]).start
        BY <4>1 DEF Shape, Chained
      <4> QED
        BY <1>6, <2>2, <4>1, <4>2
    <3> QED
      BY <3>1, <3>2
  <2>9. Chained'
    <3>1. Len(links') - 1 = n
      BY <1>2, <1>6
    <3> QED
      BY <1>4, <2>8, <3>1 DEF Chained, Read
  <2> QED
    BY <1>8, <1>9, <2>6, <2>7, <2>9 DEF Shape
<1> QED
  BY <1>10, <1>11

LEMMA ShapeOutOfMemory == Shape /\ OutOfMemory => Shape'
<1> SUFFICES ASSUME Shape, OutOfMemory PROVE Shape'
  OBVIOUS
<1>1. TypeOK'
  BY DEF OutOfMemory, found, Shape, TypeOK
<1> QED
  BY <1>1 DEF OutOfMemory, found, Shape, Control, Offsets, Apart, Chained, Read

(* What the last link of a full array becomes. *)
LEMMA ClearLast ==
  ASSUME Shape, links # << >>
  PROVE  LET n == Len(links)
             c == Cleared(links[n], links[n].ext)
             s == [links EXCEPT ![n] = c]
         IN /\ n \in 1..n
            /\ Same(c, links[n]) /\ c.changed /\ c.offset = links[n].offset
            /\ Part(c) = Part(links[n]) /\ Ext(c) = NoEntry
            /\ s \in Seq(Links) /\ Len(s) = n
            /\ \A j \in 1..n : s[j] = IF j = n THEN c ELSE links[j]
<1> DEFINE n == Len(links)
           l == links[n]
           x == l.ext
           c == Put(l, x, NoEntry)
<1>1. n \in 1..n
  BY EmptySeq DEF Shape, TypeOK
<1>2. l \in Links /\ l.part # x /\ x \in 0..3 /\ l.part \in 0..3 /\ x = l.ext
  BY <1>1, LinkType, LinkTypes DEF Shape, Apart
<1>3. Cleared(l, x) = c
  BY DEF Cleared, Put
<1> HIDE DEF l, x
<1>4. WithEntry(c, l, x, NoEntry)
  BY <1>2, PutProps, EntryType
<1> HIDE DEF c
<1>5. Part(c) = Part(l) /\ Ext(c) = NoEntry
  BY <1>2, <1>4 DEF Part, Ext, Same, WithEntry
<1>6. c \in Links /\ Same(c, l) /\ c.changed /\ c.offset = l.offset
  BY <1>4 DEF WithEntry
<1>7. /\ [links EXCEPT ![n] = c] \in Seq(Links)
      /\ Len([links EXCEPT ![n] = c]) = n
      /\ \A j \in 1..n : [links EXCEPT ![n] = c][j] = IF j = n THEN c ELSE links[j]
  BY <1>1, <1>6, ExceptSeq DEF Shape, TypeOK
<1>8. Cleared(links[n], links[n].ext) = c
  BY <1>3 DEF l, x
<1> QED
  BY <1>1, <1>5, <1>6, <1>7, <1>8 DEF l

LEMMA FullHasLinks == Shape /\ Full => links # << >>
<1> SUFFICES ASSUME Shape, Full, links = << >> PROVE FALSE
  OBVIOUS
<1>1. Len(links) = 0
  OBVIOUS
<1> QED
  BY <1>1, BootAssumption DEF Full

(* Of the last link only the pointer is cleared. *)
LEMMA LastIsCleared ==
  ASSUME Shape, TooManyParts
  PROVE  LET n == Len(links)
         IN /\ links # << >> /\ n \in 1..n
            /\ links' \in Seq(Links) /\ Len(links') = n
            /\ \A j \in 1..n : /\ Same(links'[j], links[j])
                               /\ links'[j].offset = links[j].offset
                               /\ Part(links'[j]) = Part(links[j])
                               /\ j # n => links'[j] = links[j]
            /\ Ext(links'[n]) = NoEntry
<1> DEFINE n == Len(links)
           c == Cleared(links[n], links[n].ext)
<1>1. links # << >>
  BY FullHasLinks DEF TooManyParts
<1>2. /\ n \in 1..n
      /\ Same(c, links[n]) /\ c.offset = links[n].offset
      /\ Part(c) = Part(links[n]) /\ Ext(c) = NoEntry
      /\ [links EXCEPT ![n] = c] \in Seq(Links) /\ Len([links EXCEPT ![n] = c]) = n
      /\ \A j \in 1..n : [links EXCEPT ![n] = c][j] = IF j = n THEN c ELSE links[j]
  BY <1>1, ClearLast
<1>3. links' = [links EXCEPT ![n] = c]
  BY DEF TooManyParts
<1> HIDE DEF n, c
<1>4. /\ links' \in Seq(Links) /\ Len(links') = n
      /\ \A j \in 1..n : links'[j] = IF j = n THEN c ELSE links[j]
  BY <1>2, <1>3
<1>5. ASSUME NEW j \in 1..n
      PROVE  /\ Same(links'[j], links[j])
             /\ links'[j].offset = links[j].offset
             /\ Part(links'[j]) = Part(links[j])
             /\ j # n => links'[j] = links[j]
  <2>1. links'[j] = IF j = n THEN c ELSE links[j]
    BY <1>4
  <2>2. CASE j = n
    BY <1>2, <2>1, <2>2
  <2>3. CASE j # n
    BY <2>1, <2>3 DEF Same
  <2> QED
    BY <2>2, <2>3
<1>6. Ext(links'[n]) = NoEntry
  <2>1. links'[n] = c
    BY <1>2, <1>4
  <2> QED
    BY <1>2, <2>1
<1>7. links # << >> /\ n \in 1..n
  BY <1>1, <1>2
<1> QED
  BY <1>4, <1>5, <1>6, <1>7 DEF n

LEMMA ShapeTooManyParts == Shape /\ TooManyParts => Shape'
<1> SUFFICES ASSUME Shape, TooManyParts PROVE Shape'
  OBVIOUS
<1> DEFINE n == Len(links)
<1>1. links # << >>
  BY LastIsCleared
<1>2. n \in 1..n
  BY LastIsCleared
<1>3. \A j \in 1..n : /\ Same(links'[j], links[j])
                      /\ links'[j].offset = links[j].offset
                      /\ Part(links'[j]) = Part(links[j])
                      /\ j # n => links'[j] = links[j]
  BY LastIsCleared
<1>4. links' \in Seq(Links) /\ Len(links') = n
  BY LastIsCleared
<1>5. /\ pc = "chain" /\ pc' = "entries" /\ at' = at + 1 /\ at \in 0..3 /\ n \in Nat
      /\ UNCHANGED <<heap, lost, chain, boots, mbr, ext_index, extended_offset>>
  BY DEF TooManyParts, found, Shape, TypeOK, Control
<1>6. TypeOK'
  BY <1>4, <1>5 DEF Shape, TypeOK
<1>7. \A j \in 1..n : links'[j].offset = links[j].offset /\ Same(links'[j], links[j])
  BY <1>3, Zenon
<1>8. links' # << >> /\ 1 \in 1..n
  <2>1. n >= 1
    BY <1>2, <1>5
  <2>2. Len(links') # 0
    BY <1>4, <2>1
  <2>3. links' # << >>
    BY <2>2
  <2> QED
    BY <1>5, <2>1, <2>3
<1>9. Control' /\ Apart'
  BY <1>4, <1>5, <1>7 DEF Shape, Control, Apart, Same
<1>10. Offsets'
  BY <1>1, <1>4, <1>5, <1>7, <1>8 DEF Shape, Offsets
<1>11. Chained'
  <2>1. ASSUME NEW k \in 1..n-1
        PROVE  Ext(links'[k]).sys = "ext"
               /\ links'[k + 1].offset = extended_offset' + Ext(links'[k]).start
    <3>1. k \in 1..n /\ k + 1 \in 1..n /\ k # n
      BY <1>5
    <3> QED
      BY <1>3, <1>4, <1>5, <3>1 DEF Shape, Chained
  <2>2. Ext(links'[n]).sys # "ext"
    <3>1. Ext(links'[n]) = NoEntry
      BY LastIsCleared
    <3> QED
      BY <3>1 DEF NoEntry
  <2> HIDE DEF n
  <2> QED
    BY <1>4, <2>1, <2>2 DEF Chained
<1> QED
  BY <1>6, <1>9, <1>10, <1>11 DEF Shape

LEMMA ShapeChainEnds == Shape /\ ChainEnds => Shape'
<1> SUFFICES ASSUME Shape, ChainEnds PROVE Shape'
  OBVIOUS
<1>1. TypeOK'
  BY DEF ChainEnds, found, Shape, TypeOK
<1>2. links # << >>
  BY DEF ChainEnds, Pointer, Shape, Control
<1>3. Ext(links[Len(links)]).sys # "ext"
  BY <1>2 DEF ChainEnds, Pointer, Last
<1>4. Control' /\ Offsets' /\ Apart'
  BY <1>2 DEF ChainEnds, found, Shape, Control, Offsets, Apart
<1>5. Chained'
  BY <1>3 DEF ChainEnds, found, Shape, Chained
<1> QED
  BY <1>1, <1>4, <1>5 DEF Shape

LEMMA ShapeNoneEmpty == Shape /\ NoneEmpty => Shape'
<1> SUFFICES ASSUME Shape, NoneEmpty PROVE Shape'
  OBVIOUS
<1>1. TypeOK'
  BY DEF NoneEmpty, found, Shape, TypeOK, Control
<1> QED
  BY <1>1 DEF NoneEmpty, found, Shape, Control, Offsets, Apart, Chained, Read

LEMMA CheckedLinks ==
  ASSUME Shape, CheckFlags
  PROVE  /\ links' \in Seq(Links) /\ Len(links') = Len(links)
         /\ \A k \in 1..Len(links) :
              /\ Same(links'[k], links[k])
              /\ links'[k].offset = links[k].offset /\ links'[k].sector = links[k].sector
              /\ links[k].changed => links'[k].changed
              /\ Part(links'[k]) = Part(links[k]) /\ Ext(links'[k]) = Ext(links[k])
<1>1. Len(links) \in Nat
  BY DEF Shape, TypeOK
<1>2. ASSUME NEW k \in 1..Len(links)
      PROVE  LET l == [links[k] EXCEPT !.changed = @ \/ ~links[k].sector.flag]
             IN /\ l \in Links /\ Same(l, links[k])
                /\ l.offset = links[k].offset /\ l.sector = links[k].sector
                /\ links[k].changed => l.changed
  <2>1. links[k] \in Links
    BY LinkType DEF Shape
  <2> QED
    BY <2>1 DEF Links, Same
<1>3. links' = [k \in 1..Len(links) |->
                 [links[k] EXCEPT !.changed = @ \/ ~links[k].sector.flag]]
  BY DEF CheckFlags
<1>4. links' \in Seq(Links) /\ Len(links') = Len(links)
  BY <1>1, <1>2, <1>3
<1> QED
  BY <1>2, <1>3, <1>4 DEF Part, Ext, Same

LEMMA ShapeCheckFlags == Shape /\ CheckFlags => Shape'
<1> SUFFICES ASSUME Shape, CheckFlags PROVE Shape'
  OBVIOUS
<1> DEFINE n == Len(links)
<1>1. /\ links' \in Seq(Links) /\ Len(links') = n
      /\ \A k \in 1..n : /\ Same(links'[k], links[k])
                         /\ links'[k].offset = links[k].offset
                         /\ Ext(links'[k]) = Ext(links[k])
  BY CheckedLinks
<1>2. /\ pc = "entries" /\ pc' = "booted" /\ n \in Nat
      /\ UNCHANGED <<at, heap, lost, chain, boots, mbr, ext_index, extended_offset>>
  BY DEF CheckFlags, found, Shape, TypeOK
<1>3. TypeOK'
  BY <1>1, <1>2 DEF Shape, TypeOK
<1>4. Control' /\ Apart'
  BY <1>1, <1>2 DEF Shape, Control, Apart, Same
<1>5. links = << >> <=> links' = << >>
  BY <1>1, EmptySeq DEF Shape, TypeOK
<1>6. links # << >> => 1 \in 1..n /\ n \in 1..n
  BY <1>2, EmptySeq DEF Shape, TypeOK
<1>7. Offsets'
  BY <1>1, <1>2, <1>5, <1>6 DEF Shape, Offsets
<1>8. Chained'
  <2>1. ASSUME NEW k \in 1..n-1
        PROVE  Ext(links'[k]).sys = "ext"
               /\ links'[k + 1].offset = extended_offset' + Ext(links'[k]).start
    <3>1. k \in 1..n /\ k + 1 \in 1..n
      BY <1>2
    <3> QED
      BY <1>1, <1>2, <3>1 DEF Shape, Chained
  <2>2. links # << >> => Ext(links'[n]).sys # "ext"
    BY <1>1, <1>2, <1>6 DEF Shape, Chained, Read
  <2> HIDE DEF n
  <2> QED
    BY <1>1, <1>5, <2>1, <2>2 DEF Chained
<1> QED
  BY <1>3, <1>4, <1>7, <1>8 DEF Shape

LEMMA ShapeFree == Shape /\ freeLogicalPtes => Shape'
<1> SUFFICES ASSUME Shape, freeLogicalPtes PROVE Shape'
  OBVIOUS
<1>1. TypeOK'
  BY DEF freeLogicalPtes, found, Shape, TypeOK
<1> QED
  BY <1>1 DEF freeLogicalPtes, found, Shape, Control, Offsets, Apart, Chained, Read

(* A removal takes out one of several links, or clears the only one. *)
TakesOut(k) ==
    /\ Len(links) > 1
    /\ Deleted(k, links')
    /\ lost' = lost \cup {links[k].buffer}

Clears(k) ==
    /\ Len(links) = 1 /\ k = 1
    /\ links' \in Seq(Links) /\ Len(links') = 1
    /\ Same(links'[1], links[1]) /\ links'[1].changed
    /\ Part(links'[1]) = NoEntry /\ Ext(links'[1]) = Ext(links[1])
    /\ links'[1].offset = links[1].offset
    /\ lost' = lost

LEMMA RemoveCases ==
  ASSUME Shape, RemoveLink
  PROVE  /\ pc = "remove" /\ pc' = "remove"
         /\ UNCHANGED <<at, heap, chain, boots, mbr, ext_index, extended_offset>>
         /\ \E k \in 1..Len(links) : /\ Part(links[k]).nr = 0
                                     /\ TakesOut(k) \/ Clears(k)
<1>1. PICK k \in Empty : /\ links' = delete_partition(k)
                         /\ lost' = IF Len(links) > 1 THEN lost \cup {links[k].buffer} ELSE lost
  BY DEF RemoveLink
<1>2. k \in 1..Len(links) /\ Part(links[k]).nr = 0 /\ Len(links) \in Nat
  BY DEF Empty, Shape, TypeOK
<1>3. /\ pc = "remove" /\ pc' = "remove"
      /\ UNCHANGED <<at, heap, chain, boots, mbr, ext_index, extended_offset>>
  BY DEF RemoveLink, found
<1>4. CASE Len(links) > 1
  <2>1. Deleted(k, links')
    BY <1>1, <1>2, <1>3, <1>4, DeleteOne
  <2> QED
    BY <1>1, <1>2, <1>3, <1>4, <2>1 DEF TakesOut
<1>5. CASE ~(Len(links) > 1)
  <2>1. Len(links) = 1 /\ k = 1
    BY <1>2, <1>5
  <2>2. Clears(k)
    BY <1>1, <1>5, <2>1, ClearOnly DEF Clears
  <2> QED
    BY <1>2, <1>3, <2>2
<1> QED
  BY <1>4, <1>5

LEMMA ShapeTakesOut ==
  ASSUME Shape, RemoveLink, NEW k \in 1..Len(links), TakesOut(k)
  PROVE  Shape'
<1> DEFINE n == Len(links)
           d == links'
<1>1. /\ pc = "remove" /\ pc' = "remove"
      /\ UNCHANGED <<at, heap, chain, boots, mbr, ext_index, extended_offset>>
  BY RemoveCases
<1>2. n \in Nat /\ n > 1 /\ d \in Seq(Links) /\ Len(d) = n - 1 /\ extended_offset \in Nat
  BY BootAssumption DEF TakesOut, Deleted, Shape, TypeOK
<1>3. \A j \in 1..n-1 :
        /\ From(k, j) \in Links
        /\ Same(d[j], From(k, j))
        /\ Ext(d[j]) = IF j = k - 1 THEN NewPointer(k) ELSE Ext(From(k, j))
        /\ d[j].offset = IF k = 1 /\ j = 1 THEN extended_offset ELSE From(k, j).offset
  BY <1>2, DeletedLinks DEF TakesOut
<1>4. \A j \in 1..n-1 : \E i \in 1..n : From(k, j) = links[i]
  BY <1>2 DEF From
<1>5. links # << >> /\ d # << >> /\ Len(d) \in Nat
  BY <1>2
<1> HIDE DEF d
<1>6. TypeOK'
  <2>1. links[k].buffer \in Buffers
    BY LinkType, LinkTypes DEF Shape
  <2>2. lost' \subseteq Buffers
    BY <2>1 DEF TakesOut, Shape, TypeOK
  <2>3. links' \in Seq(Links) /\ 4 + Len(links') <= MaxParts
    BY <1>2, BootAssumption DEF d, Shape, TypeOK
  <2> QED
    BY <1>1, <2>2, <2>3 DEF Shape, TypeOK
<1>7. Control'
  BY <1>1, <1>5 DEF d, Shape, Control
<1>8. ASSUME NEW j \in 1..n-1 PROVE d[j].part # d[j].ext /\ d[j].offset >= extended_offset
  <2>1. PICK i \in 1..n : From(k, j) = links[i]
    BY <1>4
  <2>2. From(k, j).part # From(k, j).ext /\ From(k, j).offset >= extended_offset
    BY <2>1 DEF Shape, Apart, Offsets
  <2> QED
    BY <1>2, <1>3, <2>2 DEF Same
<1>9. Apart'
  BY <1>2, <1>8 DEF Apart, d
<1>10. Offsets'
  <2>1. d[1].offset = extended_offset
    <3>1. 1 \in 1..n-1 /\ (k = 1 \/ From(k, 1) = links[1])
      BY <1>2 DEF From
    <3>2. links[1].offset = extended_offset
      BY <1>5 DEF Shape, Offsets
    <3> QED
      BY <1>3, <3>1, <3>2
  <2> QED
    BY <1>1, <1>2, <1>5, <1>8, <2>1 DEF Shape, Offsets, d
<1>11. ASSUME NEW j \in 1..n-2
       PROVE  Ext(d[j]).sys = "ext" /\ d[j + 1].offset = extended_offset + Ext(d[j]).start
  <2>1. j \in 1..n-1 /\ j + 1 \in 1..n-1 /\ j + 1 # 1
    BY <1>2
  <2>2. d[j + 1].offset = From(k, j + 1).offset
    BY <1>3, <2>1
  <2>3. \A i \in 1..n-1 : Ext(links[i]).sys = "ext"
                          /\ links[i + 1].offset = extended_offset + Ext(links[i]).start
    BY DEF Shape, Chained
  <2>4. CASE j = k - 1
    <3>1. From(k, j + 1) = links[k + 1] /\ k \in 1..n-1
      BY <1>2, <2>4 DEF From
    <3>2. Ext(d[j]) = Ext(links[k])
      <4>1. Ext(d[j]) = NewPointer(k)
        BY <1>3, <2>1, <2>4
      <4>2. Ext(links[k]).sys = "ext"
        BY <2>3, <3>1
      <4> QED
        BY <4>1, <4>2 DEF NewPointer
    <3> QED
      BY <2>2, <2>3, <3>1, <3>2
  <2>5. CASE j < k - 1
    <3>1. From(k, j) = links[j] /\ From(k, j + 1) = links[j + 1] /\ j # k - 1
      BY <1>2, <2>5 DEF From
    <3> QED
      BY <1>3, <2>1, <2>2, <2>3, <3>1
  <2>6. CASE j >= k
    <3>1. From(k, j) = links[j + 1] /\ From(k, j + 1) = links[(j + 1) + 1] /\ j # k - 1
      BY <1>2, <2>6 DEF From
    <3> QED
      BY <1>3, <2>1, <2>2, <2>3, <3>1
  <2> QED
    BY <2>4, <2>5, <2>6
<1>12. Ext(d[n - 1]).sys # "ext"
  <2>1. Ext(links[n]).sys # "ext" /\ n - 1 \in 1..n-1
    BY <1>1, <1>2, <1>5 DEF Shape, Chained, Read
  <2>2. CASE k = n
    <3>1. Ext(d[n - 1]) = NewPointer(n)
      BY <1>3, <2>1, <2>2
    <3> QED
      BY <2>1, <3>1 DEF NewPointer, NoEntry
  <2>3. CASE k # n
    <3>1. From(k, n - 1) = links[n] /\ n - 1 # k - 1
      BY <1>2, <2>3 DEF From
    <3> QED
      BY <1>3, <2>1, <3>1
  <2> QED
    BY <2>2, <2>3
<1>13. Chained'
  <2>1. Len(d) - 1 = n - 2
    BY <1>2
  <2> HIDE DEF n
  <2> QED
    BY <1>1, <1>2, <1>11, <1>12, <2>1 DEF Chained, d
<1> QED
  BY <1>6, <1>7, <1>9, <1>10, <1>13 DEF Shape

LEMMA ShapeClears ==
  ASSUME Shape, RemoveLink, NEW k \in 1..Len(links), Clears(k)
  PROVE  Shape'
<1>1. /\ pc = "remove" /\ pc' = "remove"
      /\ UNCHANGED <<at, heap, chain, boots, mbr, ext_index, extended_offset>>
  BY RemoveCases
<1>2. Len(links) = 1 /\ Len(links') = 1 /\ links # << >> /\ links' # << >>
  <2>1. Len(links) = 1 /\ Len(links') = 1
    BY DEF Clears
  <2>2. \A s : Len(s) = 1 => s # << >>
    OBVIOUS
  <2> QED
    BY <2>1, <2>2
<1>3. TypeOK'
  BY <1>1, <1>2 DEF Clears, Shape, TypeOK
<1>4. Control' /\ Apart' /\ Offsets'
  BY <1>1, <1>2 DEF Clears, Same, Shape, Control, Apart, Offsets
<1>5. Chained'
  BY <1>1, <1>2 DEF Clears, Shape, Chained, Read
<1> QED
  BY <1>3, <1>4, <1>5 DEF Shape

LEMMA ShapeRemoveLink == Shape /\ RemoveLink => Shape'
BY RemoveCases, ShapeTakesOut, ShapeClears

LEMMA ShapeStep == Shape /\ [Next]_vars => Shape'
<1> SUFFICES ASSUME Shape, [Next]_vars PROVE Shape'
  OBVIOUS
<1>1. CASE Step
  BY <1>1, ShapeGetBoot, ShapeSkipEntry, ShapeEnterExtended, ShapeReadLink, ShapeOutOfMemory,
     ShapeTooManyParts, ShapeChainEnds, ShapeRemoveLink, ShapeNoneEmpty, ShapeCheckFlags,
     ShapeFree DEF Step
<1>2. CASE UNCHANGED vars
  BY <1>2 DEF vars, Shape, TypeOK, Control, Offsets, Apart, Chained, Read
<1> QED
  BY <1>1, <1>2 DEF Next, Stop

THEOREM ShapeAlways == Spec => []Shape
<1>1. Init => Shape
  BY ShapeInit
<1>2. Shape /\ [Next]_vars => Shape'
  BY ShapeStep
<1> QED
  BY <1>1, <1>2, PTL DEF Spec

(* Type correctness: never more entries than ptes has, every start within 32
   bits, every part and pointer one of the four entries of its sector. *)
THEOREM TypeCorrect == Spec => []TypeOK
<1>1. Shape => TypeOK
  BY DEF Shape
<1> QED
  BY <1>1, ShapeAlways, PTL

(* read_extended leaves a chain whatever links it took out of it. *)
THEOREM ChainStaysLinked == Spec => []ChainLinked
<1>1. Shape => ChainLinked
  BY DEF Shape, ChainLinked, Chained, Offsets, Last
<1> QED
  BY <1>1, ShapeAlways, PTL

-----------------------------------------------------------------------------
(* The buffers: the invariant is inductive as it stands. *)
LEMMA BuffersInit == Init => BuffersOwned
BY DEF Init, BuffersOwned, Owned

LEMMA BuffersStep == Shape /\ BuffersOwned /\ [Next]_vars => BuffersOwned'
<1> SUFFICES ASSUME Shape, BuffersOwned, [Next]_vars PROVE BuffersOwned'
  OBVIOUS
<1> DEFINE n == Len(links)
<1>0. n \in Nat
  BY DEF Shape, TypeOK
<1>1. CASE get_boot
  BY <1>1 DEF get_boot, BuffersOwned, Owned
<1>2. CASE SkipEntry \/ EnterExtended \/ ChainEnds \/ NoneEmpty
  <2>1. pc # "idle" /\ pc # "crashed" /\ pc' # "idle" /\ UNCHANGED <<links, heap, lost>>
    BY <1>2 DEF SkipEntry, EnterExtended, ChainEnds, NoneEmpty
  <2> QED
    BY <2>1 DEF BuffersOwned, Owned
<1>3. CASE OutOfMemory
  BY <1>3 DEF OutOfMemory, BuffersOwned
<1>4. CASE ReadLink
  <2>1. PICK t \in LinkTables : links' = Append(links, read_pte(t))
    BY <1>4 DEF ReadLink
  <2> DEFINE r == read_pte(t)
  <2>2. r \in Links /\ r.buffer = Fresh /\ Fresh \notin heap
    BY <1>4, ReadPteProps, FreshProps DEF ReadLink, Shape
  <2> HIDE DEF r
  <2>3. /\ Len(links') = n + 1 /\ links'[n + 1] = r
        /\ \A k \in 1..n : links'[k] = links[k]
    BY <2>1, <2>2, AppendProperties DEF r, Shape, TypeOK
  <2>4. pc = "chain" /\ pc' = "chain" /\ lost' = lost /\ heap' = heap \cup {r.buffer}
    BY <1>4, <2>2 DEF ReadLink
  <2>5. /\ \A j, k \in 1..n : links[j].buffer = links[k].buffer => j = k
        /\ heap = lost \cup Owned /\ lost \cap Owned = {}
    BY <2>4 DEF BuffersOwned
  <2>6. \A k \in 1..n : links[k].buffer # r.buffer
    BY <2>2, <2>5 DEF Owned
  <2>7. \A k \in 1..n+1 : k \in 1..n \/ k = n + 1
    BY <1>0
  <2>8. \A j, k \in 1..n+1 : links'[j].buffer = links'[k].buffer => j = k
    BY <2>3, <2>5, <2>6, <2>7
  <2>9. Owned' = Owned \cup {r.buffer}
    <3>1. n + 1 \in 1..n+1 /\ \A k \in 1..n : k \in 1..n+1
      BY <1>0
    <3> HIDE DEF n
    <3>2. Owned' = {links'[k].buffer : k \in 1..n+1}
      BY <2>3 DEF Owned
    <3>3. Owned = {links[k].buffer : k \in 1..n}
      BY DEF Owned, n
    <3> QED
      BY <2>3, <2>7, <3>1, <3>2, <3>3
  <2> HIDE DEF n
  <2> QED
    BY <2>2, <2>3, <2>4, <2>5, <2>8, <2>9 DEF BuffersOwned
<1>5. CASE TooManyParts
  <2>1. Len(links') = n /\ \A k \in 1..n : Same(links'[k], links[k])
    <3>1. \A k \in 1..n : /\ Same(links'[k], links[k])
                          /\ links'[k].offset = links[k].offset
                          /\ Part(links'[k]) = Part(links[k])
                          /\ k # n => links'[k] = links[k]
      BY <1>5, LastIsCleared
    <3>2. Len(links') = n
      BY <1>5, LastIsCleared
    <3> QED
      BY <3>1, <3>2, Zenon
  <2>2. Len(links') = n /\ \A k \in 1..n : links'[k].buffer = links[k].buffer
    BY <2>1 DEF Same
  <2>3. Owned' = Owned
    BY <2>2 DEF Owned
  <2>4. pc = "chain" /\ pc' = "entries" /\ lost' = lost /\ heap' = heap
    BY <1>5 DEF TooManyParts
  <2> QED
    BY <2>2, <2>3, <2>4 DEF BuffersOwned
<1>6. CASE CheckFlags
  <2>1. Len(links') = n /\ \A k \in 1..n : links'[k].buffer = links[k].buffer
    BY <1>6, CheckedLinks DEF Same
  <2>2. Owned' = Owned
    BY <2>1 DEF Owned
  <2>3. pc = "entries" /\ pc' = "booted" /\ lost' = lost /\ heap' = heap
    BY <1>6 DEF CheckFlags
  <2> QED
    BY <2>1, <2>2, <2>3 DEF BuffersOwned
<1>7. CASE freeLogicalPtes
  <2>1. /\ pc = "booted" /\ pc' = "idle" /\ lost' = lost /\ links' = links
        /\ heap' = heap \ Owned
    BY <1>7 DEF freeLogicalPtes
  <2>2. heap = lost \cup Owned /\ lost \cap Owned = {}
    BY <2>1 DEF BuffersOwned
  <2>3. heap' = lost'
    BY <2>1, <2>2
  <2> QED
    BY <2>1, <2>3 DEF BuffersOwned
<1>8. CASE RemoveLink
  <2>1. /\ pc = "remove" /\ pc' = "remove" /\ heap' = heap
        /\ heap = lost \cup Owned /\ lost \cap Owned = {}
        /\ \A i, j \in 1..n : links[i].buffer = links[j].buffer => i = j
    BY <1>8, RemoveCases DEF BuffersOwned
  <2>2. PICK k \in 1..n : TakesOut(k) \/ Clears(k)
    BY <1>8, RemoveCases
  <2>3. CASE TakesOut(k)
    <3> DEFINE at_(j) == IF j < k THEN j ELSE j + 1
    <3>1. /\ Len(links') = n - 1 /\ n > 1
          /\ lost' = lost \cup {links[k].buffer}
      BY <2>3 DEF TakesOut, Deleted
    <3>2. \A j \in 1..n-1 : /\ at_(j) \in 1..n /\ at_(j) # k
                            /\ links'[j].buffer = links[at_(j)].buffer
      BY <1>0, <2>3, <3>1, DeletedLinks DEF TakesOut, Same, From
    <3>3. \A i, j \in 1..n-1 : at_(i) = at_(j) => i = j
      BY <1>0
    <3>4. \A i \in 1..n : i # k => \E j \in 1..n-1 : i = at_(j)
      <4> SUFFICES ASSUME NEW i \in 1..n, i # k PROVE \E j \in 1..n-1 : i = at_(j)
        OBVIOUS
      <4>1. CASE i < k
        <5>1. i \in 1..n-1 /\ i = at_(i)
          BY <1>0, <4>1
        <5> QED
          BY <5>1
      <4>2. CASE i > k
        <5>1. i - 1 \in 1..n-1 /\ i = at_(i - 1)
          BY <1>0, <4>2
        <5> QED
          BY <5>1
      <4> QED
        BY <4>1, <4>2
    <3> HIDE DEF at_, n
    <3>5. \A i, j \in 1..n-1 : links'[i].buffer = links'[j].buffer => i = j
      BY <2>1, <3>2, <3>3
    <3>6. Owned' = Owned \ {links[k].buffer}
      <4>1. Owned' = {links'[j].buffer : j \in 1..n-1}
        BY <3>1 DEF Owned
      <4>2. Owned = {links[i].buffer : i \in 1..n}
        BY DEF Owned, n
      <4>3. ASSUME NEW b \in Owned' PROVE b \in Owned /\ b # links[k].buffer
        BY <2>1, <3>2, <4>1, <4>2, <4>3
      <4>4. ASSUME NEW b \in Owned, b # links[k].buffer PROVE b \in Owned'
        <5>1. PICK i \in 1..n : b = links[i].buffer
          BY <4>2
        <5>2. i # k
          BY <4>4, <5>1
        <5>3. PICK j \in 1..n-1 : i = at_(j)
          BY <3>4, <5>2
        <5> QED
          BY <3>2, <4>1, <5>1, <5>3
      <4> QED
        BY <4>3, <4>4
    <3>7. links[k].buffer \in Owned
      BY DEF Owned, n
    <3> QED
      BY <2>1, <3>1, <3>5, <3>6, <3>7 DEF BuffersOwned
  <2>4. CASE Clears(k)
    <3>1. Len(links') = n /\ n = 1 /\ links'[1].buffer = links[1].buffer /\ lost' = lost
      BY <2>4 DEF Clears, Same
    <3>2. Owned' = Owned
      BY <3>1 DEF Owned
    <3> QED
      BY <2>1, <3>1, <3>2 DEF BuffersOwned
  <2> QED
    BY <2>2, <2>3, <2>4
<1>9. CASE UNCHANGED vars
  BY <1>9 DEF vars, BuffersOwned, Owned
<1> QED
  BY <1>1, <1>2, <1>3, <1>4, <1>5, <1>6, <1>7, <1>8, <1>9 DEF Next, Step, Stop

(* No buffer is shared by two links or freed twice, and none is lost but those of
   the links that were taken out. *)
THEOREM BuffersStayOwned == Spec => []BuffersOwned
<1>1. Init => BuffersOwned
  BY BuffersInit
<1>2. Shape /\ BuffersOwned /\ [Next]_vars => BuffersOwned'
  BY BuffersStep
<1> QED
  BY <1>1, <1>2, ShapeAlways, PTL DEF Spec

-----------------------------------------------------------------------------
(* The partitions of the chain.  The number of each link has to be one of a link
   that was read. *)
Numbered == \A k \in 1..Len(links) : links[k].link \in 1..Len(chain)

PartKept(l, r) ==
    /\ Part(l).nr = Part(r).nr
    /\ Part(l).nr # 0 =>
         /\ Part(l).sys = Part(r).sys
         /\ get_partition_start(r) - extended_offset < Word
              => get_partition_start(l) = get_partition_start(r)

Logicals ==
    /\ Numbered
    /\ \A k \in 1..Len(links) : PartKept(links[k], chain[links[k].link])
    /\ \A j, k \in 1..Len(links) : j < k => links[j].link < links[k].link
    /\ \A n \in 1..Len(chain) :
         Part(chain[n]).nr # 0 => \E k \in 1..Len(links) : links[k].link = n

(* Steps that leave the place, the size and the number of every partition alone. *)
PartsAlone ==
    /\ Len(links') = Len(links)
    /\ UNCHANGED <<chain, extended_offset>>
    /\ \A k \in 1..Len(links) : /\ Same(links'[k], links[k])
                                /\ links'[k].offset = links[k].offset
                                /\ Part(links'[k]) = Part(links[k])

LEMMA LogicalsAlone == Logicals /\ PartsAlone => Logicals'
<1> SUFFICES ASSUME Logicals, PartsAlone PROVE Logicals'
  OBVIOUS
<1> DEFINE n == Len(links)
<1>1. /\ Len(links') = n /\ chain' = chain /\ extended_offset' = extended_offset
      /\ \A k \in 1..n : /\ links'[k].link = links[k].link
                          /\ Part(links'[k]) = Part(links[k])
                          /\ get_partition_start(links'[k]) = get_partition_start(links[k])
  BY DEF PartsAlone, Same, get_partition_start
<1>2. Numbered'
  BY <1>1 DEF Logicals, Numbered
<1>3. \A k \in 1..n : PartKept(links[k], chain[links[k].link])'
  BY <1>1 DEF Logicals, PartKept
<1>4. /\ \A j, k \in 1..n : j < k => links'[j].link < links'[k].link
      /\ \A m \in 1..Len(chain') :
           Part(chain'[m]).nr # 0 => \E k \in 1..n : links'[k].link = m
  BY <1>1 DEF Logicals
<1> HIDE DEF n
<1> QED
  BY <1>1, <1>2, <1>3, <1>4 DEF Logicals

LEMMA LogicalsReadLink == Shape /\ Logicals /\ ReadLink => Logicals'
<1> SUFFICES ASSUME Shape, Logicals, ReadLink PROVE Logicals'
  OBVIOUS
<1>1. PICK t \in LinkTables : /\ links' = Append(links, read_pte(t))
                              /\ chain' = Append(chain, read_pte(t))
  BY DEF ReadLink
<1> DEFINE n == Len(links)
           m == Len(chain)
           r == read_pte(t)
<1>2. n \in Nat /\ m \in Nat
  BY DEF Shape, TypeOK
<1>3. r \in Links /\ r.link = m + 1
  BY ReadPteProps DEF ReadLink
<1> HIDE DEF r
<1>4. /\ Len(links') = n + 1 /\ links'[n + 1] = r
      /\ \A k \in 1..n : links'[k] = links[k]
      /\ Len(chain') = m + 1 /\ chain'[m + 1] = r
      /\ \A k \in 1..m : chain'[k] = chain[k]
  BY <1>1, <1>3, AppendProperties DEF r, Shape, TypeOK
<1>5. \A k \in 1..n+1 : k \in 1..n \/ k = n + 1
  BY <1>2
<1>6. \A k \in 1..n : links[k].link \in 1..m
  BY DEF Logicals, Numbered
<1>7. Numbered'
  BY <1>2, <1>3, <1>4, <1>5, <1>6 DEF Numbered
<1>8. ASSUME NEW k \in 1..n+1 PROVE PartKept(links[k], chain[links[k].link])'
  <2>1. CASE k \in 1..n
    <3>1. links # << >>
      BY <1>2, <2>1, EmptySeq
    <3>2. extended_offset' = extended_offset
      BY <3>1 DEF ReadLink, Shape, Offsets
    <3>3. links'[k] = links[k] /\ chain'[links'[k].link] = chain[links[k].link]
      BY <1>4, <1>6, <2>1
    <3>4. PartKept(links[k], chain[links[k].link])
      BY <2>1 DEF Logicals
    <3> QED
      BY <3>2, <3>3, <3>4 DEF PartKept
  <2>2. CASE k = n + 1
    <3>1. links'[k] = r /\ chain'[links'[k].link] = r
      BY <1>3, <1>4, <2>2
    <3> QED
      BY <3>1 DEF PartKept
  <2> QED
    BY <1>5, <2>1, <2>2
<1>9. ASSUME NEW j \in 1..n+1, NEW k \in 1..n+1, j < k
      PROVE  links'[j].link < links'[k].link
  <2>1. j \in 1..n
    BY <1>2, <1>9
  <2>2. CASE k \in 1..n
    BY <1>4, <1>9, <2>1, <2>2 DEF Logicals
  <2>3. CASE k = n + 1
    <3>1. links'[j].link \in 1..m /\ links'[k].link = m + 1
      BY <1>3, <1>4, <1>6, <2>1, <2>3
    <3> QED
      BY <1>2, <3>1
  <2> QED
    BY <1>5, <2>2, <2>3
<1>10. ASSUME NEW i \in 1..m+1, Part(chain'[i]).nr # 0
       PROVE  \E k \in 1..n+1 : links'[k].link = i
  <2>1. CASE i \in 1..m
    <3>1. PICK k \in 1..n : links[k].link = i
      BY <1>4, <1>10, <2>1 DEF Logicals
    <3> QED
      BY <1>2, <1>4, <3>1
  <2>2. CASE i = m + 1
    <3>1. n + 1 \in 1..n+1 /\ links'[n + 1].link = i
      BY <1>2, <1>3, <1>4, <2>2
    <3> QED
      BY <3>1
  <2> QED
    BY <1>2, <2>1, <2>2
<1> HIDE DEF n, m
<1> QED
  BY <1>4, <1>7, <1>8, <1>9, <1>10 DEF Logicals

LEMMA LogicalsTakesOut ==
  ASSUME Shape, Logicals, RemoveLink,
         NEW k \in 1..Len(links), Part(links[k]).nr = 0, TakesOut(k)
  PROVE  Logicals'
<1> DEFINE n == Len(links)
           At(j) == IF j < k THEN j ELSE j + 1
           d == links'
<1>1. n \in Nat /\ n > 1 /\ Len(d) = n - 1 /\ chain' = chain /\ extended_offset' = extended_offset
  BY RemoveCases DEF TakesOut, Deleted, Shape, TypeOK
<1>2. ASSUME NEW j \in 1..n-1
      PROVE  /\ At(j) \in 1..n
             /\ d[j].link = links[At(j)].link
             /\ Part(d[j]).nr = Part(links[At(j)]).nr
             /\ Part(d[j]).sys = Part(links[At(j)]).sys
             /\ get_partition_start(links[At(j)]) - extended_offset < Word
                  => get_partition_start(d[j]) = get_partition_start(links[At(j)])
  <2>1. At(j) \in 1..n /\ From(k, j) = links[At(j)]
    BY <1>1 DEF From
  <2>2. /\ Same(d[j], From(k, j))
        /\ Part(d[j]).nr = Part(From(k, j)).nr
        /\ Part(d[j]).sys = Part(From(k, j)).sys
    BY <1>1, DeletedLinks DEF TakesOut
  <2>3. get_partition_start(From(k, j)) - extended_offset < Word
          => get_partition_start(d[j]) = get_partition_start(From(k, j))
    BY <1>1, StartKept DEF TakesOut
  <2> HIDE DEF At, d
  <2> QED
    BY <2>1, <2>2, <2>3 DEF Same
<1>3. \A i, j \in 1..n-1 : i < j => At(i) < At(j)
  BY <1>1
<1>4. \A i \in 1..n : i # k => \E j \in 1..n-1 : i = At(j)
  <2> SUFFICES ASSUME NEW i \in 1..n, i # k PROVE \E j \in 1..n-1 : i = At(j)
    OBVIOUS
  <2>1. CASE i < k
    <3>1. i \in 1..n-1 /\ i = At(i)
      BY <1>1, <2>1
    <3> QED
      BY <3>1
  <2>2. CASE i > k
    <3>1. i - 1 \in 1..n-1 /\ i = At(i - 1)
      BY <1>1, <2>2
    <3> QED
      BY <3>1
  <2> QED
    BY <2>1, <2>2
<1> HIDE DEF At, d
<1>5. Numbered'
  BY <1>1, <1>2 DEF Logicals, Numbered, d
<1>6. ASSUME NEW j \in 1..n-1 PROVE PartKept(links[j], chain[links[j].link])'
  <2>1. PartKept(links[At(j)], chain[links[At(j)].link])
    BY <1>2 DEF Logicals
  <2> DEFINE l == links[At(j)]
             r == chain[links[At(j)].link]
  <2>2. /\ links'[j] = d[j] /\ chain'[links'[j].link] = r
        /\ Part(d[j]).nr = Part(l).nr /\ Part(d[j]).sys = Part(l).sys
        /\ get_partition_start(l) - extended_offset < Word
             => get_partition_start(d[j]) = get_partition_start(l)
    BY <1>1, <1>2 DEF d
  <2> HIDE DEF l, r
  <2>3. PartKept(l, r)
    BY <2>1 DEF l, r
  <2>4. /\ Part(d[j]).nr = Part(r).nr
        /\ Part(d[j]).nr # 0 =>
             /\ Part(d[j]).sys = Part(r).sys
             /\ get_partition_start(r) - extended_offset < Word
                  => get_partition_start(d[j]) = get_partition_start(r)
    BY <2>2, <2>3 DEF PartKept
  <2> QED
    BY <1>1, <2>2, <2>4 DEF PartKept
<1>7. \A i, j \in 1..n-1 : i < j => d[i].link < d[j].link
  BY <1>2, <1>3 DEF Logicals
<1>8. ASSUME NEW i \in 1..Len(chain), Part(chain[i]).nr # 0
      PROVE  \E j \in 1..n-1 : d[j].link = i
  <2>1. PICK q \in 1..n : links[q].link = i
    BY <1>8 DEF Logicals
  <2>2. Part(links[q]).nr # 0
    BY <1>8, <2>1 DEF Logicals, PartKept
  <2>3. PICK j \in 1..n-1 : q = At(j)
    BY <1>4, <2>2
  <2> QED
    BY <1>2, <2>1, <2>3
<1> HIDE DEF n
<1> QED
  BY <1>1, <1>5, <1>6, <1>7, <1>8 DEF Logicals, d

LEMMA LogicalsClears ==
  ASSUME Shape, Logicals, RemoveLink,
         NEW k \in 1..Len(links), Part(links[k]).nr = 0, Clears(k)
  PROVE  Logicals'
<1>1. /\ Len(links) = 1 /\ k = 1 /\ Len(links') = 1 /\ 1 \in 1..Len(links)
      /\ links'[1].link = links[1].link
      /\ Part(links'[1]) = NoEntry
      /\ chain' = chain /\ extended_offset' = extended_offset
  BY RemoveCases DEF Clears, Same
<1>2. Numbered'
  BY <1>1 DEF Logicals, Numbered
<1>3. \A j \in 1..1 : PartKept(links[j], chain[links[j].link])'
  <2>1. Part(chain[links[1].link]).nr = 0
    BY <1>1 DEF Logicals, PartKept
  <2>2. Part(links'[1]).nr = 0
    BY <1>1 DEF NoEntry
  <2> QED
    BY <1>1, <2>1, <2>2 DEF PartKept
<1>4. \A i \in 1..Len(chain') :
        Part(chain'[i]).nr # 0 => \E j \in 1..1 : links'[j].link = i
  BY <1>1 DEF Logicals
<1> QED
  BY <1>1, <1>2, <1>3, <1>4 DEF Logicals

LEMMA LogicalsStep == Shape /\ Logicals /\ [Next]_vars => Logicals'
<1> SUFFICES ASSUME Shape, Logicals, [Next]_vars PROVE Logicals'
  OBVIOUS
<1>1. CASE get_boot
  <2>1. links' = << >> /\ chain' = << >>
    BY <1>1 DEF get_boot
  <2> QED
    BY <2>1 DEF Logicals, Numbered
<1>2. CASE SkipEntry \/ EnterExtended \/ ChainEnds \/ NoneEmpty \/ OutOfMemory
           \/ freeLogicalPtes \/ UNCHANGED vars
  <2>1. UNCHANGED <<links, chain, extended_offset>>
    BY <1>2 DEF SkipEntry, EnterExtended, ChainEnds, NoneEmpty, OutOfMemory, freeLogicalPtes,
                vars, found
  <2> QED
    BY <2>1, LogicalsAlone DEF PartsAlone, Same
<1>3. CASE ReadLink
  BY <1>3, LogicalsReadLink
<1>4. CASE TooManyParts
  <2>1. UNCHANGED <<chain, extended_offset>>
    BY <1>4 DEF TooManyParts, found
  <2>2. PartsAlone
    BY <1>4, <2>1, LastIsCleared DEF PartsAlone
  <2> QED
    BY <2>2, LogicalsAlone
<1>5. CASE CheckFlags
  <2>1. PartsAlone
    BY <1>5, CheckedLinks DEF CheckFlags, found, PartsAlone
  <2> QED
    BY <2>1, LogicalsAlone
<1>6. CASE RemoveLink
  BY <1>6, RemoveCases, LogicalsTakesOut, LogicalsClears
<1> QED
  BY <1>1, <1>2, <1>3, <1>4, <1>5, <1>6 DEF Next, Step, Stop

(* Every partition of the chain stays listed, in its order, at its place and with
   its size. *)
THEOREM LogicalsStayListed == Spec => []LogicalsKept
<1>1. Init => Logicals
  BY DEF Init, Logicals, Numbered
<1>2. Shape /\ Logicals /\ [Next]_vars => Logicals'
  BY LogicalsStep
<1>3. Logicals => LogicalsKept
  BY DEF Logicals, LogicalsKept, PartKept
<1> QED
  BY <1>1, <1>2, <1>3, ShapeAlways, PTL DEF Spec

-----------------------------------------------------------------------------
(* After the links without a partition were taken out nothing brings one back;
   while they are taken out, and in a chain that was cut short, they are there. *)
NonEmpty ==
    pc \in {"entries", "booted"} /\ 4 + Len(links) < MaxParts =>
      \A k \in 1..Len(links) :
         \/ Part(links[k]).nr # 0
         \/ Len(links) = 1 /\ Part(links[k]).sys = "none"

LEMMA NonEmptyStep == Shape /\ NonEmpty /\ [Next]_vars => NonEmpty'
<1> SUFFICES ASSUME Shape, NonEmpty, [Next]_vars PROVE NonEmpty'
  OBVIOUS
<1>1. CASE get_boot
  <2>1. links' = << >>
    BY <1>1 DEF get_boot
  <2> QED
    BY <2>1 DEF NonEmpty
<1>2. CASE SkipEntry \/ EnterExtended
  BY <1>2 DEF SkipEntry, EnterExtended, NonEmpty
<1>3. CASE ChainEnds \/ ReadLink \/ OutOfMemory \/ RemoveLink \/ freeLogicalPtes
  <2>1. pc' \notin {"entries", "booted"}
    BY <1>3 DEF ChainEnds, ReadLink, OutOfMemory, RemoveLink, freeLogicalPtes
  <2> QED
    BY <2>1 DEF NonEmpty
<1>4. CASE TooManyParts
  <2>1. links # << >>
    BY <1>4, FullHasLinks DEF TooManyParts
  <2>2. Len(links') = Len(links) /\ Len(links) \in Nat
    BY <1>4, <2>1, ClearLast DEF TooManyParts, Shape, TypeOK
  <2>3. 4 + Len(links) >= MaxParts
    BY <1>4 DEF TooManyParts, Full
  <2>4. ~(4 + Len(links') < MaxParts)
    BY <2>2, <2>3, BootAssumption
  <2> QED
    BY <2>4 DEF NonEmpty
<1>5. CASE NoneEmpty
  <2>1. Empty = {} /\ links' = links /\ Len(links) \in Nat
    BY <1>5 DEF NoneEmpty, Shape, TypeOK
  <2>2. ASSUME NEW k \in 1..Len(links), Part(links[k]).nr = 0
        PROVE  Len(links) = 1 /\ Part(links[k]).sys = "none"
    <3>1. ~(Len(links) > 1 \/ Part(links[1]).sys # "none")
      BY <2>1, <2>2 DEF Empty
    <3> DEFINE n == Len(links)
    <3>2. n \in Nat /\ k \in 1..n /\ ~(n > 1)
      BY <2>1, <3>1
    <3> HIDE DEF n
    <3>3. n = 1 /\ k = 1
      BY <3>2
    <3> QED
      BY <3>1, <3>3 DEF n
  <2> QED
    BY <2>1, <2>2 DEF NonEmpty
<1>6. CASE CheckFlags
  <2>1. /\ Len(links') = Len(links) /\ pc = "entries"
        /\ \A k \in 1..Len(links) : Part(links'[k]) = Part(links[k])
    BY <1>6, CheckedLinks DEF CheckFlags
  <2> QED
    BY <2>1 DEF NonEmpty
<1>7. CASE UNCHANGED vars
  BY <1>7 DEF vars, NonEmpty
<1> QED
  BY <1>1, <1>2, <1>3, <1>4, <1>5, <1>6, <1>7 DEF Next, Step, Stop

(* get_boot lists no empty partition among the logical ones. *)
THEOREM NoEmptyLinkListed == Spec => []NoEmptyLinks
<1>1. Init => NonEmpty
  BY DEF Init, NonEmpty
<1>2. Shape /\ NonEmpty /\ [Next]_vars => NonEmpty'
  BY NonEmptyStep
<1>3. NonEmpty => NoEmptyLinks
  BY DEF NonEmpty, NoEmptyLinks
<1> QED
  BY <1>1, <1>2, <1>3, ShapeAlways, PTL DEF Spec

-----------------------------------------------------------------------------
(* Links that differ from what was read. *)
LEMMA ChangesStep == Shape /\ Logicals /\ ChangesMarked /\ [Next]_vars => ChangesMarked'
<1> SUFFICES ASSUME Shape, Logicals, ChangesMarked, [Next]_vars PROVE ChangesMarked'
  OBVIOUS
<1> DEFINE n == Len(links)
           Unchanged(l, r) == l.sector = r.sector /\ l.offset = r.offset
<1>0. /\ n \in Nat /\ Len(chain) \in Nat
      /\ \A k \in 1..n : links[k].link \in 1..Len(chain)
      /\ \A k \in 1..n : links[k].changed \/ Unchanged(links[k], chain[links[k].link])
  BY DEF Shape, TypeOK, Logicals, Numbered, ChangesMarked
<1>1. CASE get_boot
  <2>1. links' = << >>
    BY <1>1 DEF get_boot
  <2> QED
    BY <2>1 DEF ChangesMarked
<1>2. CASE SkipEntry \/ EnterExtended \/ ChainEnds \/ NoneEmpty \/ OutOfMemory
           \/ freeLogicalPtes \/ UNCHANGED vars
  <2>1. UNCHANGED <<links, chain>>
    BY <1>2 DEF SkipEntry, EnterExtended, ChainEnds, NoneEmpty, OutOfMemory, freeLogicalPtes, vars
  <2> QED
    BY <2>1 DEF ChangesMarked
<1>3. CASE ReadLink
  <2>1. PICK t \in LinkTables : /\ links' = Append(links, read_pte(t))
                                /\ chain' = Append(chain, read_pte(t))
    BY <1>3 DEF ReadLink
  <2> DEFINE r == read_pte(t)
             m == Len(chain)
  <2>2. r \in Links /\ r.link = m + 1
    BY <1>3, ReadPteProps DEF ReadLink
  <2> HIDE DEF r
  <2>3. /\ Len(links') = n + 1 /\ links'[n + 1] = r
        /\ \A k \in 1..n : links'[k] = links[k]
        /\ chain'[m + 1] = r
        /\ \A k \in 1..m : chain'[k] = chain[k]
    BY <2>1, <2>2, AppendProperties DEF r, Shape, TypeOK
  <2>4. ASSUME NEW k \in 1..n+1
        PROVE  links'[k].changed \/ Unchanged(links'[k], chain'[links'[k].link])
    <3>1. CASE k \in 1..n
      BY <1>0, <2>3, <3>1
    <3>2. CASE k = n + 1
      BY <2>2, <2>3, <3>2
    <3> QED
      BY <1>0, <3>1, <3>2
  <2> HIDE DEF n
  <2> QED
    BY <2>3, <2>4 DEF ChangesMarked
<1>4. CASE TooManyParts
  <2>1. links # << >> /\ chain' = chain
    BY <1>4, FullHasLinks DEF TooManyParts
  <2> DEFINE c == Cleared(links[n], links[n].ext)
             s == [links EXCEPT ![n] = c]
  <2>2. /\ n \in 1..n
        /\ c.changed /\ Len(s) = n
        /\ \A j \in 1..n : s[j] = IF j = n THEN c ELSE links[j]
    BY <2>1, ClearLast
  <2>3. links' = s
    BY <1>4 DEF TooManyParts
  <2> HIDE DEF c, s
  <2>4. ASSUME NEW k \in 1..n
        PROVE  links'[k].changed \/ Unchanged(links'[k], chain'[links'[k].link])
    BY <1>0, <2>1, <2>2, <2>3
  <2>5. Len(links') = n
    BY <2>2, <2>3
  <2> HIDE DEF n
  <2> QED
    BY <2>4, <2>5 DEF ChangesMarked
<1>5. CASE CheckFlags
  <2>1. Len(links') = n /\ chain' = chain
    BY <1>5, CheckedLinks DEF CheckFlags
  <2>2. ASSUME NEW k \in 1..n
        PROVE  links'[k].changed \/ Unchanged(links'[k], chain'[links'[k].link])
    <3>1. /\ links'[k].link = links[k].link
          /\ links'[k].offset = links[k].offset /\ links'[k].sector = links[k].sector
          /\ links[k].changed => links'[k].changed
      BY <1>5, CheckedLinks DEF Same
    <3> QED
      BY <1>0, <2>1, <3>1
  <2> HIDE DEF n
  <2> QED
    BY <2>1, <2>2 DEF ChangesMarked
<1>6. CASE RemoveLink
  <2>1. chain' = chain
    BY <1>6, RemoveCases
  <2>2. PICK k \in 1..n : TakesOut(k) \/ Clears(k)
    BY <1>6, RemoveCases
  <2>3. CASE TakesOut(k)
    <3>1. Len(links') = n - 1 /\ n > 1
      BY <2>3 DEF TakesOut, Deleted
    <3>2. ASSUME NEW j \in 1..n-1
          PROVE  links'[j].changed \/ Unchanged(links'[j], chain'[links'[j].link])
      <4>1. links'[j].changed \/ links'[j] = From(k, j)
        BY <2>3, <3>1, DeletedLinks DEF TakesOut
      <4>2. PICK i \in 1..n : From(k, j) = links[i]
        BY <1>0 DEF From
      <4> QED
        BY <1>0, <2>1, <4>1, <4>2
    <3> HIDE DEF n
    <3> QED
      BY <3>1, <3>2 DEF ChangesMarked
  <2>4. CASE Clears(k)
    BY <2>4 DEF Clears, ChangesMarked
  <2> QED
    BY <2>2, <2>3, <2>4
<1> QED
  BY <1>1, <1>2, <1>3, <1>4, <1>5, <1>6 DEF Next, Step, Stop

(* Whatever get_boot changes in a link is marked to be written. *)
THEOREM ChangesAreMarked == Spec => []ChangesMarked
<1>1. Init => Logicals /\ ChangesMarked
  BY DEF Init, Logicals, Numbered, ChangesMarked
<1>2. Shape /\ Logicals /\ ChangesMarked /\ [Next]_vars => (Logicals /\ ChangesMarked)'
  BY LogicalsStep, ChangesStep
<1>3. Logicals /\ ChangesMarked => ChangesMarked
  OBVIOUS
<1> QED
  BY <1>1, <1>2, <1>3, ShapeAlways, PTL DEF Spec
-----------------------------------------------------------------------------
(* The extrema of the sets of partitions that wrong_p_order forms. *)
LEMMA ExtremeIds ==
  ASSUME NEW N \in Nat, NEW T \in SUBSET (0..N), T # {}
  PROVE  /\ Min(T) \in T /\ \A y \in T : Min(T) <= y
         /\ Max(T) \in T /\ \A y \in T : y <= Max(T)
<1>1. \E x \in T : \A y \in T : x <= y
  BY LeastNat
<1>2. \E x \in T : \A y \in T : x >= y
  BY GreatestNat
<1>3. Min(T) \in T /\ \A y \in T : Min(T) <= y
  BY <1>1 DEF Min
<1>4. Max(T) \in T /\ \A y \in T : Max(T) >= y
  BY <1>2 DEF Max
<1> QED
  BY <1>3, <1>4

(* Numbers given to some of 0..N, in two groups, where none is below that of
   its predecessor in its group: then none is below any earlier one. *)
LEMMA NeighboursSuffice ==
  ASSUME NEW N \in Nat, NEW L \in SUBSET (0..N), NEW S \in [L -> Nat],
         NEW G \in [L -> BOOLEAN],
         NEW B, B = [i \in L |-> {j \in L : j < i /\ G[j] = G[i]}],
         \A i \in L : B[i] # {} => S[Max(B[i])] <= S[i]
  PROVE  \A i, j \in L : i < j /\ G[i] = G[j] => S[i] <= S[j]
<1> SUFFICES ASSUME NEW a \in L, NEW b \in L, a < b, G[a] = G[b], ~ (S[a] <= S[b])
             PROVE  FALSE
  OBVIOUS
<1> DEFINE Bad == {j \in L : \E i \in L : i < j /\ G[i] = G[j] /\ ~ (S[i] <= S[j])}
<1>1. Bad \in SUBSET (0..N) /\ Bad # {}
  OBVIOUS
<1>2. PICK j \in Bad : \A k \in Bad : j <= k
  <2> HIDE DEF Bad
  <2> QED
    BY <1>1, ExtremeIds
<1>3. PICK i \in L : j \in L /\ i < j /\ G[i] = G[j] /\ ~ (S[i] <= S[j])
  BY <1>2
<1> DEFINE m == Max(B[j])
<1>4. i \in B[j] /\ B[j] \in SUBSET (0..N)
  BY <1>3
<1>5. m \in B[j] /\ i <= m
  BY <1>4, ExtremeIds
<1>6. m \in L /\ m < j /\ G[m] = G[j] /\ S[m] <= S[j]
  BY <1>3, <1>4, <1>5
<1> HIDE DEF m
<1>7. S[i] <= S[m]
  <2>1. CASE i = m
    BY <1>6, <2>1
  <2>2. CASE i # m
    <3>1. i < m /\ G[i] = G[m]
      BY <1>3, <1>5, <1>6, <2>2
    <3>2. m \notin Bad
      <4>1. ~ (j <= m)
        BY <1>3, <1>6
      <4> HIDE DEF Bad
      <4> QED
        BY <1>2, <4>1
    <3> QED
      BY <1>3, <1>6, <3>1, <3>2
  <2> QED
    BY <2>1, <2>2
<1> QED
  BY <1>3, <1>6, <1>7

(* Partitions have numbers, and start where a natural tells. *)
LEMMA ListedTypes ==
  ASSUME TypeOK
  PROVE  \E N \in Nat : /\ Ids = 0..N
                        /\ Listed \in SUBSET (0..N)
                        /\ \A i \in Listed : Start(i) \in Nat
<1> DEFINE N == 3 + Len(links)
<1>1. N \in Nat /\ Ids = 0..N /\ Listed \in SUBSET (0..N)
  BY DEF TypeOK, Ids, Listed
<1>2. ASSUME NEW i \in Listed PROVE Start(i) \in Nat
  <2>1. CASE i >= 4
    <3>1. i - 3 \in 1..Len(links)
      BY <1>1, <2>1
    <3>2. links[i - 3] \in Links
      BY <3>1 DEF TypeOK
    <3>3. links[i - 3].offset \in Nat /\ Part(links[i - 3]).start \in Nat
      BY <3>2, LinkTypes, BootAssumption DEF Entries
    <3> QED
      BY <2>1, <3>3 DEF Start, Logical, get_partition_start
  <2>2. CASE ~ (i >= 4)
    <3>1. i \in 0..3
      BY <1>1, <2>2
    <3>2. mbr.entry[i] \in Entries
      BY <3>1 DEF TypeOK, Tables
    <3> QED
      BY <2>2, <3>2, BootAssumption DEF Start, Logical, Entries
  <2> QED
    BY <2>1, <2>2
<1> QED
  BY <1>1, <1>2

(* wrong_p_order compares neighbours only, and finds every disorder. *)
LEMMA OrderFound == TypeOK => OrderTold
<1> SUFFICES ASSUME TypeOK, \A i \in Listed : Start(i) < Word
             PROVE  wrong_p_order = 0
                    <=> \A i, j \in Listed : i < j /\ Logical(i) = Logical(j) => Start(i) <= Start(j)
  BY DEF OrderTold
<1> DEFINE wrong == {i \in Listed :
                       Before(i) # {} /\ Start(Max(Before(i))) % Word > Start(i) % Word}
<1>1. PICK N \in Nat : Listed \in SUBSET (0..N) /\ \A i \in Listed : Start(i) \in Nat
  BY ListedTypes
<1>2. \A i \in Listed : Start(i) % Word = Start(i)
  BY <1>1, ModSmall, BootAssumption
<1>3. ASSUME NEW i \in Listed, Before(i) # {}
      PROVE  /\ Max(Before(i)) \in Listed /\ Max(Before(i)) < i
             /\ Logical(Max(Before(i))) = Logical(i)
  <2>1. Before(i) \in SUBSET (0..N)
    BY <1>1 DEF Before
  <2>2. Max(Before(i)) \in Before(i)
    BY <1>3, <2>1, ExtremeIds
  <2> QED
    BY <2>2 DEF Before
<1>4. wrong_p_order = 0 <=> wrong = {}
  <2>1. wrong_p_order = IF wrong = {} THEN 0 ELSE Min(wrong)
    BY DEF wrong_p_order
  <2>2. ASSUME wrong # {} PROVE Min(wrong) # 0
    <3>1. wrong \in SUBSET (0..N)
      BY <1>1
    <3>2. Min(wrong) \in wrong
      <4> HIDE DEF wrong
      <4> QED
        BY <2>2, <3>1, ExtremeIds
    <3>3. Min(wrong) \in Listed /\ Before(Min(wrong)) # {}
      BY <3>2
    <3>4. Max(Before(Min(wrong))) \in 0..N /\ Max(Before(Min(wrong))) < Min(wrong)
      BY <1>1, <1>3, <3>3
    <3> QED
      BY <3>4
  <2> HIDE DEF wrong
  <2> QED
    BY <2>1, <2>2
<1>5. wrong = {} <=> \A i \in Listed : Before(i) # {} => Start(Max(Before(i))) <= Start(i)
  <2>1. ASSUME NEW i \in Listed, Before(i) # {}
        PROVE  Start(Max(Before(i))) % Word > Start(i) % Word
               <=> ~ (Start(Max(Before(i))) <= Start(i))
    <3> DEFINE a == Start(Max(Before(i)))
               b == Start(i)
    <3>1. a \in Nat /\ a % Word = a /\ b \in Nat /\ b % Word = b
      BY <1>1, <1>2, <1>3, <2>1
    <3> HIDE DEF a, b
    <3>2. a % Word > b % Word <=> ~ (a <= b)
      BY <3>1
    <3> QED
      BY <3>2 DEF a, b
  <2> QED
    BY <2>1
<1>6. ASSUME \A i \in Listed : Before(i) # {} => Start(Max(Before(i))) <= Start(i)
      PROVE  \A i, j \in Listed : i < j /\ Logical(i) = Logical(j) => Start(i) <= Start(j)
  <2> DEFINE S == [i \in Listed |-> Start(i)]
             G == [i \in Listed |-> Logical(i)]
             B == [i \in Listed |-> {j \in Listed : j < i /\ G[j] = G[i]}]
  <2>1. S \in [Listed -> Nat] /\ G \in [Listed -> BOOLEAN]
    BY <1>1 DEF Logical
  <2>2. \A i \in Listed : S[i] = Start(i) /\ G[i] = Logical(i) /\ B[i] = Before(i)
    BY DEF Before
  <2>3. \A i \in Listed : B[i] # {} => Max(B[i]) \in Listed /\ S[Max(B[i])] <= S[i]
    BY <1>3, <1>6, <2>2
  <2> HIDE DEF S, G
  <2>4. \A i, j \in Listed : i < j /\ G[i] = G[j] => S[i] <= S[j]
    BY <1>1, <2>1, <2>3, NeighboursSuffice
  <2> QED
    BY <2>2, <2>4
<1>7. ASSUME \A i, j \in Listed : i < j /\ Logical(i) = Logical(j) => Start(i) <= Start(j)
      PROVE  \A i \in Listed : Before(i) # {} => Start(Max(Before(i))) <= Start(i)
  BY <1>3, <1>7
<1> QED
  BY <1>4, <1>5, <1>6, <1>7

(* However many partitions a disk has, wrong_p_order returns 0 exactly if they
   are listed in the order of the disk, although it compares each with the one
   before it only and in 32 bits. *)
THEOREM OrderIsTold == Spec => []OrderTold
<1>1. Shape => OrderTold
  BY OrderFound DEF Shape
<1> QED
  BY <1>1, ShapeAlways, PTL

-----------------------------------------------------------------------------
(* Every call comes to an end. *)

(* What one entry of the MBR takes. *)
PerEntry == 3 * MaxParts + 3
(* A single link is cleared, not taken out. *)
ToClear == IF Len(links) = 1 /\ Part(links[1]).sys # "none" THEN 1 ELSE 0

(* How far a call may still go: the entries of the MBR to come; within one, the
   links that fit into ptes and then the links that are there, twice, and once
   more for a single link that is still to be cleared. *)
Rank ==
    CASE pc = "entries" -> 2 + (4 - at) * PerEntry
      [] pc = "chain"   -> 2 + (3 - at) * PerEntry + 2 * MaxParts + 2 + (MaxParts - Len(links))
      [] pc = "remove"  -> 2 + (3 - at) * PerEntry + 2 * Len(links) + ToClear + 1
      [] pc = "booted"  -> 1
      [] OTHER          -> 0

(* Each step of a call has less to go, on every disk: also in a chain that is a
   circle, or whose links are all empty. *)
BootAdvances ==
    [][pc \notin {"idle", "crashed"} => Rank' \in Nat /\ Rank' < Rank]_vars

LEMMA RankIs ==
  ASSUME Shape
  PROVE  /\ PerEntry \in Nat /\ MaxParts \in Nat /\ PerEntry = 3 * MaxParts + 3
         /\ Len(links) \in Nat /\ Len(links) < MaxParts /\ ToClear \in {0, 1}
         /\ pc = "entries" => Rank = 2 + (4 - at) * PerEntry
         /\ pc = "chain" => Rank = 2 + (3 - at) * PerEntry + 2 * MaxParts + 2 + (MaxParts - Len(links))
         /\ pc = "remove" => Rank = 2 + (3 - at) * PerEntry + 2 * Len(links) + ToClear + 1
         /\ pc = "booted" => Rank = 1
         /\ pc \in {"idle", "crashed"} => Rank = 0
<1>1. MaxParts \in Nat /\ Len(links) \in Nat /\ Len(links) < MaxParts
  <2>1. MaxParts \in Nat /\ Len(links) \in Nat /\ 4 + Len(links) <= MaxParts
    BY BootAssumption DEF Shape, TypeOK
  <2> QED
    BY <2>1
<1>2. PerEntry \in Nat /\ ToClear \in {0, 1}
  BY <1>1 DEF PerEntry, ToClear
<1> QED
  BY <1>1, <1>2 DEF Rank, PerEntry

(* A product that the provers need not multiply. *)
LEMMA EntriesLeft ==
  ASSUME NEW a \in 0..4, NEW w \in Nat
  PROVE  /\ (4 - a) * w \in Nat
         /\ a <= 3 => (3 - a) * w \in Nat /\ (4 - a) * w = (3 - a) * w + w
         /\ a <= 3 => (4 - (a + 1)) * w = (3 - a) * w
<1>1. a \in {0, 1, 2, 3, 4}
  OBVIOUS
<1> QED
  BY <1>1

LEMMA RankType ==
  ASSUME Shape
  PROVE  Rank \in Nat
<1> DEFINE w == PerEntry
           n == Len(links)
           p == (3 - at) * w
           q == (4 - at) * w
<1>1. /\ w \in Nat /\ MaxParts \in Nat /\ n \in Nat /\ n < MaxParts /\ ToClear \in {0, 1}
      /\ at \in 0..4
      /\ pc = "entries" => Rank = 2 + q
      /\ pc = "chain" => Rank = 2 + p + 2 * MaxParts + 2 + (MaxParts - n)
      /\ pc = "remove" => Rank = 2 + p + 2 * n + ToClear + 1
      /\ pc = "booted" => Rank = 1
      /\ pc \in {"idle", "crashed"} => Rank = 0
  BY RankIs DEF Shape, TypeOK
<1>2. pc \in {"chain", "remove"} => at <= 3
  BY <1>1 DEF Shape, Control
<1>3. pc \in {"idle", "entries", "chain", "remove", "booted", "crashed"}
  BY DEF Shape, TypeOK
<1>4. q \in Nat /\ (at <= 3 => p \in Nat)
  BY <1>1, EntriesLeft
<1> HIDE DEF w, n, p, q
<1> QED
  BY <1>1, <1>2, <1>3, <1>4

(* A deletion takes one link, or clears the only one. *)
LEMMA DeletionShrinks ==
  ASSUME Shape, RemoveLink
  PROVE  \/ Len(links') = Len(links) - 1
         \/ Len(links') = Len(links) /\ ToClear = 1 /\ ToClear' = 0
<1>1. PICK k \in Empty : links' = delete_partition(k)
  BY DEF RemoveLink
<1>2. k \in 1..Len(links) /\ (Len(links) > 1 \/ Part(links[1]).sys # "none") /\ pc = "remove"
  BY <1>1 DEF Empty, RemoveLink
<1>3. CASE Len(links) > 1
  BY <1>1, <1>2, <1>3, DeleteOne DEF Deleted
<1>4. CASE ~ (Len(links) > 1)
  <2>1. Len(links) = 1 /\ k = 1 /\ Part(links[1]).sys # "none"
    <3>1. Len(links) \in Nat
      BY DEF Shape, TypeOK
    <3>2. Len(links) = 1
      <4> DEFINE n == Len(links)
      <4>1. n \in Nat /\ k \in 1..n /\ ~ (n > 1)
        BY <1>2, <1>4, <3>1
      <4> HIDE DEF n
      <4>2. n = 1
        BY <4>1
      <4> QED
        BY <4>2 DEF n
    <3>3. k = 1
      BY <1>2, <3>2
    <3> QED
      BY <1>2, <3>2, <3>3
  <2>2. Len(links') = 1 /\ Part(links'[1]) = NoEntry
    BY <1>1, <2>1, ClearOnly
  <2>3. NoEntry.sys = "none"
    BY DEF NoEntry
  <2> QED
    BY <2>1, <2>2, <2>3 DEF ToClear, Part
<1> QED
  BY <1>3, <1>4

(* get_boot and what follows it end on every disk, though nothing in the code
   looks for a circle in the chain (fdisk/fdisk.c:760): MAXIMUM_PARTS ends the
   reading, and each deletion leaves less to delete. *)
THEOREM EveryStepAdvances == Spec => BootAdvances
<1>1. Shape /\ Shape' /\ [Next]_vars =>
        (pc \notin {"idle", "crashed"} => Rank' < Rank \/ vars' = vars)
  <2> SUFFICES ASSUME Shape, Shape', pc \notin {"idle", "crashed"}, Step
               PROVE  Rank' < Rank
    BY DEF Next, Stop
  <2> DEFINE w == PerEntry
             n == Len(links)
             m == Len(links')
             p == (3 - at) * w
             c == ToClear
             d == ToClear'
  <2>1. /\ w \in Nat /\ MaxParts \in Nat /\ w = 3 * MaxParts + 3
        /\ n \in Nat /\ n < MaxParts /\ c \in {0, 1} /\ at \in 0..4
        /\ pc = "entries" => Rank = 2 + (4 - at) * w
        /\ pc = "chain" => Rank = 2 + p + 2 * MaxParts + 2 + (MaxParts - n)
        /\ pc = "remove" => Rank = 2 + p + 2 * n + c + 1
        /\ pc = "booted" => Rank = 1
    BY RankIs DEF Shape, TypeOK
  <2>2. /\ m \in Nat /\ m < MaxParts /\ d \in {0, 1} /\ at' \in 0..4
        /\ pc' = "entries" => Rank' = 2 + (4 - at') * w
        /\ pc' = "chain" => Rank' = 2 + (3 - at') * w + 2 * MaxParts + 2 + (MaxParts - m)
        /\ pc' = "remove" => Rank' = 2 + (3 - at') * w + 2 * m + d + 1
        /\ pc' = "booted" => Rank' = 1
        /\ pc' \in {"idle", "crashed"} => Rank' = 0
    <3>1. at' \in 0..4
      BY DEF Shape, TypeOK
    <3>2. (/\ Len(links) \in Nat /\ Len(links) < MaxParts /\ ToClear \in {0, 1}
           /\ pc = "entries" => Rank = 2 + (4 - at) * PerEntry
           /\ pc = "chain" => Rank = 2 + (3 - at) * PerEntry + 2 * MaxParts + 2
                                       + (MaxParts - Len(links))
           /\ pc = "remove" => Rank = 2 + (3 - at) * PerEntry + 2 * Len(links) + ToClear + 1
           /\ pc = "booted" => Rank = 1
           /\ pc \in {"idle", "crashed"} => Rank = 0)'
      BY RankIs, PTL
    <3> QED
      BY <3>1, <3>2 DEF PerEntry
  <2>3. /\ (4 - at) * w \in Nat
        /\ at <= 3 => p \in Nat /\ (4 - at) * w = p + w /\ (4 - (at + 1)) * w = p
    BY <2>1, EntriesLeft
  <2>4. ~get_boot
    BY DEF get_boot
  <2> HIDE DEF w, n, m, p, c, d
  <2>5. CASE SkipEntry
    <3>1. pc = "entries" /\ pc' = pc /\ at' = at + 1 /\ at <= 3
      BY <2>1, <2>5 DEF SkipEntry
    <3> QED
      BY <2>1, <2>2, <2>3, <3>1
  <2>6. CASE EnterExtended
    <3>1. pc = "entries" /\ at <= 3 /\ m = n
      BY <2>1, <2>6 DEF EnterExtended, IsExtended, m, n
    <3>2. CASE pc' = pc /\ at' = at + 1
      BY <2>1, <2>2, <2>3, <3>1, <3>2
    <3>3. CASE pc' = "chain" /\ at' = at
      BY <2>1, <2>2, <2>3, <3>1, <3>3 DEF p
    <3> QED
      BY <2>6, <3>2, <3>3 DEF EnterExtended
  <2>7. CASE ReadLink
    <3>1. pc = "chain" /\ pc' = pc /\ at' = at /\ at <= 3
      BY <2>1, <2>7 DEF ReadLink, Shape, Control
    <3>2. m = n + 1
      <4>1. PICK t \in LinkTables : links' = Append(links, read_pte(t))
        BY <2>7 DEF ReadLink
      <4>2. read_pte(t) \in Links /\ links \in Seq(Links)
        BY <2>7, ReadPteProps DEF ReadLink, Shape, TypeOK
      <4> QED
        BY <4>1, <4>2, AppendProperties DEF m, n
    <3> QED
      BY <2>1, <2>2, <2>3, <3>1, <3>2 DEF p
  <2>8. CASE OutOfMemory
    <3>1. pc = "chain" /\ pc' = "crashed" /\ at <= 3
      BY <2>1, <2>8 DEF OutOfMemory, Shape, Control
    <3> QED
      BY <2>1, <2>2, <2>3, <3>1
  <2>9. CASE TooManyParts
    <3>1. pc = "chain" /\ pc' = "entries" /\ at' = at + 1 /\ at <= 3
      BY <2>1, <2>9 DEF TooManyParts, Shape, Control
    <3> QED
      BY <2>1, <2>2, <2>3, <3>1
  <2>10. CASE ChainEnds
    <3>1. pc = "chain" /\ pc' = "remove" /\ at' = at /\ at <= 3 /\ m = n
      BY <2>1, <2>10 DEF ChainEnds, Shape, Control, m, n
    <3>2. 2 * n + d + 1 < 2 * MaxParts + 2 + (MaxParts - n)
      BY <2>1, <2>2
    <3> QED
      BY <2>1, <2>2, <2>3, <3>1, <3>2 DEF p
  <2>11. CASE RemoveLink
    <3>1. pc = "remove" /\ pc' = pc /\ at' = at /\ at <= 3
      BY <2>1, <2>11 DEF RemoveLink, Shape, Control
    <3>2. 2 * m + d < 2 * n + c
      <4>1. m = n - 1 \/ (m = n /\ c = 1 /\ d = 0)
        BY <2>11, DeletionShrinks DEF m, n, c, d
      <4> QED
        BY <2>1, <2>2, <4>1
    <3> QED
      BY <2>1, <2>2, <2>3, <3>1, <3>2 DEF p
  <2>12. CASE NoneEmpty
    <3>1. pc = "remove" /\ pc' = "entries" /\ at' = at + 1 /\ at <= 3
      BY <2>1, <2>12 DEF NoneEmpty, Shape, Control
    <3> QED
      BY <2>1, <2>2, <2>3, <3>1
  <2>13. CASE CheckFlags
    <3>1. pc = "entries" /\ pc' = "booted"
      BY <2>13 DEF CheckFlags
    <3> QED
      BY <2>1, <2>2, <2>3, <3>1
  <2>14. CASE freeLogicalPtes
    <3>1. pc = "booted" /\ pc' = "idle"
      BY <2>14 DEF freeLogicalPtes
    <3> QED
      BY <2>1, <2>2, <3>1
  <2> QED
    BY <2>4, <2>5, <2>6, <2>7, <2>8, <2>9, <2>10, <2>11, <2>12, <2>13, <2>14 DEF Step
<1>2. Shape => Rank \in Nat
  BY RankType
<1>3. Shape /\ Shape' /\ [Next]_vars =>
        [pc \notin {"idle", "crashed"} => Rank' \in Nat /\ Rank' < Rank]_vars
  <2>1. (Shape => Rank \in Nat)'
    BY <1>2, PTL
  <2> QED
    BY <1>1, <2>1
<1> QED
  BY <1>3, ShapeAlways, PTL DEF Spec, BootAdvances
=============================================================================
