------------------------------ MODULE PartTable ------------------------------
(***************************************************************************)
(* fdisk_make_part: a DOS partition table with up to four FAT32 partitions *)
(* of about the same size, made from nothing and written to a disk.  It is *)
(* reached through sys_medium_make_part.                                   *)
(*                                                                         *)
(* Sectors are those of the device; an entry of the table holds its first  *)
(* sector and its size in words of 32 bits.  Word is 2^32, Word * Word the *)
(* 2^64 of unsigned long long.  Three globals of fdisk.c never change:     *)
(* dos_compatible_flag and display_in_cyl_units are set, extended_offset   *)
(* is 0, so there are primary partitions only and ptes[i].offset is 0.     *)
(* The cylinder, head and sector fields of an entry are left out.          *)
(***************************************************************************)
EXTENDS Integers

CONSTANTS Word,        \* 2^32
          Align,       \* 2048, where the first partition is to begin
          Geometries,  \* <<heads, sectors>> HDIO_GETGEO may return, with
                       \* <<255, 63>> for where it fails
          Disks,       \* sizes of disks in units of 512 bytes; 0 if the size
                       \* cannot be read
          SectorSizes, \* sizes of a sector in units of 512 bytes
          Parts        \* numbers of partitions asked for

ASSUME PartAssumption ==
    /\ Word \in Nat \ {0} /\ Align \in Nat \ {0}
    /\ Geometries \subseteq (Nat \ {0}) \X (Nat \ {0})
    \* heads and sectors have 8 bits each, and Align is 2048
    /\ \A g \in Geometries : 3 * (g[1] * g[2]) + 4 * Align + 8 <= Word
    /\ \A g \in Geometries : 2 * g[2] <= Align
    /\ Disks \subseteq Nat
    /\ SectorSizes \subseteq Nat \ {0}
    /\ Parts \subseteq Nat

VARIABLES pc,          \* where fdisk_make_part is
          parts,       \* parts_num
          sectorSize,  \* sector_size / 512, kept from call to call
          geometry,    \* <<heads, sectors>>
          total,       \* total_number_of_sectors, in units of 512 bytes
          offset,      \* sector_offset
          n,           \* the entry addPartition is called for
          start, read, \* start and read of addPartition
          table,       \* the entries in MBRbuffer
          written,     \* the disk holds the table
          ret          \* what the last call returned

vars == <<pc, parts, sectorSize, geometry, total, offset, n, start, read,
          table, written, ret>>
disk == <<parts, sectorSize, geometry, total>>

Entries == 0..3
NoTable == [i \in Entries |-> [sys |-> FALSE, first |-> 0, size |-> 0]]

Init ==
    /\ pc = "idle" /\ parts = 0 /\ sectorSize = 1 /\ geometry = <<255, 63>>
    /\ total = 0 /\ offset = 1 /\ n = 0 /\ start = 0 /\ read = FALSE
    /\ table = NoTable /\ written = FALSE /\ ret = 0

-----------------------------------------------------------------------------
(* The disk. *)

MaxParts == 4
(* units_per_sector: the sectors of a cylinder *)
U == geometry[1] * geometry[2]

(* Cut to 32 bits, it is ~0. *)
cylinders ==
    LET c == total \div (U * sectorSize) IN IF c < Word THEN c ELSE Word - 1

partCyls == cylinders \div parts

(* mutant: the last partition gets no more than the others *)
ShareEqual == partCyls
(* What addPartition is called with; the last partition takes the rest. *)
Share == IF n = parts - 1 THEN cylinders - partCyls * (parts - 1) ELSE partCyls

MakePart ==
    /\ pc = "idle"
    /\ parts' \in Parts
    /\ \/ /\ parts' \notin 1..MaxParts
          /\ ret' = -1
          /\ UNCHANGED <<pc, table, written>>
       \/ /\ parts' \in 1..MaxParts
          /\ table' = NoTable /\ written' = FALSE
          /\ \/ pc' = "geometry" /\ UNCHANGED ret
             \/ ret' = -1 /\ UNCHANGED pc                 \* open fails
    /\ UNCHANGED <<sectorSize, geometry, total, offset, n, start, read>>

(* A sector size that cannot be read stays as it was. *)
get_sectorsize == sectorSize' \in SectorSizes \cup {sectorSize}

(* A table without a partition has no geometry; the kernel's is taken. *)
get_kernel_geometry == geometry' \in Geometries

blkdev_get_sectors == total' \in Disks

get_geometry ==
    /\ pc = "geometry"
    /\ get_sectorsize /\ get_kernel_geometry /\ blkdev_get_sectors
    /\ offset' = geometry'[2]
    /\ n' = 0
    /\ pc' = "add"
    /\ UNCHANGED <<parts, start, read, table, written, ret>>

-----------------------------------------------------------------------------
(* addPartition: the first free sector. *)

(* fill_bounds *)
Begin(i) == IF table[i].sys THEN table[i].first ELSE Word - 1
(* first[i], rounded down to a cylinder *)
First(i) == (Begin(i) \div U) * U
(* last[i] *)
Last(i) == IF table[i].sys THEN table[i].first + table[i].size - 1 ELSE 0

(* -1 without a cylinder, which is the largest unsigned number. *)
Limit == (U * cylinders - 1) % (Word * Word)

Enter ==
    /\ pc = "add"
    /\ start' = offset /\ read' = FALSE
    /\ pc' = "search"
    /\ UNCHANGED <<disk, offset, n, table, written, ret>>

(* mutant: the end of a partition counts as free *)
SkipToEnd(s, i) ==
    LET t == IF s = 0 THEN s + offset ELSE s
    IN IF First(i) <= t /\ t <= Last(i) THEN Last(i) ELSE t
(* Past entry i, if it holds sector s. *)
Skip(s, i) ==
    LET t == IF s = 0 THEN s + offset ELSE s
    IN IF First(i) <= t /\ t <= Last(i) THEN Last(i) + 1 ELSE t

Pass(s) == Skip(Skip(Skip(Skip(s, 0), 1), 2), 3)

(* mutant: the number of the cylinder is left where a sector is meant *)
RoundedToCylinder(s) == (s % Word) \div U + 1
(* Through an unsigned int to its cylinder, or back to itself if that is
   before it. *)
Rounded(s) ==
    LET i == s % Word
        c == (i \div U) * U
    IN IF c < i THEN i ELSE c

(* An iteration of the do loop; start is what the code calls temp. *)
Search ==
    /\ pc = "search"
    /\ LET s == Pass(start)
           taken == read /\ s >= start + U
           temp == IF taken THEN s ELSE start
           settled == read /\ ~taken
       IN \/ /\ s > Limit
             /\ start' = s /\ pc' = "place"
             /\ UNCHANGED read
          \/ /\ s <= Limit
             /\ IF ~settled /\ s = temp
                  THEN start' = Rounded(s) /\ read' = TRUE
                  ELSE start' = s /\ read' = settled
             /\ pc' = IF start' # temp \/ ~read' THEN "search" ELSE "place"
    /\ UNCHANGED <<disk, offset, n, table, written, ret>>

-----------------------------------------------------------------------------
(* addPartition: the last sector, and the entry. *)

CutAt(l, i) == IF start < First(i) /\ l >= First(i) THEN First(i) - 1 ELSE l

(* The limit, cut where the next partition or an empty entry begins. *)
FreeLimit == CutAt(CutAt(CutAt(CutAt(Limit, 0), 1), 2), 3)

(* mutant: the limit is not looked at *)
StopAnywhere == (start \div U + 1 + Share) * U - 2
(* One sector less than to the end of the last cylinder or to the limit. *)
Stop ==
    LET last == (start \div U + 1 + Share) * U - 1
    IN IF start \div U = FreeLimit \div U \/ last > FreeLimit
         THEN FreeLimit - 1
         ELSE last - 1

(* mutant: a number that is stored in 31 bits and a sign *)
Stored31(x) == IF x >= Word \div 2 THEN x - Word ELSE x
(* Four bytes of an entry: a number cut to 32 bits. *)
Stored(x) == x % Word

set_partition(first, stop) ==
    table' = [table EXCEPT ![n] = [sys |-> TRUE, first |-> Stored(first),
                                   size |-> Stored(stop - first + 1)]]

(* The first partition is moved to Align, whatever the search has found, and
   the search for the others starts from there. *)
Place ==
    /\ pc = "place"
    /\ IF start > FreeLimit
         THEN UNCHANGED <<table, offset>>         \* "No free sectors available"
         ELSE /\ set_partition(IF n = 0 THEN Align ELSE start, Stop)
              /\ offset' = IF n = 0 THEN Align ELSE offset
    /\ n' = n + 1
    /\ pc' = IF n = parts - 1 THEN "write" ELSE "add"
    /\ UNCHANGED <<disk, start, read, written, ret>>

-----------------------------------------------------------------------------
(* A seek or a write that fails is only printed. *)
writeTable ==
    /\ pc = "write"
    /\ written' \in BOOLEAN
    /\ pc' = "reread"
    /\ UNCHANGED <<disk, offset, n, start, read, table, ret>>

(* The disk is opened again and the kernel told to read its table. *)
reread_partition_table ==
    /\ pc = "reread"
    /\ ret' \in {0, -1}
    /\ pc' = "idle"
    /\ UNCHANGED <<disk, offset, n, start, read, table, written>>

Next ==
    \/ MakePart \/ get_geometry \/ Enter \/ Search \/ Place \/ writeTable
    \/ reread_partition_table

(* Nobody else runs; a call that has begun goes on. *)
Fairness == WF_vars(pc # "idle" /\ Next)

Spec == Init /\ [][Next]_vars /\ Fairness

-----------------------------------------------------------------------------
(* Type invariant; in particular an entry fits its two words. *)
TypeOK ==
    /\ pc \in {"idle", "geometry", "add", "search", "place", "write", "reread"}
    /\ parts \in Nat /\ (pc # "idle" => parts \in 1..MaxParts)
    /\ sectorSize \in Nat \ {0}
    /\ geometry \in (Nat \ {0}) \X (Nat \ {0})
    /\ total \in Nat /\ offset \in Nat /\ start \in Nat
    /\ n \in 0..MaxParts /\ (pc \in {"add", "search", "place"} => n \in 0..parts-1)
    /\ read \in BOOLEAN /\ written \in BOOLEAN /\ ret \in {0, -1}
    /\ table \in [Entries -> [sys : BOOLEAN, first : 0..Word-1, size : 0..Word-1]]

End(i) == table[i].first + table[i].size

(* Each partition's share of cylinders reaches beyond the place where the
   first one is moved to.  Without that addPartition computes a last sector
   before the first, and a size just below 2^32. *)
Roomy == parts \in 1..MaxParts /\ partCyls * U >= Align + 2

(* No two partitions share a sector (addPartition looks for free sectors). *)
Disjoint ==
    Roomy =>
       \A i, j \in Entries :
          (i < j /\ table[i].sys /\ table[j].sys) => End(i) <= table[j].first

(* Every partition ends on the disk. *)
InsideDisk ==
    Roomy =>
       \A i \in Entries : table[i].sys => End(i) * sectorSize <= total

(* All partitions are made: one follows the other without a gap, the inner
   ones have equal shares, and the last ends with the last cylinder but for
   one sector - unless the disk has more sectors than a word counts, or the
   last one is left with a single cylinder, which the partitions before it
   have shifted by one, so that it comes out empty. *)
MakesAll ==
    (/\ pc \in {"write", "reread"} /\ Roomy
     /\ U * cylinders <= ((Word - 1) \div U) * U
     /\ parts = 1 \/ cylinders - partCyls * (parts - 1) > 1)
    => /\ \A i \in Entries : table[i].sys <=> i < parts
       /\ \A i \in 0..parts-1 : table[i].size > 0
       /\ table[0].first = Align
       /\ \A i \in 1..parts-1 : table[i].first = End(i - 1)
       /\ \A i \in 1..parts-2 : table[i].size = partCyls * U
       /\ End(parts - 1) = U * cylinders - 1

(* The search for a free sector ends on every disk, whatever was placed before
   (the do loop of addPartition), and so does the call. *)
SearchEnds == pc # "idle" ~> pc = "idle"
=============================================================================
