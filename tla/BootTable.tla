------------------------------ MODULE BootTable ------------------------------
(***************************************************************************)
(* How fdisk.c reads the partition tables of a disk: get_boot takes the    *)
(* four entries of the MBR and follows the chain of extended partitions,   *)
(* one sector and one malloc'ed buffer per link, into the array ptes;      *)
(* read_extended then takes the links without a partition out of the chain *)
(* again.  wrong_p_order looks at the result and freeLogicalPtes gives the *)
(* buffers back, which is the order of the calls in get_disk_info.         *)
(*                                                                         *)
(* partitions is 4 + Len(links): links[k] is ptes[k + 3].  What the buffer *)
(* of a link holds is kept with the link, as no two links share one        *)
(* (BuffersOwned).  A sector that cannot be read leaves what the fresh     *)
(* buffer happens to hold, so a read returns any of the tables.            *)
(***************************************************************************)
EXTENDS Integers, Sequences, FiniteSets, SequencesExt

CONSTANTS MaxParts,    \* MAXIMUM_PARTS
          Word,        \* 2^32, an entry holds its start and size in 32 bits
          MbrTables,   \* what the first sector may hold
          LinkTables,  \* what the sector of an extended partition may hold
          Buffers,     \* addresses malloc returns
          MaxBoots     \* bound on the calls of get_boot

(* A type is unused (0), one of the three extended types (IS_EXTENDED), or
   any other. *)
Kinds == {"none", "ext", "data"}
Entries == [sys : Kinds, start : 0..Word-1, nr : 0..Word-1]
Tables == [entry : [0..3 -> Entries], flag : BOOLEAN]

ASSUME BootAssumption ==
    /\ MaxParts \in Nat /\ MaxParts > 5
    /\ Word \in Nat \ {0}
    /\ MbrTables \subseteq Tables
    /\ LinkTables \subseteq Tables
    /\ IsFiniteSet(Buffers)
    /\ MaxBoots \in Nat

VARIABLES pc,
          mbr,              \* MBRbuffer
          at,               \* the entry of the MBR get_boot is at
          ext_index, extended_offset,
          links,            \* ptes[4 .. partitions - 1]
          heap,             \* allocated buffers
          lost,             \* history: buffers of links taken out of the chain
          chain,            \* history: the links as they were read
          boots             \* calls of get_boot so far

vars == <<pc, mbr, at, ext_index, extended_offset, links, heap, lost, chain, boots>>
found == <<mbr, ext_index, extended_offset>>

(* A struct pte of a logical partition; part and ext are the entries of the
   sector that part_table and ext_pointer point to, link its number in chain. *)
Links == [offset : Nat, buffer : Buffers, sector : Tables,
          part : 0..3, ext : 0..3, changed : BOOLEAN, link : Nat]

Part(l) == l.sector.entry[l.part]
Ext(l) == l.sector.entry[l.ext]
get_partition_start(l) == l.offset + Part(l).start

NoEntry == [sys |-> "none", start |-> 0, nr |-> 0]
NoTable == [entry |-> [i \in 0..3 |-> NoEntry], flag |-> FALSE]

Init ==
    /\ pc = "idle"
    /\ mbr = NoTable
    /\ at = 0
    /\ ext_index = 0 /\ extended_offset = 0
    /\ links = << >>
    /\ heap = {} /\ lost = {}
    /\ chain = << >>
    /\ boots = 0

(* The operators marked "mutant" are plausible mistakes in the definition they
   precede; no specification uses them. *)
-----------------------------------------------------------------------------
(* get_boot up to the loop over the four entries.  Without 512 bytes to read
   it returns 1, without 0xaa55 at their end -1. *)
get_boot ==
    /\ pc = "idle" /\ boots < MaxBoots
    /\ boots' = boots + 1
    /\ links' = << >> /\ chain' = << >>
    /\ ext_index' = 0 /\ extended_offset' = 0
    /\ at' = 0
    /\ \/ mbr' = NoTable /\ pc' = "idle"
       \/ \E t \in MbrTables : mbr' = t /\ pc' = IF t.flag THEN "entries" ELSE "idle"
    /\ UNCHANGED <<heap, lost>>

(* The next entry of the MBR is to be read as an extended partition: the first
   one that leads to a link, later ones are ignored. *)
IsExtended == at < 4 /\ mbr.entry[at].sys = "ext" /\ links = << >>

SkipEntry ==
    /\ pc = "entries" /\ at < 4 /\ ~IsExtended
    /\ at' = at + 1
    /\ UNCHANGED <<pc, links, heap, lost, chain, boots, found>>

(* read_extended up to its loop: "Bad offset in primary extended partition". *)
EnterExtended ==
    /\ pc = "entries" /\ IsExtended
    /\ ext_index' = at
    /\ IF mbr.entry[at].start = 0
         THEN at' = at + 1 /\ UNCHANGED pc
         ELSE pc' = "chain" /\ UNCHANGED at
    /\ UNCHANGED <<mbr, extended_offset, links, heap, lost, chain, boots>>

(* p of read_extended: the entry that leads to the next link. *)
Pointer == IF links = << >> THEN mbr.entry[ext_index] ELSE Ext(Last(links))

(* mutant: the limit is one too high *)
FullLate == 4 + Len(links) > MaxParts
Full == 4 + Len(links) >= MaxParts

(* The four entries of a link: the first partition and the first pointer that
   are not empty, or else an entry the other one does not use. *)
Used(t, kind) == {i \in 0..3 : t.entry[i].nr # 0 /\ t.entry[i].sys = kind}

PartOf(t) == CASE Used(t, "data") # {} -> Min(Used(t, "data"))
               [] Used(t, "data") = {} /\ 0 \notin Used(t, "ext") -> 0
               [] OTHER -> 1

(* mutant: the entry of the partition is not spared *)
ExtOfFirst(t) == IF Used(t, "ext") # {} THEN Min(Used(t, "ext")) ELSE 0
ExtOf(t) == CASE Used(t, "ext") # {} -> Min(Used(t, "ext"))
              [] Used(t, "ext") = {} /\ PartOf(t) # 0 -> 0
              [] OTHER -> 1

(* malloc: addresses are not ordered, so which of the free ones is no matter. *)
Fresh == CHOOSE b \in Buffers : b \notin heap

read_pte(t) == [offset |-> extended_offset + Pointer.start, buffer |-> Fresh, sector |-> t,
                part |-> PartOf(t), ext |-> ExtOf(t), changed |-> FALSE,
                link |-> Len(chain) + 1]

(* One round of the loop of read_extended. *)
ReadLink ==
    /\ pc = "chain" /\ Pointer.sys = "ext" /\ ~Full
    /\ heap # Buffers
    /\ heap' = heap \cup {Fresh}
    /\ \E t \in LinkTables : links' = Append(links, read_pte(t)) /\ chain' = Append(chain, read_pte(t))
    /\ extended_offset' = IF extended_offset = 0 THEN Pointer.start ELSE extended_offset
    /\ UNCHANGED <<pc, mbr, at, ext_index, lost, boots>>

(* malloc fails, which is reported; the entries are then read through NULL. *)
OutOfMemory ==
    /\ pc = "chain" /\ Pointer.sys = "ext" /\ ~Full
    /\ pc' = "crashed"
    /\ UNCHANGED <<at, links, heap, lost, chain, boots, found>>

(* clear_partition of an entry of a link, which is then to be written. *)
Cleared(l, i) == [l EXCEPT !.sector.entry[i] = NoEntry, !.changed = TRUE]

(* The array is full: the last link loses its pointer and the empty links are
   left in. *)
TooManyParts ==
    /\ pc = "chain" /\ Pointer.sys = "ext" /\ Full
    /\ links' = [links EXCEPT ![Len(links)] = Cleared(@, @.ext)]
    /\ at' = at + 1
    /\ pc' = "entries"
    /\ UNCHANGED <<heap, lost, chain, boots, found>>

ChainEnds ==
    /\ pc = "chain" /\ Pointer.sys # "ext"
    /\ pc' = "remove"
    /\ UNCHANGED <<at, links, heap, lost, chain, boots, found>>

-----------------------------------------------------------------------------
(* mutant: the only logical partition is deleted over and over again *)
EmptyAny == {k \in 1..Len(links) : Part(links[k]).nr = 0}
(* mutant: the search begins with the second link *)
EmptyBehindFirst == {k \in 2..Len(links) : Part(links[k]).nr = 0}
(* Links that are omitted: without a partition, and not the only one, unless
   there is something left to clear in it. *)
Empty == {k \in 1..Len(links) :
            Part(links[k]).nr = 0 /\ (Len(links) > 1 \/ Part(links[1]).sys # "none")}

(* mutant: the start stays relative to the place the link was read from *)
MovedAsIs(l) == [l EXCEPT !.offset = extended_offset, !.changed = TRUE]
(* The second link takes the place of the first one. *)
Moved(l) == [l EXCEPT !.sector.entry[l.part].start = (get_partition_start(l) - extended_offset) % Word,
                      !.offset = extended_offset,
                      !.changed = TRUE]

(* mutant: the link before is not marked *)
PassOnUnmarked(k, entry) ==
    LET before == links[k - 1]
    IN [links EXCEPT ![k - 1] = [before EXCEPT !.sector.entry[before.ext] = entry]]
(* mutant: the link before keeps its pointer *)
PassOnNothing(k, entry) == [links EXCEPT ![k - 1] = [@ EXCEPT !.changed = TRUE]]
(* The link before the one that goes is given another pointer. *)
PassOn(k, entry) ==
    LET before == links[k - 1]
    IN [links EXCEPT ![k - 1] = [before EXCEPT !.sector.entry[before.ext] = entry,
                                               !.changed = TRUE]]

(* delete_partition(k + 3) of a logical partition: the last one in the chain,
   one that is neither the last nor the first, the first of several, and the
   only one. *)
delete_partition(k) ==
    CASE k > 1 /\ Ext(links[k]).sys = "none" -> Front(PassOn(k, NoEntry))
      [] k > 1 /\ Ext(links[k]).sys # "none" -> RemoveAt(PassOn(k, Ext(links[k])), k)
      [] k = 1 /\ Len(links) > 1 -> RemoveAt([links EXCEPT ![2] = Moved(@)], 1)
      [] k = 1 /\ Len(links) = 1 -> << Cleared(links[1], links[1].part) >>

(* The first empty link is deleted, after which the search starts again.  The buffer of a link
   that is taken out is not freed. *)
RemoveLink ==
    /\ pc = "remove"
    /\ \E k \in Empty :
         /\ \A j \in Empty : k <= j
         /\ links' = delete_partition(k)
         /\ lost' = IF Len(links) > 1 THEN lost \cup {links[k].buffer} ELSE lost
    /\ UNCHANGED <<pc, at, heap, chain, boots, found>>

(* read_extended returns. *)
NoneEmpty ==
    /\ pc = "remove" /\ Empty = {}
    /\ at' = at + 1
    /\ pc' = "entries"
    /\ UNCHANGED <<links, heap, lost, chain, boots, found>>

(* get_boot after its loop: sectors without 0xaa55 "will be corrected by
   w(rite)".  That of the MBR has it. *)
CheckFlags ==
    /\ pc = "entries" /\ at = 4
    /\ links' = [k \in 1..Len(links) |->
                   [links[k] EXCEPT !.changed = @ \/ ~links[k].sector.flag]]
    /\ pc' = "booted"
    /\ UNCHANGED <<at, heap, lost, chain, boots, found>>

Owned == {links[k].buffer : k \in 1..Len(links)}

(* mutant: the last buffer is kept *)
freeLogicalPtesShort ==
    /\ pc = "booted"
    /\ heap' = heap \ {links[k].buffer : k \in 1..(Len(links) - 1)}
    /\ pc' = "idle"
    /\ UNCHANGED <<at, links, lost, chain, boots, found>>
freeLogicalPtes ==
    /\ pc = "booted"
    /\ heap' = heap \ Owned
    /\ pc' = "idle"
    /\ UNCHANGED <<at, links, lost, chain, boots, found>>

Stop == (pc = "crashed" \/ (pc = "idle" /\ boots = MaxBoots)) /\ UNCHANGED vars

Step == \/ get_boot \/ SkipEntry \/ EnterExtended \/ ReadLink \/ OutOfMemory
        \/ TooManyParts \/ ChainEnds \/ RemoveLink \/ NoneEmpty \/ CheckFlags
        \/ freeLogicalPtes

Next == Step \/ Stop

(* One thread runs the calls one after the other, so it goes on. *)
Spec == Init /\ [][Next]_vars /\ WF_vars(Step)

-----------------------------------------------------------------------------
(* wrong_p_order: partition i begins before the one listed before it among the
   primary or among the logical partitions; 0 if there is none.  Starts are
   compared in 32 bits. *)
Ids == 0..(3 + Len(links))
Logical(i) == i >= 4
Sys(i) == IF Logical(i) THEN Part(links[i - 3]).sys ELSE mbr.entry[i].sys
Start(i) == IF Logical(i) THEN get_partition_start(links[i - 3]) ELSE mbr.entry[i].start

Listed == {i \in Ids : Sys(i) # "none"}
(* mutant: the logical partitions are compared with the last primary one *)
BeforeAny(i) == {j \in Listed : j < i}
Before(i) == {j \in Listed : j < i /\ Logical(j) = Logical(i)}

wrong_p_order ==
    LET wrong == {i \in Listed : Before(i) # {} /\ Start(Max(Before(i))) % Word > Start(i) % Word}
    IN IF wrong = {} THEN 0 ELSE Min(wrong)

-----------------------------------------------------------------------------
(* Type invariant. *)
TypeOK ==
    /\ pc \in {"idle", "entries", "chain", "remove", "booted", "crashed"}
    /\ mbr \in Tables
    /\ at \in 0..4
    /\ ext_index \in 0..3 /\ extended_offset \in 0..Word-1
    /\ links \in Seq(Links) /\ 4 + Len(links) <= MaxParts
    /\ chain \in Seq(Links)
    /\ heap \subseteq Buffers /\ lost \subseteq Buffers
    /\ boots \in 0..MaxBoots

Read == pc \in {"remove", "booted"} \/ (pc = "entries" /\ links # << >>)

(* The links in ptes are a chain again whatever was taken out of it: each leads
   to the place of the next one, the extended partition of the MBR to the
   first, and the last one nowhere.  Otherwise a table that is written back
   loses the partitions behind the gap. *)
ChainLinked ==
    Read /\ links # << >> =>
      /\ links[1].offset = mbr.entry[ext_index].start
      /\ \A k \in 1..Len(links)-1 :
            /\ Ext(links[k]).sys = "ext"
            /\ links[k + 1].offset = extended_offset + Ext(links[k]).start
      /\ Ext(Last(links)).sys # "ext"

(* Every partition of the chain that has sectors stays listed, in the order of
   the chain, at its place on the disk and with its size; except that a start
   beyond 32 bits from the first link is cut when the first link goes. *)
LogicalsKept ==
    /\ \A k \in 1..Len(links) :
         LET l == links[k]
             read == chain[l.link]
             start == get_partition_start(read)
         IN /\ Part(l).nr = Part(read).nr
            /\ Part(l).nr # 0 =>
                 /\ Part(l).sys = Part(read).sys
                 /\ start - extended_offset < Word => get_partition_start(l) = start
    /\ \A j, k \in 1..Len(links) : j < k => links[j].link < links[k].link
    /\ \A n \in 1..Len(chain) :
         Part(chain[n]).nr # 0 => \E k \in 1..Len(links) : links[k].link = n

(* After get_boot no empty partition is listed among the logical ones, but for
   a chain that is too long and for the only one, which is then cleared. *)
NoEmptyLinks ==
    pc = "booted" /\ 4 + Len(links) < MaxParts =>
      \A k \in 1..Len(links) :
         \/ Part(links[k]).nr # 0
         \/ Len(links) = 1 /\ Part(links[k]).sys = "none"

(* Each link has a buffer of its own that is allocated, so that freeLogicalPtes
   frees none twice; what stays allocated for ever are the buffers of the links
   that were taken out. *)
BuffersOwned ==
    pc # "crashed" =>
      /\ \A j, k \in 1..Len(links) : links[j].buffer = links[k].buffer => j = k
      /\ pc = "idle" => heap = lost
      /\ pc # "idle" => heap = lost \cup Owned /\ lost \cap Owned = {}

(* A link whose sector or whose place differs from what was read is marked to
   be written. *)
ChangesMarked ==
    \A k \in 1..Len(links) :
      LET l == links[k]
          read == chain[l.link]
      IN l.sector # read.sector \/ l.offset # read.offset => l.changed

(* wrong_p_order returns 0 exactly if the partitions are listed in the order in
   which they lie on the disk, as far as 32 bits can tell. *)
OrderTold ==
    pc = "booted" /\ (\A i \in Listed : Start(i) < Word) =>
      (wrong_p_order = 0
         <=> \A i, j \in Listed : i < j /\ Logical(i) = Logical(j) => Start(i) <= Start(j))

(* get_boot comes to an end on every disk, also if its chain is a circle. *)
BootEnds == pc # "idle" ~> pc \in {"idle", "crashed"}
=============================================================================
