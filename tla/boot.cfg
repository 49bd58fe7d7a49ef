\* get_boot and freeLogicalPtes, twice, on disks with up to four links.
SPECIFICATION Spec
CONSTANTS
    MaxParts = 8
    Word = 8
    MbrTables <- MCMbrTables
    LinkTables <- MCLinkTables
    Buffers = {1, 2, 3, 4, 5, 6, 7, 8}
    MaxBoots = 2
INVARIANTS TypeOK ChainLinked LogicalsKept NoEmptyLinks BuffersOwned ChangesMarked
           OrderTold
PROPERTY BootEnds
