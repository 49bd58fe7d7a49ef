\* Every small disk, with up to five partitions asked for.
SPECIFICATION Spec
CONSTANTS
    Word = 64
    Align = 6
    Geometries <- MCGeometries
    Disks <- MCDisks
    SectorSizes = {1, 2}
    Parts = {0, 1, 2, 3, 4, 5}
INVARIANTS TypeOK Disjoint InsideDisk MakesAll
PROPERTY SearchEnds
