\* sys_file_fsync called by one or two workers: three arrays of two elements,
\* enough calls to fill them three times.
SPECIFICATION Spec
CONSTANTS
    Callers = {c1, c2}
    Max = 2
    Arrays = 3
    FlagFirst = TRUE
    MaxCalls = 6
SYMMETRY CallerSymmetry
INVARIANTS TypeOK NoPhantomSample RowsAligned
           StaysInArrayIfSafe
PROPERTY ImplementsLog
