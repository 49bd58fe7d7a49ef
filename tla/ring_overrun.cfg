\* Two workers step over the full test and leave the array.
SPECIFICATION Spec
CONSTANTS
    Callers = {c1, c2}
    Max = 2
    Arrays = 1
    FlagFirst = TRUE
    MaxCalls = 4
SYMMETRY CallerSymmetry
INVARIANT StaysInArray
