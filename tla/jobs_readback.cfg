\* Without any fault no read returns what was written.
SPECIFICATION Spec
CONSTANTS
    Jobs = 2
    Stride = 2
    MaxFiles = 2
    Sizes <- OneSize
    Faults = {}
INVARIANT ReadsBack
