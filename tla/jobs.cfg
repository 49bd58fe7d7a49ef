\* Two jobs; every call that can fail may fail.
SPECIFICATION Spec
CONSTANTS
    Jobs = 2
    Stride = 2
    MaxFiles = 2
    Sizes <- SmallSizes
    Faults = {"create", "open", "write", "close"}
INVARIANTS TypeOK ScanAfterJobs OwnFiles RecordsBalance
PROPERTY PollEnds
