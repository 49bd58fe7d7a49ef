\* Runs one after another on media of all kinds, cut short anywhere.
SPECIFICATION Spec
CONSTANTS
    Kilo = 4
    Word = 64
    MaxJobs = 2
    JobNums <- AnyJobs
    FileSizes <- AnySize
    RwSizes <- AnySize
    Statfs <- SmallStatfs
    MaxMounts = 2
INVARIANTS TypeOK JobsFit FileSizeInRange OneMount NothingLeftMounted
