\* Files of jobs on media of all kinds, with the largest size that is allowed.
SPECIFICATION Spec
CONSTANTS
    Kilo = 4
    Word = 64
    MaxJobs = 2
    JobNums <- AnyJobs
    FileSizes <- AnySize
    RwSizes <- AnySize
    Statfs <- SmallStatfs
    MaxMounts = 2
INVARIANT FileSizeAtMost
