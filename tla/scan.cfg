\* Every call may fail.
SPECIFICATION Spec
CONSTANTS
    JobFiles = {t1}
    CometFiles = {c1}
    UserFiles = {d1}
    UserDirs = {d1}
    MaxRename = 2
    Faults = {"opendir", "stat", "rename", "access", "unlink", "open", "close", "csv"}
INVARIANTS TypeOK NoStaleEntry OwnFilesRemoved CometFilesRemoved RecordsBalance CsvIsRaw
PROPERTY ScansEnd
