\* A file of the user's beside those of the test.
SPECIFICATION Spec
CONSTANTS
    JobFiles = {t1}
    CometFiles = {c1}
    UserFiles = {u1}
    UserDirs = {}
    MaxRename = 2
    Faults = {}
INVARIANT UserFilesKept
