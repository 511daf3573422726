\* Two threads, one key, a disk that fails, a clock that may step back, compactions,
\* backups, shutdown and restore.
SPECIFICATION Spec
CONSTANTS
    t1 = t1
    t2 = t2
    empty = empty
    v1 = v1
    Absent = Absent
    NoKey = NoKey
    NoThread = NoThread
    Threads = {t1, t2}
    Keys = {1}
    Values = {empty, v1}
    EmptyString = empty
    BigValues = {}
    MaxTxns = 2
    Stamps = {1, 2}
    MaxLog = 2
    MaxTears = 0
    ClockStepsBack = TRUE
    Faults = {"writeFails", "flushFails", "openFails"}
    ScanLimit = 1
    Calls = {"del", "compact", "backup", "restore", "shutdown", "rollback"}
SYMMETRY ThreadSymmetry
INVARIANTS
    TypeOK
    NoPhantomData
    CommitFollowsWrite
    AcceptedOnDiskOrPending
PROPERTY FilesOnlyGrow
\* Callers may stop calling, and the bounds stop them.
CHECK_DEADLOCK FALSE
