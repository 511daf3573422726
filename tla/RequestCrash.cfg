\* Writes that fail, are cut off or are too long to be read, and restarts on the
\* same file and on another.
SPECIFICATION HandlerSpec
CONSTANTS
    t1 = t1
    t2 = t2
    empty = empty
    v1 = v1
    Absent = Absent
    NoKey = NoKey
    NoThread = NoThread
    Threads = {t1}
    Keys = {1}
    Values = {empty, v1}
    EmptyString = empty
    BigValues = {v1}
    MaxTxns = 1
    Stamps = {1, 2}
    MaxLog = 2
    MaxTears = 2
    ClockStepsBack = FALSE
    Faults = {"writeFails", "flushFails", "openFails", "tears"}
    ScanLimit = 1
    Calls = {"del", "crash"}
INVARIANTS
    FlushedWritesSurvive
\* Clients may stop asking, and the bounds stop them.
CHECK_DEADLOCK FALSE
