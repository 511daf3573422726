\* No disk fault, one log file, crashes at any moment: the engine is a linearizable, durable map.
SPECIFICATION Spec
CONSTANTS
    t1 = t1
    t2 = t2
    empty = empty
    v1 = v1
    Absent = Absent
    NoKey = NoKey
    NoThread = NoThread
    Threads = {t1, t2}
    Keys = {1, 2}
    Values = {empty, v1}
    EmptyString = empty
    BigValues = {}
    MaxTxns = 2
    Stamps = {1}
    MaxLog = 2
    MaxTears = 0
    ClockStepsBack = FALSE
    Faults = {}
    ScanLimit = 1
    Calls = {"del", "scan", "stats", "crash", "compact", "shutdown"}
SYMMETRY ThreadSymmetry
INVARIANTS
    DataIsLog
PROPERTIES
    ImplementsKVStore
\* Callers may stop calling, and the bounds stop them.
CHECK_DEADLOCK FALSE
