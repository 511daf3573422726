\* restore waits for itself.
SPECIFICATION FairSpec
CONSTANTS
    t1 = t1
    t2 = t2
    empty = empty
    v1 = v1
    Absent = Absent
    NoKey = NoKey
    NoThread = NoThread
    Threads = {t1, t2}
    Keys = {1}
    Values = {empty, v1}
    EmptyString = empty
    BigValues = {}
    MaxTxns = 1
    Stamps = {1, 2}
    MaxLog = 3
    MaxTears = 0
    ClockStepsBack = FALSE
    Faults = {}
    ScanLimit = 1
    Calls = {"restore"}
PROPERTIES
    RestoreReturns
\* Callers may stop calling, and the bounds stop them.
CHECK_DEADLOCK FALSE
