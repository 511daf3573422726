\* Two threads serve requests, on a disk that fails, in a process that crashes.
SPECIFICATION FairHandlerSpec
CONSTANTS
    t1 = t1
    t2 = t2
    empty = empty
    v1 = v1
    Absent = Absent
    NoKey = NoKey
    NoThread = NoThread
    Threads = {t1, t2}
    Keys = {1}
    Values = {empty, v1}
    EmptyString = empty
    BigValues = {}
    MaxTxns = 2
    Stamps = {1}
    MaxLog = 2
    MaxTears = 0
    ClockStepsBack = FALSE
    Faults = {"writeFails", "flushFails"}
    ScanLimit = 1
    Calls = {"del", "scan", "stats", "shutdown", "crash"}
INVARIANTS
    AnswersBackedByLog
PROPERTIES
    RequestsAnswered
    CallsReturn
\* Clients may stop asking, and the bounds stop them.
CHECK_DEADLOCK FALSE
