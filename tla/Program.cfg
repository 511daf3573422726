\* Three workers, two submissions, two io threads, a signal on any thread.
SPECIFICATION FairProgramSpec
CONSTANTS
    w1 = w1
    w2 = w2
    w3 = w3
    r1 = r1
    r2 = r2
    i1 = i1
    i2 = i2
    Main = Main
    NoWorker = NoWorker
    NoTask = NoTask
    Workers = {w1, w2, w3}
    Tasks = {r1, r2}
    IoThreads = {i1, i2}
    SignalTargets = {Main, i1, w1}
INVARIANTS
    TypeOK
    QueuedTaskHasWaker
    AnsweredAtMostOnce
    OrderlyExit
PROPERTIES
    TasksAnswered
    StoppedServerExits
\* The program ends, or hangs in stop().
CHECK_DEADLOCK FALSE
