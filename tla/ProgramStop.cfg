\* A signal on main, between the test of a worker and its wait.
SPECIFICATION FairProgramSpec
CONSTANTS
    w1 = w1
    w2 = w2
    w3 = w3
    r1 = r1
    r2 = r2
    i1 = i1
    i2 = i2
    Main = Main
    NoWorker = NoWorker
    NoTask = NoTask
    Workers = {w1, w2}
    Tasks = {}
    IoThreads = {i1, i2}
    SignalTargets = {Main}
PROPERTY GracefulShutdown
\* The program ends, or hangs in stop().
CHECK_DEADLOCK FALSE
