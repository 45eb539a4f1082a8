CONSTANTS
    Threads = {t1, t2, t3}
    Tasks = {k1, k2}
    Throwing = {k1}
    None = None
    MaxRuns = 2
    MaxStops = 1
SPECIFICATION FairSpec
CHECK_DEADLOCK FALSE
INVARIANTS
    TypeOK
    OneRunner
    OneStopper
    FirstRunReturnsItsStop
PROPERTIES
    StopEndsRunning
    TaskRuns
