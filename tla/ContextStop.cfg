CONSTANTS
    Threads = {t1, t2}
    Tasks = {}
    Throwing = {}
    None = None
    MaxRuns = 1
    MaxStops = 1
SPECIFICATION FairSpec
CHECK_DEADLOCK FALSE
PROPERTIES
    StopEndsEveryRun
