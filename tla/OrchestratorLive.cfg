SPECIFICATION FairSpec
CONSTANTS
    Tasks = {t1, t2, t3}
    MaxPlan = 2
    MaxParallel = 2
    MaxAttempts = 2
    MaxIterations = 3
    MaxPlanner = 2
    MaxFaults = 1
    MaxCrashes = 0
    MaxStops = 1
PROPERTIES
    RunEnds
CHECK_DEADLOCK FALSE
