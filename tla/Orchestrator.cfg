SPECIFICATION Spec
CONSTANTS
    Tasks = {t1, t2, t3, t4}
    MaxPlan = 2
    MaxParallel = 2
    MaxAttempts = 2
    MaxIterations = 3
    MaxPlanner = 2
    MaxFaults = 2
    MaxCrashes = 1
    MaxStops = 0
SYMMETRY Symmetry
INVARIANTS
    TypeOK
    PlanConsistent
    SchedulerHasWork
PROPERTIES
    AttemptsKept
CHECK_DEADLOCK FALSE
