SPECIFICATION Spec
CONSTANTS
    Tasks = {t1}
    Controllers = {c1, c2}
    Intents = {i1, i2}
    Manual = Manual
    NoOne = NoOne
    Dead = Dead
    MaxRevision = 3
    MaxAttempts = 1
    MaxCrashes = 2
    MaxDrift = 0
    LiveDrift = FALSE
INVARIANTS
    ResumeCanReconcile
CHECK_DEADLOCK FALSE
