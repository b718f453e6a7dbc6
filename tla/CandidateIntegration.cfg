SPECIFICATION Spec
CONSTANTS
    Tasks = {t1, t2}
    Controllers = {c1, c2}
    Intents = {i1, i2, i3}
    Manual = Manual
    NoOne = NoOne
    Dead = Dead
    MaxRevision = 3
    MaxAttempts = 2
    MaxCrashes = 2
    MaxDrift = 1
    LiveDrift = FALSE
SYMMETRY Symmetry
INVARIANTS
    CandidateSafe
    CommitsAccounted
PROPERTIES
    ProgressKept
    LedgerSpec
CHECK_DEADLOCK FALSE
