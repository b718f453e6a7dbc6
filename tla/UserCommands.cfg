CONSTANTS
    Goals = {g1, g2}
    Processes = {p1, p2}
    NoOne = NoOne
    Dead = Dead
    MaxAttempts = 2
    MaxCommands = 4
    MaxCrashes = 1
    Folders = {f1, f2}
    Home = f1
    Nothing = Nothing
    MaxIntents = 3
    MaxChanges = 1
    UiInstances <- MCUiInstances
    UiWindows = {}
SPECIFICATION MCFairSpec
INVARIANTS
    UserCommandsTypeOK
    SourcePatchedOnce
    EngineInv
    ConsentAsShown
PROPERTIES
    EndingsStay
    StopsEnd
    ViewConverges
CHECK_DEADLOCK FALSE
