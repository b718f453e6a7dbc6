SPECIFICATION MCCommandsSpec
CONSTANTS
    Goals = {g1}
    Processes = {p1, p2}
    NoOne = NoOne
    Dead = Dead
    MaxAttempts = 1
    MaxCommands = 3
    MaxCrashes = 0
    Folders = {f1}
    Home = f1
    Nothing = Nothing
    MaxIntents = 1
    MaxChanges = 0
    UiInstances <- MCUiInstances
    UiWindows = {}
PROPERTIES
    AbortNotErased
CHECK_DEADLOCK FALSE
