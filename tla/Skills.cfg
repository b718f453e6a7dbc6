CONSTANTS
    x = x
    y = y
    x1 = x1
    x2 = x2
    y1 = y1
    Skills = {x, y}
    Releases = {x1, x2, y1}
    SkillOf <- MCSkillOf
    Needs <- MCNeeds
    Builtin = {x1, y1}
    Deniable = {y}
    Agents = {a}
    Editors = {u}
    MaxActive = 2
    MaxEpoch = 2
    Sessions = {s1, s2}
    Slots = {i, j}
    NoOne = NoOne
    NoSlot = NoSlot
    MaxRequests = 3
    MaxTokens = 4
    Upper = 2
    Used = 1
    MaxAttempts = 2
    MaxCancels = 1
    MaxCrashes = 1
    Windows = {"settle"}
    Users = {u1, u2, u3, u4}
    Capacity = 2
SPECIFICATION MCFairSpec
INVARIANTS
    SkillsTypeOK
    TrialInv
    PolicyInv
    QueueInv
PROPERTIES
    CountersKept
    NoOvertaking
    SkillsEnd
CHECK_DEADLOCK FALSE
