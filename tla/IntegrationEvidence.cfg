SPECIFICATION MCAcceptanceSpec
CONSTANTS
    t1 = t1
    t2 = t2
    t3 = t3
    Tasks = {t1, t2, t3}
    Owned <- MCOwned
    MaxParallel = 2
    HeavyCommands = 1
    Requests = {r1, r2}
    MaxTokens = 1
    Sizes = {1}
    MaxWaves = 2
    MaxCrashes = 1
    pa = pa
    pt = pt
    node = node
    Preparers = {pa, pt}
    Bases = {node}
    Base <- MCBase
    ForTask <- MCForTask
    Manifests = {m0, m1}
    Plain = m0
    NoLockfile = NoLockfile
    Controller = Controller
    Free = Free
    DependencyBudgets <- MCDependencyBudgets
    DependencyWindows = {}
    Specs = {s1, s2}
    Mandatory = {s1}
    Roles = {"oracle", "visual"}
    HumanCriterion = TRUE
    MaxOracleCalls = 2
    MaxRevisions = 2
    AcceptanceBudgets <- MCAcceptanceBudgets
INVARIANTS
    IntactArtifactsAccepted
CHECK_DEADLOCK FALSE
