CONSTANTS
    r1 = r1
    r3 = r3
    wr = wr
    cl = cl
    rd = rd
    unity = unity
    browser = browser
    c1 = c1
    Runs = {r1, r3}
    Process <- MCProcess
    Ops = {o1, o2}
    Tools = {wr, cl, rd}
    Effect <- MCEffect
    ReadOnly = {}
    Versions = {unity, browser}
    Kind <- MCKind
    Catalogs = {c1, c2}
    Nobody = Nobody
    NoOp = NoOp
    None = None
    MaxCalls = 1
    Budgets <- MCBudgets
    b1 = b1
    b2 = b2
    p1 = p1
    p2 = p2
    Browsers = {b1, b2}
    BrowserProcess <- MCBrowserProcess
    Rescuers = {q}
    MaxOpens = 2
    BrowserBudgets <- MCBrowserBudgets
    BrowserWindows = {}
    e1 = e1
    e2 = e2
    l1 = l1
    l2 = l2
    l3 = l3
    Nodes = {e1, e2}
    Looks = {l1, l2, l3}
    Hidden <- MCHidden
    Signature <- MCSignature
    PageContents <- MCPages
    Calls = {d1, d2}
    NoElement = NoElement
    MaxRefs = 2
    MaxActions = 2
    PageBudgets <- MCPageBudgets
    v1 = v1
    Windows = {v1, v2}
    NoWindow = NoWindow
    MaxDesktopCalls = 3
    MaxDesktopActions = 2
    u1 = u1
    u2 = u2
    u3 = u3
    ToolNames = {u1, u2, u3}
    Cursors = {k1, k2}
    First = First
    End = End
    MaxPages = 2
    MaxTools = 3
    PageLists <- MCLists
SPECIFICATION MCFairSpec
INVARIANTS
    IntegrationsTypeOK
    OperationInv
    BrowserAccounted
    ActsOnShown
    ControlInv
    AcceptedIsWhole
PROPERTIES
    OutcomeStays
    IntegrationsEnd
CHECK_DEADLOCK FALSE
