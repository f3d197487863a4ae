\* Two sessions, a checkout open in both and one open in one of them.
CONSTANTS
    s1 = s1
    s2 = s2
    w1 = w1
    w2 = w2
    w3 = w3
    p1 = p1
    p2 = p2
    p3 = p3
    c1 = c1
    c2 = c2
    Sessions = {s1, s2}
    Workspaces = {w1, w2, w3}
    Panes = {p1, p2, p3}
    SessionOf <- ThreeWorkspaces
    WorkspaceOf <- OnePaneEach
    Checkouts = {c1, c2}
    CheckoutOf <- TwoCheckouts
    InventoryRead = {TRUE}
    FirstDisks <- SomeDisks
    FirstLists <- SomeLists
    MaxChanges = 1
SPECIFICATION FairSpec
INVARIANTS
    TypeOK
    ClosesOnlyStale
    RetiredIsGone
    ReportedOnce
PROPERTIES
    ClosesOnlyVerified
    Termination
