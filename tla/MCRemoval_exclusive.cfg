\* A pane whose shell leaves the worktree between inspection and retirement.
CONSTANTS
    s1 = s1
    s2 = s2
    w1 = w1
    w2 = w2
    p1 = p1
    p2 = p2
    e1 = e1
    Sessions = {s1}
    Workspaces = {w1}
    Panes = {p1}
    SessionOf <- OneSession
    WorkspaceOf <- OneWorkspace
    Strangers = {e1}
    Volatile <- SomeFacts
    Modes <- AllModes
    MaxChanges = 2
SPECIFICATION FairSpec
PROPERTIES
    RetiresOnlyExclusive
