\* Two sessions with a workspace each, two panes in one of them: every Git fact but one may
\* change; both commands, one of them without the process check.
CONSTANTS
    s1 = s1
    s2 = s2
    w1 = w1
    w2 = w2
    p1 = p1
    p2 = p2
    e1 = e1
    Sessions = {s1, s2}
    Workspaces = {w1, w2}
    Panes = {p1, p2}
    SessionOf <- TwoSessions
    WorkspaceOf <- OneWorkspace
    Strangers = {e1}
    Volatile <- MostFacts
    Modes <- PruneAndPreview
    MaxChanges = 2
SPECIFICATION FairSpec
INVARIANTS
    RemovalNeedsEvidence
    HonestOutcome
    RetirementNeedsEvidence
    FailedRetirementKeepsTree
PROPERTIES
    RetiresOnlyVerified
    PreviewChangesNothing
    Implements
    Termination
