\* Two linked worktrees on two branches and two commits, and one change by others at any moment.
CONSTANTS
    w1 = w1
    w2 = w2
    b1 = b1
    b2 = b2
    h1 = h1
    h2 = h2
    Main = main
    Detached = detached
    Broken = broken
    Unborn = unborn
    Linked = {w1, w2}
    Branches = {b1, b2}
    Commits = {h1, h2}
    MaxChanges = 1
SPECIFICATION Spec
INVARIANTS
    UpstreamWasGone
    ProtectedStay
    FailsClosed
    InspectedIsComplete
PROPERTIES
    ProofIsCurrent
