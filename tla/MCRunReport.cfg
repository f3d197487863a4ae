\* Two repositories that may list the same two paths, one discovery issue, and a state file that
\* may know either.
CONSTANTS
    Repos = {r1, r2}
    Worktrees = {w1, w2}
    MaxIssues = 1
    EarlierMemories <- EarlierRuns
SYMMETRY Alike
SPECIFICATION Spec
INVARIANTS
    OnePerWorktree
    TotalsMatch
    ExitTellsFailures
    DoneIsTold
    SavedIsTold
