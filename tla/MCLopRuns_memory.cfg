\* The lock file exists already: two runs and a probe, two repositories.
CONSTANTS
    r1 = r1
    r2 = r2
    q1 = q1
    First = First
    Missing = Missing
    Torn = Torn
    Runs = {r1, r2}
    Probes = {q1}
    Repos = {"a", "b"}
    Classes = {"candidate", "dirty"}
    InitiallyPresent = TRUE
SPECIFICATION Spec
INVARIANTS
    Exclusion
PROPERTIES
    SaveKeepsTheRest
    ChangedComparesSaved
    ActsAtomically
