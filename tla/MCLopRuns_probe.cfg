\* The lock file does not exist yet: a probe may remove the file a run has locked.
CONSTANTS
    r1 = r1
    r2 = r2
    q1 = q1
    First = First
    Missing = Missing
    Torn = Torn
    Runs = {r1, r2}
    Probes = {q1}
    Repos = {"a"}
    Classes = {"candidate", "dirty"}
    InitiallyPresent = FALSE
SPECIFICATION Spec
INVARIANT Exclusion
