\* Two clients give two commands, one after the other or overlapping.
CONSTANTS
    c1 = c1
    c2 = c2
    scan = scan
    prune = prune
    None = None
    Clients = {c1, c2}
    Schedules = {scan, prune}
    Pruning = {prune}
    Default = scan
    MaxCommands = 2
SPECIFICATION Spec
INVARIANTS
    OnlyApproved
PROPERTIES
    SuccessIsWhole
    FilesRestored
