\* One client: does a failed update leave the service as it was?
CONSTANTS
    c1 = c1
    c2 = c2
    scan = scan
    prune = prune
    None = None
    Clients = {c1}
    Schedules = {scan, prune}
    Pruning = {prune}
    Default = scan
    MaxCommands = 2
SPECIFICATION FairSpec
PROPERTY ServiceRestored
