\* Pipes of one unit, twice that written to each, a limit of two polls.
CONSTANTS
    Timeout = 2
    PipeSize = 1
    MaxOutput = 2
    MaxTime = 4
SPECIFICATION FairSpec
INVARIANTS
    OutputIsWhole
    CommandReaped
PROPERTIES
    OverdueOnlyForHelper
    AnsweredOrHeld
