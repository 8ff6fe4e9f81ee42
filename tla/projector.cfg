SPECIFICATION FairSpec
CHECK_DEADLOCK FALSE
CONSTANTS
    Nodes = {n1, n2}
    Hashes = {a, b}
    None = none
    Attempts = 2
    MaxChanges = 2
    MaxBoots = 2
    MaxFaults = 1
INVARIANTS
    TypeOK
    StaleHasJob
    DoneStaysDone
PROPERTIES
    StopReleases
    Projected
