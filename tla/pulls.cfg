SPECIFICATION FairSpec
CHECK_DEADLOCK FALSE
CONSTANTS
    c1 = c1  c2 = c2
    Calls = {c1, c2}
    HasChecks = FALSE
    Evidence = FALSE
    MaxRevision = 4
    MaxPulls = 1
    MaxActs = 1
    MaxFaults = 1
INVARIANTS
    TypeOK
    ExecutingHasCall
    CompletedIsMerged
PROPERTIES
    MergesApproved
    MergedCompletes
