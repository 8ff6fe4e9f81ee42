SPECIFICATION Spec
CHECK_DEADLOCK FALSE
CONSTANTS
    MaxRuns = 4
    MaxFaults = 3
    MaxKills = 1
    MaxWrites = 2
INVARIANTS
    TypeOK
    CopiedAtRest
    ServesAccepted
    IncompleteIsRecoverable
    V21Restored
PROPERTIES
    ServedTargetKept
