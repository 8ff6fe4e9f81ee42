SPECIFICATION Spec
CHECK_DEADLOCK FALSE
CONSTANTS
    MaxRuns = 2
    MaxFaults = 0
    MaxKills = 0
    MaxWrites = 1
INVARIANTS
    RefusalKeepsService
