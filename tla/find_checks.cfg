SPECIFICATION Spec
CHECK_DEADLOCK FALSE
CONSTANTS
    c1 = c1  c2 = c2
    Calls = {c1, c2}
    HasChecks = TRUE
    Evidence = FALSE
    MaxRevision = 4
    MaxPulls = 1
    MaxActs = 2
    MaxFaults = 1
PROPERTIES
    ChecksGate
