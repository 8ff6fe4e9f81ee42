SPECIFICATION FairSpec
CHECK_DEADLOCK FALSE
CONSTANTS
    service = service  probe = probe
    w1 = w1  w2 = w2  w3 = w3  r1 = r1
    Procs = {service, probe}
    Writes = {w1, w2, w3}
    Reads = {r1}
    Owner <- WriterOwner
    Replaces = {w3}
    MaxBoots = 2
    MaxFaults = 1
INVARIANTS
    TypeOK
    CacheIsHead
    NoConflict
PROPERTIES
    SerialSpec
    AllAnswered
