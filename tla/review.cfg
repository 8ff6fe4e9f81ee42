SPECIFICATION FairSpec
CHECK_DEADLOCK FALSE
CONSTANTS
    e1 = e1  e2 = e2  a1 = a1  c1 = c1  c2 = c2
    i1 = i1  m1 = m1  v1 = v1  v2 = v2  s1 = s1  s2 = s2
    None = None
    Execs = {e1}
    Streams <- Streams1
    LineStreams = {}
    Tasks <- ReviewTasks
    Order <- ReviewOrder
    Dep <- ReviewDep
    Upstream <- ReviewDep
    Executor <- ReviewExecutor
    Stream <- ReviewStream
    StreamDep <- NoStreamDep
    Reviewed = {a1}
    Inherits = {}
    Replayable = {a1}
    MaxAttempts = 2
    MaxCrashes = 0
PROPERTIES
    PumpReturns
