SPECIFICATION Spec
CHECK_DEADLOCK FALSE
CONSTANTS
    e1 = e1  e2 = e2  a1 = a1  c1 = c1  c2 = c2
    i1 = i1  m1 = m1  v1 = v1  v2 = v2  s1 = s1  s2 = s2
    None = None
    Execs = {e1}
    Streams <- Streams2
    LineStreams = {s1, s2}
    Tasks <- HandoffTasks
    Order <- HandoffOrder
    Dep <- HandoffDep
    Upstream <- HandoffDep
    Executor <- HandoffExecutor
    Stream <- HandoffStream
    StreamDep <- HandoffStreamDep
    Reviewed = {}
    Inherits = {v1, v2}
    Replayable = {}
    MaxAttempts = 2
    MaxCrashes = 0
INVARIANTS
    DependencyOrder
    HandoffComplete
