SPECIFICATION Spec
CHECK_DEADLOCK FALSE
CONSTANTS
    e1 = e1  e2 = e2  a1 = a1  c1 = c1  c2 = c2
    i1 = i1  m1 = m1  v1 = v1  v2 = v2  s1 = s1  s2 = s2
    None = None
    Execs = {e1}
    Streams <- Streams1
    LineStreams = {s1}
    Tasks <- LineTasks
    Order <- LineOrder
    Dep <- LineDep
    Upstream <- LineDep
    Executor <- LineExecutor
    Stream <- LineStream
    StreamDep <- NoStreamDep
    Reviewed = {}
    Inherits = {}
    Replayable = {c1}
    MaxAttempts = 2
    MaxCrashes = 0
INVARIANTS
    WritesSerial
