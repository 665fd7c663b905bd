SPECIFICATION LiveVirtualSpec
CONSTANTS
    Sessions = {s1, s2}
    VirtualStreams = {t1, t2}
    MaxSessions = 1
    QueueSize = 1
    NoSession = NoSession
INVARIANTS VirtualStateExact
PROPERTIES StopsAndRejects
CHECK_DEADLOCK FALSE
