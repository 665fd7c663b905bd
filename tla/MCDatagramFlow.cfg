SPECIFICATION Spec
CONSTANTS
    d1 = d1
    d2 = d2
    d3 = d3
    Sessions = {s1, s2}
    Datagrams = {d1, d2, d3}
    StreamTasks = {q1}
    Size <- MCSize
    MaxDatagramSize = 2
    QueueCapacity = 1
    MaxQueuedDatagramBytes = 3
    MaxConcurrent = 1
    MaxPending = 1
    HandlerLimit = 2
INVARIANTS AccountsExact NoLostWakeup
CHECK_DEADLOCK FALSE
