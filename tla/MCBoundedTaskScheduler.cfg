SPECIFICATION Spec
CONSTANTS
    Tasks = {t1, t2, t3, t4, t5}
    Waiters = {w1, w2}
    MaxConcurrent = 2
    MaxPending = 2
INVARIANTS SchedulerExact SettledExactlyOnce NoStrandedWaiter
PROPERTIES StartsInOrder SchedulerProgress
CHECK_DEADLOCK FALSE
