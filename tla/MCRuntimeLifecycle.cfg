SPECIFICATION LiveSpec
CONSTANTS
    Servers = {a1, a2}
    NoServer = NoServer
INVARIANTS RunningServes StateTruthful
PROPERTIES ImplementsLifecycle RuntimeProgress
CHECK_DEADLOCK FALSE
