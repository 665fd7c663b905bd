SPECIFICATION LiveSpec
CONSTANTS
    b1 = b1
    b2 = b2
    u1 = u1
    u2 = u2
    Sessions = {s1}
    Streams = {b1, b2, u1, u2}
    Kinds = {"bidirectional", "unidirectional"}
    SessionOf <- MCSessionOf
    KindOf <- MCKindOf
    MaxStreams = 2
    MaxOfKind <- MCMaxOfKind
    IdleTimeout = 1
INVARIANTS TrackingExact
PROPERTIES IdleCloseJustified TrackingProgress
CHECK_DEADLOCK FALSE
