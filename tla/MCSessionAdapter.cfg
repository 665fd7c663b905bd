SPECIFICATION LiveSpec
CONSTANTS
    Incoming = {i1, i2}
    Outgoing = {o1, o2}
INVARIANTS NoStreamEscapes
PROPERTIES HandedToReader NothingPends
CHECK_DEADLOCK FALSE
