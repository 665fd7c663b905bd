SPECIFICATION LiveDispatchSpec
CONSTANTS
    h1 = h1
    h2 = h2
    Events = {e1, e2}
    Parameters = {p1, p2}
    Named <- MCNamed
    Fallback <- MCFallback
INVARIANTS HandlersReached
PROPERTIES  EventsEnd
CHECK_DEADLOCK FALSE
