SPECIFICATION Spec
CONSTANTS
    Values = {a, b, c}
    Capacity = 3
    Undefined = undefined
INVARIANTS SlotsExact
PROPERTIES RefinesFifo
