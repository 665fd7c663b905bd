SPECIFICATION Spec
CONSTANTS
    Tasks = {t1, t2, t3, t4}
    Concurrency = 1
    Pending = 2
INVARIANTS BudgetExact NoIdleSlotWhileWaiting
PROPERTIES NoOvertaking WaiterServed
CHECK_DEADLOCK FALSE
