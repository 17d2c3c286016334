CONSTANTS
    Tasks = {t1, t2}
    IdleTasks = {}
    Leaders = {t1}
    NoTask = NoTask
SPECIFICATION Spec
CHECK_DEADLOCK FALSE
INVARIANTS
    WaiterStateValid
