CONSTANTS
    Tasks = {t1, t2}
    IdleTasks = {}
    Leaders = {}
    NoTask = NoTask
SPECIFICATION Spec
CHECK_DEADLOCK FALSE
INVARIANTS
    QueuedTaskSleeps
