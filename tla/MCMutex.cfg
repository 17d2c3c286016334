CONSTANTS
    Tasks = {t1, t2, t3, t4}
    IdleTasks = {}
    Leaders = {t1}
    NoTask = NoTask
SPECIFICATION FairSpec
\* A kernel that has panicked stops.
CHECK_DEADLOCK FALSE
INVARIANTS
    WaitersSafe
    NoOrphanWaiters
PROPERTIES
    WaitersDrain
