\* Scheduler, processes and programs, one at a time.
SPECIFICATION Spec
CONSTANTS
    t1 = t1
    t2 = t2
    t3 = t3
    NoTask = NoTask
    Off = Off
INVARIANTS
    TasksScheduledOnce
    FamilySafe
    TerminalOwned
PROPERTY TasksMoveOn
\* A kernel that has panicked stops.
CHECK_DEADLOCK FALSE
