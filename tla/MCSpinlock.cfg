CONSTANTS
    CPUs = {c1, c2}
    TicketSpace = 3
SPECIFICATION FairSpec
INVARIANTS
    MutualExclusion
    InterruptSafe
PROPERTIES
    StarvationFree
    ImplementsFifoLock
