CONSTANTS
    MemoryMaps <- SampleMaps
    WordBits = 4
    WordsPerPage = 2
    MaxRegions = 5
SPECIFICATION FairSpec
\* A kernel that has panicked stops.
CHECK_DEADLOCK FALSE
INVARIANTS
    PagesSafe
    CountersExact
PROPERTIES
    BootCompletes
    ImplementsPageAllocator
