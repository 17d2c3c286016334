\* Heap, page tables and address spaces, one at a time.
SPECIFICATION Spec
CONSTANTS
    CPUs = {c1, c2}
    pa = pa
    pb = pb
    pk = pk
    Off = Off
SYMMETRY Symmetry
INVARIANTS
    HeapSafe
    FramesSafe
    RangesSafe
PROPERTY ImplementsAddressMap
\* A kernel that has panicked stops.
CHECK_DEADLOCK FALSE
