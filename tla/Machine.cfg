\* A part may come to its end: the machine has started, halted after a panic, or a
\* bus has been scanned.
CHECK_DEADLOCK FALSE
SPECIFICATION Spec
CONSTANTS
    Off = Off
    \* Four lines for three vectors.
    Cards = {"card1", "card2"}
    Pins = 3
    Gsis = {0, 2, 3}
    HwVectors = 3
    \* Two CPUs that write text, and two users of graphics.
    Writers = {1, 2}
    Users = {"u1", "u2"}
    wc = 2
    hc = 2
    MaxRows = 3
    \* Three CPUs of which any may boot, and an entry of the MADT for one that is not there.
    Ids = {0, 1, 2}
    Absent = {7}
    MaxCpus = 3
    Devs = {0, 1}
    Fns = {0, 1}
    MaxDepth = 3
    Word = 16
    Sleepers = {1, 2}
    Queue = 0
    Times = {0, 2, 3, 5}
    Tick = 2
    \* One CPU with the keys that modify, and two CPUs with a key of the table and one behind it.
    Openers = {"t1", "t2"}
    Ring = 3
    Keys1 = {"lshift", "lctrl", "rctrl"}
    Keys2 = {"c", "f1"}
    Cpus = {"cpu1", "cpu2", "cpu3"}
INVARIANTS
    StartSafe
    PanicSafe
    RightHandler
    WokenOnTick
    ScanSafe
    ReadsDisk
    ReadsOwnDisk
    ProgramInPlace
    ConsoleSafe
PROPERTY WaitsEnd
