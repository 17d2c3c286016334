CONSTANTS
    Tasks = {r, k}
    IdleTasks = {}
    Leaders = {}
    NoTask = NoTask
    Reader = r
    Keyboard = k
    BufferSize = 3
    MaxKeys = 1
    IntrKeys = {}
    Lengths = {1, 3}
SPECIFICATION TtySpec
CHECK_DEADLOCK FALSE
INVARIANTS
    WakeFindsSleeper
