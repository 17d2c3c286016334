\* Two keystrokes fill the buffer, and it wraps around.
SPECIFICATION TtyFairSpec
CONSTANTS
    Tasks = {r, k}
    IdleTasks = {k}
    Leaders = {}
    NoTask = NoTask
    Reader = r
    Keyboard = k
    BufferSize = 3
    MaxKeys = 5
    IntrKeys = {4}
    Lengths = {1, 3}
INVARIANT InputSafe
PROPERTY InputIsRead
\* A kernel that has panicked stops.
CHECK_DEADLOCK FALSE
