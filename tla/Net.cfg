\* The parts of the network, one at a time.
SPECIFICATION Spec
CONSTANTS
    Tasks = {1, 2}
    Readers = {1, 2}
    MaxPackets = 3
    \* Requests 1 and 2, or 239 and 240.
    Procs = {1, 2}
    Starts = {0, 238}
    Rounds = 2
    MaxArrived = 3
    \* Both next hops are in one chain.
    Hops = {1, 3}
    Askers = {1}
    Broadcast = 9
    Buckets = 2
    RxCount = 3
    TxCount = 3
    MaxRx = 5
    MaxTx = 4
    Cpus = {1, 2}
    Servers <- TwoServers
    MaxRuns = 2
    MaxQueue = 2
    Bits = {0, 1, 2}
INVARIANTS
    SocketsSafe
    SendersListed
    RingsSafe
    ConfiguredAsOffered
PROPERTY WaitsEnd
\* A kernel that has panicked stops, and so do bounded numbers of packets and runs.
CHECK_DEADLOCK FALSE
