\* Git on machines that delay stores and machines that do not; sidecars of
\* one process and of several; timers with restarts; two calls
\* of one seat, with a stream of that seat and one of another.
SPECIFICATION MCSpec
CONSTANTS
    Writer = {v1, v2}
    Worker = {k1, k2, k3}
    Record = {a, b}
    Seat = {s}
    SideWriter = {w1, w2}
    MaxStamp = 3
    MaxCrashes = 1
    TmSeat = {u1}
    TmType = {"focus"}
    MaxRecords = 2
    MaxSeatSteps = 1
    MaxTmFaults = 2
    q1 = q1
    q2 = q2
    l1 = l1
    l2 = l2
    SmCaller = {q1, q2}
    SmStream = {l1, l2}
    SmSeatOf <- SeatOf
    OutboundSize = 1
    BroadcastSize = 1
    MaxSmCalls = 3
    MaxSmLinks = 2
INVARIANT OneWorker
INVARIANT NothingStranded
INVARIANT OneTimerEach
INVARIANT Durable
PROPERTY Snapshotted
PROPERTY KeepsFiring
PROPERTY SamplingEnds
CHECK_DEADLOCK FALSE
