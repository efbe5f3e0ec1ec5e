\* A manager and a worker, two tasks, two keys, one fault: retries of interrupted calls.
SPECIFICATION Spec
CONSTANTS
    m = m
    w = w
    Task = {t1, t2}
    Principal = {m, w}
    Key = {k1, k2}
    Uuid = {}
    Data = {d1}
    Generation = {NoGeneration}
    CanAssign <- ManagerAcl
    Coordinator = {}
    Manages <- ManagerOf
    AnchorWriter = {}
    Requests = {"assign", "start", "report", "cancel", "reconcile"}
    ReportStatus = {"COMPLETED"}
    ClockSteps = {}
    MaxClock = 0
    MaxDepth = 2
    MaxEdits = 0
    Holds <- NeverHeld
    MaxFaults = 1
    NoTask = NoTask
    NoKey = NoKey
    NoGeneration = NoGeneration
    NoEvent = NoEvent
    NoData = NoData
    NoPrincipal = NoPrincipal
SYMMETRY Symm
INVARIANT SingleReservation
INVARIANT AssignOnce
INVARIANT ProjectionExplained
PROPERTY StatusForward
