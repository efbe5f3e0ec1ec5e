\* Messages and manager edits and a moving seat pointer around an interrupted start.
SPECIFICATION Spec
CONSTANTS
    m = m
    w = w
    Task = {t1}
    Principal = {m, w}
    Key = {k1}
    Uuid = {u1, u2}
    Data = {d1}
    Generation = {NoGeneration}
    CanAssign <- ManagerAcl
    Coordinator = {}
    Manages <- ManagerOf
    AnchorWriter = {w}
    Requests = {"assign", "start", "message", "update"}
    ReportStatus = {"COMPLETED"}
    ClockSteps = {}
    MaxClock = 0
    MaxDepth = 2
    MaxEdits = 1
    Holds <- NeverHeld
    MaxFaults = 1
    NoTask = NoTask
    NoKey = NoKey
    NoGeneration = NoGeneration
    NoEvent = NoEvent
    NoData = NoData
    NoPrincipal = NoPrincipal
SYMMETRY Symm
PROPERTY LastEventForward
CHECK_DEADLOCK FALSE
