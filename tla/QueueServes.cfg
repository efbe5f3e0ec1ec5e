\* Restarts that set or lift the hold and change the generation; liveness, so no symmetry.
SPECIFICATION FairSpec
CONSTANTS
    m = w
    w = w
    Task = {t1, t2}
    Principal = {w}
    Key = {k1, k2}
    Uuid = {}
    Data = {d1}
    Generation = {NoGeneration, g1}
    CanAssign = {}
    Coordinator = {}
    Manages = {}
    AnchorWriter = {}
    Requests = {"assign", "start", "report", "cancel", "reconcile"}
    ReportStatus = {"COMPLETED"}
    ClockSteps = {}
    MaxClock = 0
    MaxDepth = 2
    MaxEdits = 0
    Holds <- Holdable
    MaxFaults = 1
    NoTask = NoTask
    NoKey = NoKey
    NoGeneration = NoGeneration
    NoEvent = NoEvent
    NoData = NoData
    NoPrincipal = NoPrincipal
PROPERTY OperatorStops
PROPERTY HeadServed
CHECK_DEADLOCK FALSE
