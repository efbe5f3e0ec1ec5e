\* Three assignments to one worker, whose queue orders a clock that steps back shuffles.
SPECIFICATION Spec
CONSTANTS
    m = w
    w = w
    Task = {t1, t2, t3}
    Principal = {w}
    Key = {k1, k2, k3}
    Uuid = {}
    Data = {d1}
    Generation = {NoGeneration}
    CanAssign = {}
    Coordinator = {}
    Manages = {}
    AnchorWriter = {}
    Requests = {"assign", "start", "report", "cancel", "reconcile"}
    ReportStatus = {"COMPLETED"}
    ClockSteps = {"order"}
    MaxClock = 3
    MaxDepth = 2
    MaxEdits = 0
    Holds <- NeverHeld
    MaxFaults = 1
    NoTask = NoTask
    NoKey = NoKey
    NoGeneration = NoGeneration
    NoEvent = NoEvent
    NoData = NoData
    NoPrincipal = NoPrincipal
SYMMETRY Symm
PROPERTY ImplementsLane
