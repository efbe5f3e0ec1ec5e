\* An import of the Python server's database, whose seats have anchors.
SPECIFICATION MCSpec
CONSTANTS
    Parts = {"migration"}
    q1 = q1
    q2 = q2
    Focus = {1, 2, 3}
    Mind = {"work"}
    FocusClient = {c1, c2}
    MaxFocuses = 2
    FocusSettings <- FocusRequests
    MemFact = {"fact"}
    MemRunner = {q1, q2}
    MemSettings <- AllSizes
    ObjectKey = {o}
    ObjectClient = {c1, c2}
    Text = {"t", "u"}
    NoText = ""
    AnyEtag = "any"
    MaxObjectSteps = 7
    StId = {a, b}
    StClient = {c1, c2}
    StSettings <- AllStores
    LegacyData <- AllLegacy
    AiSlugs <- Proposals
    MaxMgFaults = 2
    o = o
    a = a
    b = b
    c = c
    d = d
    e = e
    s1 = s1
    s2 = s2
    c1 = c1
    c2 = c2
    n = n
    Id = {a, b, c, d, e}
    Seat = {s1, s2}
    Client = {c1, c2}
    Name = {n}
    Slugs <- SlugsOfName
    Operators = {s1}
    Manages <- ManagesOne
    Settings <- AllSettings

INVARIANT AnchorRestored
CHECK_DEADLOCK FALSE
