\* A week of daily summaries in the vault.
SPECIFICATION MCSpec
CONSTANTS
    Parts = {"memory"}
    q1 = q1
    q2 = q2
    Focus = {1, 2, 3}
    Mind = {"work"}
    FocusClient = {c1, c2}
    MaxFocuses = 2
    FocusSettings <- FocusRequests
    MemFact = {"fact"}
    MemRunner = {q1, q2}
    MemSettings <- VaultDays
    ObjectKey = {o}
    ObjectClient = {c1, c2}
    Text = {"t", "u"}
    NoText = ""
    AnyEtag = "any"
    MaxObjectSteps = 7
    StId = {a, b}
    StClient = {c1, c2}
    StSettings <- AllStores
    LegacyData <- AllLegacy
    AiSlugs <- Proposals
    MaxMgFaults = 2
    o = o
    a = a
    b = b
    c = c
    d = d
    e = e
    s1 = s1
    s2 = s2
    c1 = c1
    c2 = c2
    n = n
    Id = {a, b, c, d, e}
    Seat = {s1, s2}
    Client = {c1, c2}
    Name = {n}
    Slugs <- SlugsOfName
    Operators = {s1}
    Manages <- ManagesOne
    Settings <- AllSettings
CHECK_DEADLOCK FALSE
PROPERTY WeekDigested
