SPECIFICATION MCSpec
CONSTANTS
    Parts = {"pages", "accounts", "delegation", "context", "search", "transport"}
    PgClient = {c1, c2}
    PgAnswers <- SomeAnswers
    PgLimits = {2, 4}
    PgOwn <- OwnLimits
    PgTtl = 1
    MaxPgCalls = 2
    MaxPgFaults = 1
    MaxPgClock = 3
    AcRequest = {c1, c2}
    AcName = {n}
    AcSettings <- AllHandlers
    RateMax = 2
    RateWindow = 1
    CodeTtl = 0
    MaxAcOps = 4
    MaxAcFaults = 1
    MaxAcClock = 2
    DgTask = {t1, t2, t3}
    DgClient = {c1, c2}
    DgPrincipal = {m, w1}
    Manager = m
    PrincipalOf <- Callers
    MayAssignTo <- OfManager
    DgManages <- OfManager
    DgKey = {g}
    Site = {s}
    MaxAttempt = 2
    PortfolioDepth = 3
    DgHolds <- HoldLists
    DgSettings <- AllDelegations
    NoDgTask = NoDgTask
    NoDgKey = NoDgKey
    NoSite = NoSite
    CxDoc = {i1, i2, i3, b1}
    NoCxDoc = NoCxDoc
    CxBase <- BaseDocs
    CxWorlds <- AllWorlds
    CxLinkLimit = 4
    CxHeader = 1
    CxFocuses = 1
    CxLeast = 1
    CxSizes = {1, 9}
    MaxCxCalls = 2
    MaxCxEdits = 1
    SrId = {i1, i2}
    SrContent = {a1, a2}
    SrSeat = {w1, w2}
    SrPublic = SrPublic
    SrNobody = SrNobody
    SrClient = {c1, c2}
    SrNear <- Near
    SrWords <- ByWords
    SrSettings <- Searchers
    SrLimit = 1
    MaxSrFaults = 1
    NoSrDoc = NoSrDoc
    TrClient = {c1, c2}
    TrSeat = {w1, w2}
    NoSeat = NoSeat
    TrSettings <- AllTransports
    TrLag = 2
    c1 = c1
    c2 = c2
    n = n
    m = m
    w1 = w1
    w2 = w2
    t1 = t1
    t2 = t2
    t3 = t3
    g = g
    s = s
    i1 = i1
    i2 = i2
    i3 = i3
    a1 = a1
    a2 = a2
    b1 = b1
INVARIANT AnswerWhole
INVARIANT FreshServed
INVARIANT AnsweredSaved
INVARIANT IdentityOnce
INVARIANT WakesHeads
INVARIANT NothingSilent
INVARIANT SearchServes
INVARIANT AnswersFind
PROPERTY PolledSeen
CHECK_DEADLOCK FALSE
