SPECIFICATION FairSpec
CONSTANTS
    g1 = g1
    g2 = g2
    t1 = t1
    u1 = u1
    None = None
    Goroutine = {g1, g2}
    Thread = {t1}
    Turn = {u1}
    Event <- Events
    Composed <- Composition
    MaxInt = 3
    Number <- Numbers
    IntOf <- Amd64
    FileChanges <- Changes
    LineLimits = {1, 2, 3}
    Commands <- RunCommands
    CommandActions <- Actions
    SafeCommands = {"safe"}
    MaxIterations = 1
    MaxEvents = 3
INVARIANTS
    OneGatePerTurn
    TestBudget
    CompactsOnce
    ErrorEndsDispatch
    AutopilotJudgesAll
PROPERTIES
    DispatchEnds
CHECK_DEADLOCK FALSE
