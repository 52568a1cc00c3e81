SPECIFICATION FairRunSpec
CONSTANTS
    Wait <- RunWaits
    Event <- RunEvents
    Reply = {"nothing"}
    MaxEvents = 2
    MaxWaiters = 1
    MaxRequests = 1
    MaxPolicies = 0
    MaxResponses = 0
    MaxAnswered = 0
    MaxHandlers = 0
    MaxOutput = 2
    Flags <- RunFlags
INVARIANTS
    RunTypeOK
    EventsReachScript
    EarlyWaitSees
    VerdictTellsFirst
PROPERTIES
    RunEnds
CHECK_DEADLOCK FALSE
