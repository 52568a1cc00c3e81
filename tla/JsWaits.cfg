SPECIFICATION FairSpec
CONSTANTS
    Wait <- TurnWaits
    Event <- TurnEvents
    Reply = {"nothing"}
    MaxEvents = 2
    MaxWaiters = 2
    MaxRequests = 1
    MaxPolicies = 0
    MaxResponses = 0
    MaxAnswered = 0
    MaxHandlers = 0
INVARIANTS
    WaitTakesFirstMatch
    TimersMatchWaits
PROPERTIES
    PromisesSettle
CHECK_DEADLOCK FALSE
