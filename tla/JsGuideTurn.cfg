SPECIFICATION Spec
CONSTANTS
    Wait <- OneWait
    Event <- GuideEvents
    Reply = {"nothing"}
    MaxEvents = 1
    MaxWaiters = 1
    MaxRequests = 0
    MaxPolicies = 0
    MaxResponses = 0
    MaxAnswered = 0
    MaxHandlers = 0
INVARIANTS
    GuideTurnIsSeen
CHECK_DEADLOCK FALSE
