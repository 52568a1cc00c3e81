SPECIFICATION Spec
CONSTANTS
    Wait <- NoWaits
    Event <- ApprovalEvents
    Reply = {"decision", "promise", "thenable", "nothing"}
    MaxEvents = 2
    MaxWaiters = 0
    MaxRequests = 0
    MaxPolicies = 2
    MaxResponses = 1
    MaxAnswered = 2
    MaxHandlers = 2
INVARIANTS
    PolicyInForce
    PolicyAnswersOnce
    HandlersHearAll
CHECK_DEADLOCK FALSE
