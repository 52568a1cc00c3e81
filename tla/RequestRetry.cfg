SPECIFICATION FairSpec
CONSTANTS
    Caller = {"main"}
    Result <- Answered
    Policy <- Policies
    DefaultBackoff = 4
    MaxDuration = 31
    MaxUses = 2
INVARIANTS
    RepeatsOnlyRejected
    TellsLastAttempt
    BackoffInBounds
PROPERTIES
    RetryEnds
CHECK_DEADLOCK FALSE
