SPECIFICATION Spec
CONSTANTS
    c1 = c1
    c2 = c2
    k1 = k1
    Caller = {c1, c2}
    Closer = {k1}
    ReadLoop = ReadLoop
    Uses <- MCUses
    MaxCalls = 3
    MaxOutput = 3
INVARIANTS
    TypeOK
    HandshakeOrder
    SafeDelivery
    SafeClose
    PendingOwned
    FirstAnswerWins
CHECK_DEADLOCK FALSE
