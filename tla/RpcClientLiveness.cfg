SPECIFICATION FairSpec
CONSTANTS
    c1 = c1
    c2 = c2
    k1 = k1
    Caller = {c1}
    Closer = {k1}
    ReadLoop = ReadLoop
    Uses <- MCOneCaller
    MaxCalls = 3
    MaxOutput = 2
PROPERTIES
    ImplementsRpcCall
    CallsReturn
    AnsweredCallReturns
    ReadLoopEnds
CHECK_DEADLOCK FALSE
