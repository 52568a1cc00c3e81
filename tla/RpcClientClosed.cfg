SPECIFICATION Spec
CONSTANTS
    c1 = c1
    c2 = c2
    k1 = k1
    Caller = {c1, c2}
    Closer = {k1}
    ReadLoop = ReadLoop
    Uses <- MCUses
    MaxCalls = 2
    MaxOutput = 1
PROPERTIES
    ClosedIsTerminal
CHECK_DEADLOCK FALSE
