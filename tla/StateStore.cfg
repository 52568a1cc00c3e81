SPECIFICATION Spec
CONSTANTS
    ThreadID = {"t1", "t2"}
    TurnID = {"u1", "u2", "u3"}
    ItemID = {"i1", "i2"}
    MaxThreads = 1
    MaxTurnsPerThread = 2
    MaxItemsPerTurn = 1
    Status = {"inProgress", "completed"}
    Diff = {"", "d"}
    Events <- AllEvents
INVARIANTS
    StoreOK
    WriteLands
PROPERTIES
    EvictsOldest
