SPECIFICATION Spec
CONSTANTS
    Kind = {"notification", "request"}
    Method = {"turn/completed", "item/started"}
    RingSize <- RingSizes
    MaxSubs = 3
    MaxEvents = 3
INVARIANTS
    RegistryExact
    DeliveredExactly
    RingIsTail
CHECK_DEADLOCK FALSE
