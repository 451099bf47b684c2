SPECIFICATION FairSpec
CONSTANTS
    o1 = o1
    o2 = o2
    none = none
    None = none
    Orders = {o1}
    MaxCalls = 1
    MaxVersion = 2
    MaxWire = 2
    MaxIntents = 1
    MayDrop = TRUE
INVARIANTS
    TypeOK
    NothingAhead
PROPERTIES
    ReconnectRepairs
CHECK_DEADLOCK FALSE
