SPECIFICATION FairSpec
CONSTANTS
    o1 = o1
    o2 = o2
    s1 = s1
    poller = poller
    none = none
    Orders = {o1, o2}
    Shards = {s1}
    ShardOf <- OneShard
    Capacity = 1
    Poller = poller
    None = none
    MaxEvents = 2
    MaxReports = 1
    MaxFaults = 1
INVARIANTS
    TypeOK
    HandledOnceWithoutFaults
PROPERTIES
    
    EventuallyDelivered
CHECK_DEADLOCK FALSE
