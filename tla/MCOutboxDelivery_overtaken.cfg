SPECIFICATION Spec
CONSTANTS
    o1 = o1
    o2 = o2
    s1 = s1
    poller = poller
    none = none
    Orders = {o1}
    Shards = {s1}
    ShardOf <- OneShard
    Capacity = 1
    Poller = poller
    None = none
    MaxEvents = 2
    MaxReports = 1
    MaxFaults = 0
PROPERTY NoReportOvertakes
CHECK_DEADLOCK FALSE
