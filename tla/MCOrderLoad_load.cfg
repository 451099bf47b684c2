SPECIFICATION Spec
CONSTANTS
    v1 = v1
    t1 = t1
    t2 = t2
    none = none
    Users = {v1}
    Tokens = {t1, t2}
    MainToken = t1
    MaxKeys = 3
    OpenOrders = 2
    ReplayableKeys = 2
    MaxResent = 1
    MaxTimeouts = 1
    Profiles <- LoadProfiles
    None = none
INVARIANTS
    TypeOK
    CancelsEachOrderOnce
    NoSelfMadeRefusal
    LinksMatchTree
CHECK_DEADLOCK FALSE
