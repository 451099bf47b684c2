SPECIFICATION FairSpec
CONSTANTS
    c1 = c1
    c2 = c2
    a1 = a1
    a2 = a2
    b1 = b1
    f1 = f1
    f2 = f2
    Orders <- AllOrders
    OrderNamed <- Named
    Commands = {c1}
    Fills = {f1}
    OrderOf <- ClientOrderFilled
    Size = 2
    BatchSize = 2
    LogSize = 2
    MaxFaults = 1
    MaxCrashes = 1
    Attempts = 3
    None = None
    LoadMayFail = TRUE
INVARIANTS
    TypeOK
    NoDuplicateReachesDatabase
    InFlightIsLogged
    MemoryMatchesRows
    OriginalAnswer
PROPERTIES
    OrderRowNeverGoesBack
    ReplayHandlesEveryRecord
    EverythingIsWritten
    LogIsReclaimed
    FillsAreWritten
CHECK_DEADLOCK FALSE
