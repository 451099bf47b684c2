SPECIFICATION Spec
CONSTANTS
    i1 = i1
    i2 = i2
    all = all
    some = some
    svc1 = svc1
    svc2 = svc2
    none = none
    None = none
    Items = {i1, i2}
    Filters = {all, some}
    NoFilter = all
    Listed <- ListedBy
    Logs <- LogsOfThree
    NoLog <- EmptyLog
    Sources = {svc1, svc2}
    PageSize = 1
    BroadSize = 2
    MaxRevision = 2
    MaxLoads = 2
INVARIANTS
    TypeOK
    SessionIsStored
    PagesNeedAdministrator
    FormMatchesSelection
    ShownIsApplied
    PageOfTheWholeLog
CHECK_DEADLOCK FALSE
