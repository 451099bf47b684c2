SPECIFICATION StrategySpec
CONSTANTS
  o1 = o1
  o2 = o2
  o3 = o3
  r1 = r1
  r2 = r2
  d1 = d1
  d2 = d2
  none = none
  NoOrder = none
  Orders <- ChainOrders
  Direct <- FanDirect
  Parents <- FanParents
  Edited <- NoOrders
  References = {r1, r2}
  Collides <- NoCollision
  MaxQuantity = 2
  MaxVersion = 0
  LiveMax = 3
  Desks = {d1}
  DeskOf <- OneDesk
INVARIANTS
  RollupIsExact
PROPERTIES
  CancelIsResolved
CHECK_DEADLOCK FALSE
