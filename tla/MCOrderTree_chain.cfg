SPECIFICATION Spec
CONSTANTS
  o1 = o1
  o2 = o2
  o3 = o3
  r1 = r1
  r2 = r2
  d1 = d1
  d2 = d2
  none = none
  NoOrder = none
  Orders <- ChainOrders
  Desks = {d1}
  DeskOf <- OneDesk
  Direct <- ChainDirect
  Parents <- ChainParents
  Edited = {o3}
  References = {r1, r2}
  Collides <- RollupCollision
  MaxQuantity = 2
  MaxVersion = 4
  LiveMax = 3
INVARIANTS
  TypeOK
  ValidateInvariantsHolds
  StoreHoldsTheLive
  CancelledStrategyHasNoLiveChild
  PendingCoversChildren
  TradedMatchesExecutions
PROPERTIES
  TerminalIsFinal
  CreditedOnce
  ModifySeesCurrentOrder
CHECK_DEADLOCK FALSE
