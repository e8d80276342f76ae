SPECIFICATION Spec
CONSTANTS
  Seller = Seller
  NoTrade = NoTrade
  Trades = {t1, t2, Seller}
  Action <- MCAction
  PlanSl <- MCPlanSl
  FillPrice = 2
  Sls = {3}
  LotUnits = 2
  Modes = {"ALERT", "REAL"}
  Weathers = {{"partial", "rejection", "switch"}, {"partial", "outage"}}
  SharedManagers = TRUE
  MaxOrders = 3
  MaxRetries = 1
  Threshold = 2
CHECK_DEADLOCK FALSE
INVARIANTS ActiveIsManaged LegsMatchPosition
PROPERTIES TripBlocksEntries
