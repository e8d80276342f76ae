SPECIFICATION Spec
CONSTANTS
  Seller = Seller
  NoTrade = NoTrade
  Trades = {t1, Seller}
  Action <- MCAction
  PlanSl <- MCPlanSl
  FillPrice = 2
  Sls = {3}
  LotUnits = 2
  Modes = {"REAL"}
  Weathers = {
    {"partial", "outage", "emergency", "override", "eod"},
    {"partial", "rejection", "remainder", "emergency", "eod"},
    {"partial", "rejection", "remainder", "override"}}
  SharedManagers = TRUE
  MaxOrders = 2
  MaxRetries = 1
  Threshold = 2
CHECK_DEADLOCK FALSE
INVARIANTS OneActivePosition
PROPERTIES LedgerSpec
