SPECIFICATION PlansSpec
CONSTANTS
  PlanClasses = {"SCALP", "OPTIONS_PRESSURE"}
  Window <- MCWindow
  TimeLimit = 2
  Prices = {0, 2, 3, 4}
  Margin = 1
  Plans = {p1, p2}
  LastCandle = 4
INVARIANTS NoComeback
PROPERTIES TriggersInTime
