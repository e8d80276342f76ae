SPECIFICATION DeskSpec
CONSTANTS
  None = None
  Modes = {"ALERT", "REAL"}
  MaxLosses = 1
  Cooldowns = {2}
  MaxCandle = 3
  MaxDay = 1
  Calls <- MCCalls
  Signs <- MCSigns
  MaxAsked = 0
INVARIANTS PlanIsSane WhatIsRequiredIsDone
PROPERTIES LossesLockSameManager RestsItsCandles OnlyWhileFresh TradeIsBacked
