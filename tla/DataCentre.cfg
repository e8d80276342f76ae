SPECIFICATION Spec
CONSTANTS
  Sources = {"angel_one"}
  None = None
  Latencies = {500, 900}
  Samples = 2
  HeartbeatWarning = 0
  HeartbeatCritical = 1
  ReconnectWindow = 1
  ReconnectThreshold = 2
  Ids = {p1, p2}
  Feeds = {"spot_tick", "macro_data"}
  Prices = {1, 2}
  Keep <- KeepTicks
  StuckAfter = 0
  MaxTicks = 3
  MaxCandles = 2
  MaxNow = 2
  MaxCalls = 4
SYMMETRY IdSymmetry
INVARIANTS CandlesMatchTicks GapCostsOnePacket StuckAreFound BadStateIsSignalled
