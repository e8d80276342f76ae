SPECIFICATION Spec
CONSTANTS
  None = None
  Window = 1
  Lookback = 9
  MinGap = 1
  Confirmations = 2
  ChochCandles = 5
  RsiPeriod = 2
  Oversold = 30
  Overbought = 70
  FastPeriod = 2
  SlowPeriod = 3
  AtrPeriod = 2
  ProfilePeriod = 3
  Buckets = 4
  ArrayPeriod = 2
  LiquidityWindow = 1
  SweepThreshold = 0
  MinChange = 5
  IvHigh = 30
  IvLow = 15
  TopWalls = 1
  Stamped = TRUE
  Open = 880
  BufferMax = 6
  Candles <- FourCandles
  Ordinary <- AMinute
  Unusual <- UnusualCycles
  Contracts <- HandMade
  MaxCandles = 7
  MaxUnusual = 3
  MaxBefore = 1
  MaxOnce = 3
CHECK_DEADLOCK FALSE
INVARIANTS ConfirmedByCloses ValueAreaHolds LateEngineIsSilent CooldownEnds EverythingAccepted
PROPERTY LevelsStay
