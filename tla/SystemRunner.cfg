SPECIFICATION Spec
CONSTANTS
  Sockets = {s1, s2}
  NoSocket = NoSocket
  MaxEvents = 2
  Prices = {0, 1, 2}
  MaxMinute = 5
  DayLength = 3
  BufferMax = 2
INVARIANTS TicksInOneCandle OneLiveSocket
PROPERTIES StopEnds
