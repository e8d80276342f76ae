SPECIFICATION Spec
CONSTANTS
  Trades = {t1}
  Prices = {1, 2, 3}
  Ticks = {1}
  MaxUnits = 2
INVARIANTS BooksBalance TrailBehindBest
