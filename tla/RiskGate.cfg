SPECIFICATION Spec
CONSTANTS
  Trades = {t1, t2}
  MaxAge = 2
  Ttl = 2
  Window = 3
  MaxTime = 6
  MaxDecisions = 2
PROPERTIES FirstAnswerStands PassesAreNews
