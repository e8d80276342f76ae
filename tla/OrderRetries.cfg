SPECIFICATION RetriesSpec
CONSTANTS
  MaxOrders = 6
  MaxRetries = 2
  Threshold = 2
  Redelivery = FALSE
INVARIANTS BreakerMatchesFailures RetriesBoundedByBreaker OneWorkingOrder
