SPECIFICATION SwitchSpec
CONSTANTS
  CanCrash = TRUE
  Orders = {o1, o2}
INVARIANTS DurableLevel CriticalHasFlattened 
PROPERTIES ActivationEnds
