SPECIFICATION Spec
CONSTANTS
  MaxCalls = 3
  MaxAwaits = 1
CHECK_DEADLOCK FALSE
PROPERTIES
  EveryRequestAnswered
