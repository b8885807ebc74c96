SPECIFICATION Spec
CONSTANTS
  MaxPromises  = 3
  MaxReactions = 2
  MaxThenables = 2
CHECK_DEADLOCK FALSE
INVARIANTS
  OneResolver
  RejectionsTracked
  ReactionsInOrder
  AdoptsOutcome
PROPERTIES
  JobsServed
