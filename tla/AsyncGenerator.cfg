SPECIFICATION Spec
CONSTANTS
  MaxCalls  = 6
  MaxAwaits = 3
CHECK_DEADLOCK FALSE
INVARIANTS
  ContinuationMatchesState
  FrameFreedOnce
  RequestsAccounted
