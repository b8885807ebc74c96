SPECIFICATION Spec
CONSTANTS
  Trees    <- MCTrees
  SeqsOf   <- MCSeqsOf
  Lines    <- MCLines
  Coverage <- MCCoverage
  Slow     = {"t2"}
  Crashing = {"t1", "t3"}
  Shifted  = TRUE
  NoVector = NoVector
  BatchSize = 3
  MaxIter   = 2
  Versions  = {"rsfuzz", "naive", "select", "capture"}
INVARIANTS
  RecordsAgree
  RulesFresh
PROPERTIES
  FollowsSchedule
  SelectsLargest
  CrashesSaved
