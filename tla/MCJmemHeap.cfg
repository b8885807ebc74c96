SPECIFICATION Spec
CONSTANTS
  HeapSize  = 10
  Alignment = 2
  GCLimit   = 4
  Owners    = {o1, o2, o3}
  Sizes     = {2, 3, 5}
  NoBlock   = NoBlock
  Nobody    = Nobody
SYMMETRY OwnerSymmetry
CHECK_DEADLOCK FALSE
INVARIANTS
  HeapPartitioned
  ContentsKept
  SizeAccounts
  FailsOnlyWhenFull
