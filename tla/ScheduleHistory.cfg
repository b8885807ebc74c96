SPECIFICATION FairHistorySpec
CONSTANTS
  Lines = {l1, l2, l3}
  MaxChance = 10
  MaxBatches = 9
INVARIANTS
  ChanceBelowMax
  UpdatesOnTime
PROPERTIES
  UpdatesRecur
