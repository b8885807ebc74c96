SPECIFICATION Spec
CONSTANTS
  Modes = {"baseline", "prepared", "full"}
  CaptureTimes = {0, 3600}
  Lines = {1, 2}
  Missing = Missing
  Torn = Torn
  NoVector = NoVector
  MaxIter = 3
INVARIANTS
  RulesNearlyCurrent
  FilesAgree
  LateCrashLosesNothing
