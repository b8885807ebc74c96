SPECIFICATION UpdateSpec
CONSTANTS
  RuleDict <- MCGrammar
  Analysed <- MCAnalysed
  Versions = {"rsfuzz"}
  MaxLists = 2
INVARIANT
  CapturedAvoided
