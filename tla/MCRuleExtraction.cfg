SPECIFICATION UpdateSpec
CONSTANTS
  RuleDict <- MCGrammar
  Analysed <- MCAnalysed
  Versions = {"rsfuzz", "naive"}
  MaxLists = 3
INVARIANTS
  CapturedOccur
  TableOccurs
  RulesLeaveTrace
  RulesReadBack
