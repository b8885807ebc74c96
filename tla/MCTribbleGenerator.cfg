SPECIFICATION TribbleSpec
CONSTANTS
  Nonterminals <- MCNonterminals
  Terminals    <- MCTerminals
  Separators   <- MCSeparators
  StartRule    = "S"
  Grammar      <- MCGrammar
  CostMap      <- MCCostMap
  CostBound    = 1
  Tables       <- MCTables
  MaxDepths    = 4
  Num          = 3
  KValue       = 3
  KPaths       <- MCKPaths
  PrefixDict   <- MCPrefixes
INVARIANTS
  GuidedTrees
  GuidedHeightBounded
PROPERTIES
  OffTargetWhenCornered
  GeneratorEnds
