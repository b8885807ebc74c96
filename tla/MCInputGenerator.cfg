SPECIFICATION FairSpec
CONSTANTS
  Nonterminals <- MCNonterminals
  Terminals    <- MCTerminals
  Separators   <- MCSeparators
  StartRule    = "S"
  Grammar      <- MCGrammar
  CostMap      <- MCCostMap
  CostBound    = 2
  Tables       <- MCTables
  MaxDepths    = 5
  Num          = 2
INVARIANTS
  MatchedExact
  HeightBounded
  SequencesFound
PROPERTIES
  CompletesOnlyWhenCornered
  AllInputsWritten
  DerivesGrammar
