------------------------------ MODULE MCDerives ------------------------------
(* InputGenerator implements Derivation: the sentential form is the yield of *)
(* the tree under construction, read through the ranges of children, with    *)
(* the partly concatenated next level below the last one.                    *)
EXTENDS MCInputGenerator
LOCAL INSTANCE SequencesExt

\* tree_to_string, on the tree as it stands: an open node yields its symbol.
\* The levels are read from the last one up, each over the yields of the nodes
\* of the one below it.
Yields(level, below) ==
  [i \in DOMAIN level |->
     LET kids == level[i].kids
         first == CHOOSE c \in kids : \A e \in kids : c <= e
         upTo[k \in Nat] == IF k = 0 THEN <<>> ELSE upTo[k - 1] \o below[first + k - 1]
     IN  IF level[i].status = "inner" THEN upTo[Cardinality(kids)]
                                      ELSE <<level[i].symbol>>]

TreeToString == FoldRight(Yields, Append(tree, next), <<>>)[1]

D == INSTANCE Derivation WITH form <- TreeToString, produced <- inputs

\* Every behaviour of the guided generator derives sentences of the grammar:
\* guidance restricts the choice and the order, never the language, and the
\* breadth-first offsets spell the expansions in the right order.
DerivesGrammar == D!Spec
==============================================================================
