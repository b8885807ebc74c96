--------------------------- MODULE MCRuleExtraction ---------------------------
(* The inputs of a small grammar, in which the same token is reached along  *)
(* several paths:                                                           *)
(*   S -> "x" A B | "y" B    A -> B | C | C "z"    B -> A | C               *)
(*   C -> "c" | "d"                                                         *)
(* up to three levels of A and B, so that compare_subpaths meets two paths  *)
(* which it takes for parts of each other.  No input has A -> C "z", and a  *)
(* merge of the expansions of C below A puts it into the table as well.     *)
EXTENDS RuleExtraction, TLC

CONSTANT MaxLists  \* bound: the inputs of the first cluster

Alt(exp, dn) == [exp |-> exp, dn |-> dn]

MCGrammar ==
  "S" :> << Alt(<<"x", "A", "B">>, 0), Alt(<<"y", "B">>, 1) >> @@
  "A" :> << Alt(<<"B">>, 0), Alt(<<"C">>, 1), Alt(<<"C", "z">>, 2) >> @@
  "B" :> << Alt(<<"A">>, 0), Alt(<<"C">>, 1) >> @@
  "C" :> << Alt(<<"c">>, 0), Alt(<<"d">>, 1) >>

Seqs(path, dns) == {SubSequence(path, dn) : dn \in dns}

BelowA == Seqs(<<"S", "A", "C">>, {0, 1}) \cup Seqs(<<"S", "A", "B", "A", "C">>, {0})
BelowB == Seqs(<<"S", "B", "C">>, {0}) \cup Seqs(<<"S", "B", "A", "C">>, {0})
            \cup Seqs(<<"S", "B", "A", "B", "C">>, {0})

\* What dt_to_sequences returns for these trees.
MCLists ==
  {{SubSequence(<<"S">>, 0), a, b} : <<a, b>> \in BelowA \X BelowB} \cup
  {{SubSequence(<<"S">>, 1), b} : b \in BelowB}

MCAnalysed ==
  {"c1" :> first @@ "c2" :> {second} :
     first \in {f \in UNION {{{a}, {a, b}, {a, b, c}} : <<a, b, c>> \in
                               MCLists \X MCLists \X MCLists} :
                  Cardinality(f) <= MaxLists},
     second \in {l \in MCLists : SubSequence(<<"S", "B", "C">>, 0) \in l}}
===============================================================================
