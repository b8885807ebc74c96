--------------------------- MODULE MCInputGenerator ---------------------------
(* A small grammar shaped like the shipped ones: recursive through a        *)
(* bracketed rule without alternatives, with expansions that share a        *)
(* derivation number because they differ only in separators, and with an    *)
(* expansion of probability 0.                                              *)
EXTENDS ExtractedTrees, Depths, TLC

Alt(exp, dn, likely) == [exp |-> exp, dn |-> dn, likely |-> likely]

MCNonterminals == {"S", "A", "B", "C"}
MCSeparators   == {",", "("}
MCTerminals    == {"a", "b", "c"} \cup MCSeparators

MCGrammar ==
  "S" :> << Alt(<<"A", ",", "B">>, 0, TRUE), Alt(<<"B">>, 1, TRUE) >> @@
  "A" :> << Alt(<<"a">>, 0, TRUE), Alt(<<"C">>, 1, TRUE) >> @@
  "C" :> << Alt(<<"(", "S", "c">>, 0, TRUE) >> @@
  "B" :> << Alt(<<"b">>, 0, TRUE), Alt(<<"A">>, 1, FALSE),
            Alt(<<"A", ",">>, 1, TRUE) >>

\* The cost table of MCGrammar, for the passes over its keys in this order.
MCCostMap ==
  "S" :> (<<"A", ",", "B">> :> 1 @@ <<"B">> :> 1) @@
  "A" :> (<<"a">> :> 0 @@ <<"C">> :> 3) @@
  "C" :> (<<"(", "S", "c">> :> 2) @@
  "B" :> (<<"b">> :> 0 @@ <<"A">> :> 1 @@ <<"A", ",">> :> 1)

MCTokens == <<"S", "A", "C", "B">>
MCPasses == 12

ASSUME CostMapAssumption ==
  /\ Ends(MCGrammar, MCTokens, MCPasses)
  /\ MCCostMap = CalculateDepths(MCGrammar, MCTokens, MCPasses)

At(path, dn) == SubSequence(path, dn)

\* No rule; a rule met on the way down and one met across siblings; two rules
\* that share a sub-sequence and corner the generator; a rule of one member.
MCRules ==
  { <<>>,
    << {At(<<"S">>, 0), At(<<"S", "A">>, 1)},
       {At(<<"S", "A">>, 0), At(<<"S", "B">>, 0)} >>,
    << {At(<<"S", "B">>, 1)},
       {At(<<"S", "A">>, 1), At(<<"S", "B">>, 0)},
       {At(<<"S", "A">>, 1), At(<<"S", "S">>, 1)} >> }

MCTables == {MakeTable(rules) : rules \in MCRules}
===============================================================================
