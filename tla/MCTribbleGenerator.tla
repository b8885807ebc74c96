-------------------------- MODULE MCTribbleGenerator --------------------------
(* A grammar in which the same symbol may follow in two places of an         *)
(* expansion, and k-paths that overlap, so that a tree for one may cover     *)
(* others:                                                                   *)
(*   S -> A "," B | B    A -> "a" | "(" S ")"    B -> "b" | A A              *)
EXTENDS TribbleGenerator, TLC

Alt(exp, dn) == [exp |-> exp, dn |-> dn, likely |-> TRUE]

MCNonterminals == {"S", "A", "B"}
MCSeparators   == {",", "(", ")"}
MCTerminals    == {"a", "b"} \cup MCSeparators

MCGrammar ==
  "S" :> << Alt(<<"A", ",", "B">>, 0), Alt(<<"B">>, 1) >> @@
  "A" :> << Alt(<<"a">>, 0), Alt(<<"(", "S", ")">>, 1) >> @@
  "B" :> << Alt(<<"b">>, 0), Alt(<<"A", "A">>, 1) >>

MCCostMap ==
  "S" :> (<<"A", ",", "B">> :> 1 @@ <<"B">> :> 1) @@
  "A" :> (<<"a">> :> 0 @@ <<"(", "S", ")">> :> 2) @@
  "B" :> (<<"b">> :> 0 @@ <<"A", "A">> :> 1)

MCKPaths == {<<"A", "S", "B">>, <<"B", "A", "S">>, <<"S", "B", "A">>}

MCPrefixes ==
  "S" :> {<<"S">>} @@ "A" :> {<<"S", "A">>} @@ "B" :> {<<"S", "B">>}

At(path, dn) == SubSequence(path, dn)

\* No rule; a rule met across siblings; two rules that corner the generator.
MCTables == {MakeTable(rules) : rules \in
  { <<>>,
    << {At(<<"S", "A">>, 0), At(<<"S", "B">>, 0)} >>,
    << {At(<<"S", "A">>, 0)}, {At(<<"S", "A">>, 1), At(<<"S", "B">>, 1)} >> }}
===============================================================================
