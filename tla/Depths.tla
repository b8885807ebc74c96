-------------------------------- MODULE Depths --------------------------------
(***************************************************************************)
(* The cost table of the input generator, calculate_depths of              *)
(* rsfuzzGenerator.py: for each expansion the depth of the nonterminals in *)
(* it, by repeated passes over the grammar.  grammar maps a nonterminal to *)
(* its sequence of expansions, tokens lists its keys in their order.       *)
(***************************************************************************)
EXTENDS Integers, FiniteSets, SequencesExt

None == -1

\* depths_dict before the first pass: no cost of an expansion and no depth of
\* a token is known.
Unknown(grammar) ==
  [cost  |-> [A \in DOMAIN grammar |-> [j \in DOMAIN grammar[A] |-> None]],
   depth |-> [A \in DOMAIN grammar |-> None],
   cut   |-> 0]

CountNone(dict) ==
  Cardinality({A \in DOMAIN dict.depth : dict.depth[A] = None}) +
  Cardinality({p \in UNION {{<<A, j>> : j \in DOMAIN dict.cost[A]} :
                              A \in DOMAIN dict.cost} : dict.cost[p[1]][p[2]] = None})

\* The cost of an expansion, once the depths of all tokens in it are known.
ExpansionDepth(dict, token, exp) ==
  LET below == {dict.depth[exp[k]] : k \in {k \in DOMAIN exp :
                                              exp[k] \in DOMAIN dict.depth}}
  IN  CASE token \in Range(exp) -> 999
        [] token \notin Range(exp) /\ None \in below -> None
        [] OTHER -> Max({0} \cup below)

\* One token: its unknown expansions, and its depth if the cheapest is taken
\* to be known.
VisitToken(grammar, dict, token) ==
  LET costs == [j \in DOMAIN grammar[token] |->
                  IF dict.cost[token][j] # None THEN dict.cost[token][j]
                  ELSE ExpansionDepth(dict, token, grammar[token][j].exp)]
      known == Range(costs)
  IN  [dict EXCEPT
         !.cost[token]  = costs,
         !.depth[token] = CASE @ = None /\ dict.cut \in known -> dict.cut + 1
                            [] ~ (@ = None /\ dict.cut \in known) /\ None \notin known ->
                                 Min(known) + 1
                            [] OTHER -> @]

\* A pass over all tokens; one without progress raises minimum_cut.
Pass(grammar, tokens, dict) ==
  LET after == FoldLeft(LAMBDA d, token : VisitToken(grammar, d, token), dict, tokens)
  IN  IF CountNone(after) = CountNone(dict) THEN [after EXCEPT !.cut = @ + 1] ELSE after

\* The while loop, ended or cut off after n passes.
Passes(grammar, tokens, n) ==
  FoldLeft(LAMBDA dict, i : IF CountNone(dict) = 0 THEN dict ELSE Pass(grammar, tokens, dict),
           Unknown(grammar), [i \in 1 .. n |-> i])

\* The loop has ended after n passes.
Ends(grammar, tokens, n) == CountNone(Passes(grammar, tokens, n)) = 0

\* depths_dict as the generator's cost_map: nonterminal -> expansion -> cost.  Of
\* equal expansions the last is entered.
CalculateDepths(grammar, tokens, n) ==
  LET cost == Passes(grammar, tokens, n).cost
  IN  [A \in DOMAIN grammar |->
         [exp \in {grammar[A][j].exp : j \in DOMAIN grammar[A]} |->
            cost[A][Max({j \in DOMAIN grammar[A] : grammar[A][j].exp = exp})]]]
===============================================================================
