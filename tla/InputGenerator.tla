---------------------------- MODULE InputGenerator ----------------------------
(***************************************************************************)
(* The guided grammar-based input generator, InputGenerator.generate_input *)
(* of rsfuzzGenerator.py.  It builds Num derivation trees, each breadth    *)
(* first, one level at a time: up to MaxDepths levels with random          *)
(* expansions, then with cheapest expansions until nothing is open.  At    *)
(* every expansion it prunes the derivation numbers that would complete a  *)
(* captured rule (see RuleTable), unless nothing else is left.             *)
(*                                                                         *)
(* Levels and positions count from 1 here and from 0 in the code; the      *)
(* parent of the root is <<0, 0>> for the code's (-1, -1).  Probabilities  *)
(* are abstracted to whether they are positive, and what is written of a   *)
(* finished tree to its number.                                            *)
(***************************************************************************)
EXTENDS Integers, RuleTable

CONSTANTS
  Nonterminals,  \* the keys of the grammar
  Terminals,     \* every other token
  Separators,    \* separator_tokens
  StartRule,     \* the first key of the grammar
  Grammar,       \* nonterminal -> sequence of [exp, dn, likely]
  CostMap,       \* nonterminal -> (expansion -> cost), from depths_dict
  CostBound,     \* no nonterminal has a larger cheapest cost
  Tables,        \* the rule tables a run may be started with
  MaxDepths,     \* config["max_depths"]
  Num            \* the number of inputs to generate

Symbols == Nonterminals \cup Terminals

\* expansion_cost: 999 where the cost table has no entry.
ExpansionCost(symbol, exp) == Lookup(Lookup(CostMap, symbol, <<>>), exp, 999)

Cost(symbol, j) == ExpansionCost(symbol, Grammar[symbol][j].exp)

Costs(symbol) == {Cost(symbol, j) : j \in DOMAIN Grammar[symbol]}

MinCost(symbol) == CHOOSE c \in Costs(symbol) : \A d \in Costs(symbol) : c <= d

ASSUME SymbolAssumption ==
  /\ Nonterminals \cap Terminals = {}
  /\ Separators \subseteq Terminals
  /\ StartRule \in Nonterminals

ASSUME GrammarAssumption ==
  /\ Grammar \in [Nonterminals ->
                    Seq([exp : Seq(Symbols), dn : Nat, likely : BOOLEAN])]
  /\ \A A \in Nonterminals : Grammar[A] # <<>>

\* The tables are made by MakeTable (the capture phase) or are empty.
ASSUME TableAssumption == \A t \in Tables : WellFormed(t)

ASSUME BoundAssumption ==
  /\ MaxDepths \in Nat
  /\ CostBound \in Nat
  /\ Num \in Nat \ {0}

\* What calculate_depths establishes: costs are natural numbers, and every
\* nonterminal of a cheapest expansion is cheaper than its parent.
ASSUME CostAssumption ==
  \A A \in Nonterminals :
    /\ \A j \in DOMAIN Grammar[A] : Cost(A, j) \in Nat
    /\ MinCost(A) <= CostBound
    /\ \A j \in DOMAIN Grammar[A] : Cost(A, j) = MinCost(A) =>
         \A k \in DOMAIN Grammar[A][j].exp :
           Grammar[A][j].exp[k] \in Nonterminals =>
             MinCost(Grammar[A][j].exp[k]) < MinCost(A)

VARIABLES
  table,        \* (sub_sequences, idx_subseq_dict, recurrent_sequence)
  phase,        \* the while loop generate_input is in, or "done"
  tree,         \* the levels built so far
  node,         \* the node of the last level to visit next, 0 between levels
  next,         \* nodes_in_next_depth
  tmpSubSeqs,   \* tmp_sub_seqs: ids of the sub-sequences the tree contains
  depth,        \* depth_to_expand
  inputs        \* n_inputs: trees finished and written

vars == <<table, phase, tree, node, next, tmpSubSeqs, depth, inputs>>
-------------------------------------------------------------------------------
(* Nodes and trees.                                                        *)

NewNode(symbol, status, dn, parent) ==
  [symbol |-> symbol, status |-> status, kids |-> {}, dn |-> dn,
   parent |-> parent]

RootTree == << << NewNode(StartRule, "open", -1, <<0, 0>>) >> >>

\* expansions_to_children, for one expansion: nonterminals are open, and a
\* separator next to a nonterminal is marked -2 so that it is ignored later.
Children(exp, parent) ==
  LET mixed == \E k \in DOMAIN exp : exp[k] \in Nonterminals
  IN  [k \in DOMAIN exp |->
         IF exp[k] \in Nonterminals THEN NewNode(exp[k], "open", -1, parent)
         ELSE NewNode(exp[k], "leaf",
                      IF mixed /\ exp[k] \in Separators THEN -2 ELSE -1, parent)]

Level == tree[Len(tree)]

\* any_possible_expansions
AnyOpen(level) == \E i \in DOMAIN level : level[i].status = "open"

\* The part of a tree that never changes once a level is built.
Skeleton(t, d) ==
  [k \in 1..d |-> [i \in DOMAIN t[k] |->
     [symbol |-> t[k][i].symbol, parent |-> t[k][i].parent]]]

\* The symbols from the root to node i of the last level of a skeleton,
\* found by following parent pointers.
RootPath(sk, i) ==
  LET d == Len(sk)
      at[k \in 1..d] ==
        IF k = d THEN <<d, i>> ELSE sk[at[k+1][1]][at[k+1][2]].parent
  IN  [k \in 1..d |-> sk[at[k][1]][at[k][2]].symbol]

\* Greedy matching of seq as a subsequence of path.
Embeds(seq, path) ==
  Len(seq) = FoldLeft(LAMBDA j, x : IF j < Len(seq) /\ seq[j+1] = x
                                    THEN j + 1 ELSE j,
                      0, path)

SatisfyPreSeq(sk, seq, i) ==
  \/ seq = <<>>
  \/ /\ Len(sk) >= Len(seq)
     /\ sk[Len(sk)][i].symbol = seq[Len(seq)]
     /\ Embeds(seq, RootPath(sk, i))

\* Mutant: what the tree already contains is not taken off the rule.
PrunedUnmatched(symbol, sk, i, matched) ==
  {rule[1] : rule \in {r \in Lookup(table.rules, symbol, {}) :
     \E id \in r[2] : /\ r[2] = {id}
                      /\ SatisfyPreSeq(sk, table.paths[id], i)}}

\* prune_children: the derivation numbers listed for the symbol with a rule
\* of which exactly one sub-sequence is missing, and whose path this is.
Pruned(symbol, sk, i, matched) ==
  {rule[1] : rule \in {r \in Lookup(table.rules, symbol, {}) :
     \E id \in r[2] : /\ r[2] \ matched = {id}
                      /\ SatisfyPreSeq(sk, table.paths[id], i)}}

\* The ids that expanding node i with derivation number dn adds.
NewlyMatched(symbol, dn, sk, i) ==
  {table.subs[key] : key \in {k \in DOMAIN table.subs :
     k[1] = symbol /\ k[2] = dn /\ SatisfyPreSeq(sk, k[3], i)}}
-------------------------------------------------------------------------------
(* Choosing an expansion: the indexes into Grammar[symbol] that may be     *)
(* chosen.                                                                 *)

\* Prefer the unpruned ones of a set of candidates, if there are any.
Unpruned(symbol, cand, pruned) ==
  LET free == {j \in cand : Grammar[symbol][j].dn \notin pruned}
  IN  IF free = {} THEN cand ELSE free

\* random.choices never returns an index of weight 0.
RandomCandidates(symbol, pruned) ==
  LET cand   == Unpruned(symbol, DOMAIN Grammar[symbol], pruned)
      likely == {j \in cand : Grammar[symbol][j].likely}
  IN  IF likely = {} THEN cand ELSE likely

Cheapest(symbol) == {j \in DOMAIN Grammar[symbol] : Cost(symbol, j) = MinCost(symbol)}

MinimumCandidates(symbol, pruned) == Unpruned(symbol, Cheapest(symbol), pruned)

Candidates(symbol, pruned) ==
  IF phase = "random" THEN RandomCandidates(symbol, pruned)
                      ELSE MinimumCandidates(symbol, pruned)
-------------------------------------------------------------------------------
Init ==
  /\ table \in Tables
  /\ phase = "random"
  /\ tree = RootTree
  /\ node = 0
  /\ next = <<>>
  /\ tmpSubSeqs = {}
  /\ depth = 0
  /\ inputs = 0

\* Mutant: the depth limit is off by one.
ExpandCheckOneMore == depth <= MaxDepths /\ AnyOpen(Level)

ExpandCheck == depth < MaxDepths /\ AnyOpen(Level)

\* The head of the first loop.
BeginRandomLevel ==
  /\ phase = "random" /\ node = 0
  /\ ExpandCheck
  /\ node' = 1
  /\ UNCHANGED <<table, phase, tree, next, tmpSubSeqs, depth, inputs>>

LeaveRandom ==
  /\ phase = "random" /\ node = 0
  /\ ~ ExpandCheck
  /\ phase' = "minimum"
  /\ UNCHANGED <<table, tree, node, next, tmpSubSeqs, depth, inputs>>

\* The head of the second loop.
BeginMinimumLevel ==
  /\ phase = "minimum" /\ node = 0
  /\ AnyOpen(Level)
  /\ node' = 1
  /\ UNCHANGED <<table, phase, tree, next, tmpSubSeqs, depth, inputs>>

\* A terminal of the level is left as it is.
VisitLeaf ==
  /\ node \in DOMAIN Level
  /\ Level[node].status # "open"
  /\ node' = node + 1
  /\ UNCHANGED <<table, phase, tree, next, tmpSubSeqs, depth, inputs>>

\* Mutant: the next level is put together back to front.
PrependLevel(kids) == kids \o next

\* Where the children go in nodes_in_next_depth, and what it becomes.
Start == Len(next)
ExtendLevel(kids) == next \o kids

\* The body shared by expand_node_randomly and expand_minimum_node once an
\* expansion is chosen: the node records where its children will be in the
\* next level, and the sub-sequences it completes are remembered.
ExpandWith(alt) ==
  LET d    == Len(tree)
      kids == Children(alt.exp, <<d, node>>)
  IN  /\ tree' = [tree EXCEPT ![d][node] =
                    [Level[node] EXCEPT !.status = "inner",
                                        !.kids   = Start + 1 .. Start + Len(kids),
                                        !.dn     = alt.dn]]
      /\ next' = ExtendLevel(kids)
      /\ tmpSubSeqs' = tmpSubSeqs \cup
           NewlyMatched(Level[node].symbol, alt.dn, Skeleton(tree, d), node)
      /\ node' = node + 1
      /\ UNCHANGED <<table, phase, depth, inputs>>

PrunedHere ==
  Pruned(Level[node].symbol, Skeleton(tree, Len(tree)), node, tmpSubSeqs)

ExpandNode ==
  /\ node \in DOMAIN Level
  /\ Level[node].status = "open"
  /\ \E j \in Candidates(Level[node].symbol, PrunedHere) :
       ExpandWith(Grammar[Level[node].symbol][j])

ExpandNodeRandomly == phase = "random" /\ ExpandNode

ExpandMinimumNode == phase = "minimum" /\ ExpandNode

EndLevelAt(d) ==
  /\ node = Len(Level) + 1
  /\ tree' = Append(tree, next)
  /\ next' = <<>>
  /\ node' = 0
  /\ depth' = d
  /\ UNCHANGED <<table, phase, tmpSubSeqs, inputs>>

\* Every node of the level is visited: the next level is appended.
EndLevel == EndLevelAt(depth + 1)

WriteInputAs(n, subSeqs) ==
  /\ phase = "minimum" /\ node = 0
  /\ ~ AnyOpen(Level)
  /\ inputs < Num
  /\ inputs' = n
  /\ phase' = IF inputs' = Num THEN "done" ELSE "random"
  /\ tree' = RootTree
  /\ tmpSubSeqs' = subSeqs
  /\ depth' = 0
  /\ UNCHANGED <<table, node, next>>

\* Mutants: the matched sub-sequences of the tree stay for the next one, and
\* the input is not counted.
WriteInputStale     == WriteInputAs(inputs + 1, tmpSubSeqs)
WriteInputUncounted == WriteInputAs(inputs, {})

\* Nothing is open any more: the sample and its tree are written, and the
\* for loop starts the next tree with no sub-sequence matched, or ends.
WriteInput == WriteInputAs(inputs + 1, {})

Done == phase = "done" /\ UNCHANGED vars

Next ==
  \/ BeginRandomLevel \/ LeaveRandom \/ BeginMinimumLevel
  \/ VisitLeaf \/ ExpandNodeRandomly \/ ExpandMinimumNode
  \/ EndLevel \/ WriteInput \/ Done

Spec == Init /\ [][Next]_vars

\* The generator runs in one thread of its own process and nothing in it
\* blocks, so an enabled step is eventually taken.
FairSpec == Spec /\ WF_vars(Next)
-------------------------------------------------------------------------------
(* Properties.                                                             *)

NodeType ==
  {n \in [symbol : Symbols, status : {"open", "leaf", "inner"}, kids : SUBSET Nat,
          dn : {-1, -2} \cup Nat, parent : Nat \X Nat] :
     n.status = "leaf" <=> n.symbol \notin Nonterminals}

\* The state of generate_input, with the depth counter tied to the tree and
\* the matched ids to the ids of the rule table.
TypeOK ==
  /\ table \in Tables
  /\ phase \in {"random", "minimum", "done"}
  /\ tree \in Seq(Seq(NodeType)) /\ tree # <<>>
  /\ node \in 0 .. Len(Level) + 1
  /\ next \in Seq(NodeType)
  /\ tmpSubSeqs \subseteq DOMAIN table.paths
  /\ depth = Len(tree) - 1
  /\ inputs \in 0..Num

\* tmp_sub_seqs, which is only ever added to, one node at a time, is exactly
\* the set of the table's sub-sequences that the tree under construction
\* contains: nothing is missed, and nothing is left over from the tree before.
TreeContains(key) ==
  \E d \in DOMAIN tree : \E i \in DOMAIN tree[d] :
    /\ tree[d][i].status = "inner"
    /\ tree[d][i].symbol = key[1] /\ tree[d][i].dn = key[2]
    /\ SatisfyPreSeq(Skeleton(tree, d), key[3], i)

MatchedExact ==
  tmpSubSeqs = {table.subs[key] : key \in {k \in DOMAIN table.subs : TreeContains(k)}}

\* Cheapest expansions close the tree within CostBound + 1 levels of the
\* level where the random phase stopped: the second while loop cannot run
\* away, whatever the rules prune.
HeightBounded == Len(tree) <= MaxDepths + CostBound + 2

\* Rules of the table, wherever they are listed.
RuleSets == UNION {{r[2] : r \in table.rules[A]} : A \in DOMAIN table.rules}

Completes(rule, before, after) == ~ (rule \subseteq before) /\ rule \subseteq after

Alternatives ==
  IF phase = "random" THEN DOMAIN Grammar[Level[node].symbol]
                      ELSE Cheapest(Level[node].symbol)

\* A step that completes a rule of which one sub-sequence was missing had no
\* unpruned alternative: guidance gives way only when it must.
CompletesOnlyWhenCornered ==
  [][\A rule \in RuleSets :
       /\ Completes(rule, tmpSubSeqs, tmpSubSeqs')
       /\ \E id \in rule : rule \ tmpSubSeqs = {id}
       => \A j \in Alternatives : Grammar[Level[node].symbol][j].dn \in PrunedHere
    ]_vars

\* Every requested input is eventually written.
AllInputsWritten == <>(inputs = Num)
===============================================================================
