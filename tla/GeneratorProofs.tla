--------------------------- MODULE GeneratorProofs ---------------------------
(***************************************************************************)
(* What the two generators guarantee for every grammar, cost table, rule   *)
(* table, depth limit and number of inputs: the one of rsfuzzGenerator.py, *)
(* and the k-path generator of tribbleGenerator.py, which has a copy of    *)
(* its nodes and of its pruning.  What both need is stated of a step that  *)
(* expands an open node, whichever loop takes it.                          *)
(* A part is about the table that the capture phase makes for them: it is  *)
(* a table as they assume it, and it says what the rules said.  The next   *)
(* is about the way back: what dt_to_sequences reads off a finished tree   *)
(* is there for the generator to find.  The next follows the rules through *)
(* an update, from the lists of sub-sequences to the table, and the last   *)
(* shows that calculate_depths makes the cost table that both need.        *)
(***************************************************************************)
EXTENDS TribbleGenerator, ExtractedTrees, RuleExtraction, Depths,
        FiniteSetTheorems, WellFoundedInduction, TLAPS

-------------------------------------------------------------------------------
(* Facts about the grammar and its costs.                                  *)

Alternative == [exp : Seq(Symbols), dn : Nat, likely : BOOLEAN]

\* The expansions of a nonterminal.
LEMMA GrammarType ==
  ASSUME NEW A \in Nonterminals, NEW j \in DOMAIN Grammar[A]
  PROVE  Grammar[A][j] \in Alternative
<1>1. Grammar[A] \in Seq(Alternative)
  BY GrammarAssumption DEF GrammarAssumption, Alternative
<1> QED BY <1>1

\* Every nonempty set of natural numbers has a least element.
LEMMA LeastNat ==
  ASSUME NEW T, T \subseteq Nat, T # {}
  PROVE  \E x \in T : \A y \in T : x <= y
<1> DEFINE R == {ss \in Nat \X Nat : ss[1] < ss[2]}
<1>1. \E x \in T : \A y \in T : ~ (<<y, x>> \in R)
  BY NatLessThanWellFounded, WFMin DEF OpToRel
<1>2. PICK x \in T : \A y \in T : ~ (<<y, x>> \in R)
  BY <1>1
<1>3. \A y \in T : ~ (y < x)
  BY <1>2
<1> QED BY <1>3

\* There is a cheapest expansion.
LEMMA CheapestExists ==
  ASSUME NEW A \in Nonterminals
  PROVE  /\ MinCost(A) \in Nat
         /\ MinCost(A) \in Costs(A)
         /\ \A c \in Costs(A) : MinCost(A) <= c
<1>1. Costs(A) \subseteq Nat
  BY CostAssumption DEF CostAssumption, Costs
<1>2. Costs(A) # {}
  <2>1. Grammar[A] \in Seq(Alternative) /\ Grammar[A] # <<>>
    BY GrammarAssumption DEF GrammarAssumption, Alternative
  <2>2. 1 \in DOMAIN Grammar[A]
    BY <2>1
  <2> QED BY <2>2 DEF Costs
<1>3. \E c \in Costs(A) : \A d \in Costs(A) : c <= d
  BY <1>1, <1>2, LeastNat
<1>4. MinCost(A) \in Costs(A) /\ \A c \in Costs(A) : MinCost(A) <= c
  BY <1>3 DEF MinCost
<1> QED BY <1>1, <1>4

\* Whatever is pruned, what is chosen is an expansion of the symbol, and in
\* the second loop a cheapest one.
LEMMA CandidatesAre ==
  ASSUME NEW A, NEW pruned
  PROVE  /\ RandomCandidates(A, pruned) \subseteq DOMAIN Grammar[A]
         /\ MinimumCandidates(A, pruned) \subseteq Cheapest(A)
         /\ Cheapest(A) \subseteq DOMAIN Grammar[A]
         /\ Candidates(A, pruned) \subseteq DOMAIN Grammar[A]
<1>1. RandomCandidates(A, pruned) \subseteq DOMAIN Grammar[A]
  BY DEF RandomCandidates, Unpruned
<1>2. MinimumCandidates(A, pruned) \subseteq Cheapest(A)
  BY DEF MinimumCandidates, Unpruned
<1>3. Cheapest(A) \subseteq DOMAIN Grammar[A]
  BY DEF Cheapest
<1> QED BY <1>1, <1>2, <1>3 DEF Candidates

\* The children of a node are nodes: nonterminals are open, the others leaves.
LEMMA ChildrenType ==
  ASSUME NEW exp \in Seq(Symbols), NEW parent \in Nat \X Nat
  PROVE  /\ Children(exp, parent) \in Seq(NodeType)
         /\ Len(Children(exp, parent)) = Len(exp)
         /\ \A k \in DOMAIN exp :
              /\ Children(exp, parent)[k].symbol = exp[k]
              /\ Children(exp, parent)[k].status = "open" <=> exp[k] \in Nonterminals
              /\ Children(exp, parent)[k].status # "inner"
<1> DEFINE kids == Children(exp, parent)
<1>1. /\ DOMAIN kids = 1 .. Len(exp)
      /\ DOMAIN exp = 1 .. Len(exp)
      /\ Len(exp) \in Nat
      /\ \A k \in 1 .. Len(exp) : exp[k] \in Symbols
  BY DEF Children
<1>2. ASSUME NEW k \in 1 .. Len(exp)
      PROVE  /\ kids[k] \in NodeType
             /\ kids[k].symbol = exp[k]
             /\ kids[k].status = "open" <=> exp[k] \in Nonterminals
             /\ kids[k].status # "inner"
  <2>1. exp[k] \in Symbols
    BY <1>1
  <2>2. CASE exp[k] \in Nonterminals
    <3>1. kids[k] = [symbol |-> exp[k], status |-> "open", kids |-> {}, dn |-> -1,
                     parent |-> parent]
      BY <1>1, <2>2 DEF Children, NewNode
    <3>2. kids[k] \in NodeType
      BY <3>1, <2>1, <2>2 DEF NodeType
    <3> QED BY <3>1, <3>2, <2>2
  <2>3. CASE exp[k] \notin Nonterminals
    <3>1. PICK dn \in {-1, -2} :
            kids[k] = [symbol |-> exp[k], status |-> "leaf", kids |-> {}, dn |-> dn,
                       parent |-> parent]
      BY <1>1, <2>3 DEF Children, NewNode
    <3>2. kids[k] \in NodeType
      BY <3>1, <2>1, <2>3 DEF NodeType
    <3> QED BY <3>1, <3>2, <2>3
  <2> QED BY <2>2, <2>3
<1>3. kids \in Seq(NodeType)
  BY <1>1, <1>2, \A n \in Nat : \A f : f \in [1..n -> NodeType] => f \in Seq(NodeType)
     DEF Children
<1>4. Len(kids) = Len(exp)
  BY <1>1, <1>3
<1> QED BY <1>1, <1>2, <1>3, <1>4

\* The children that an expansion makes.
LEMMA ChildrenOf ==
  ASSUME NEW alt \in Alternative, NEW parent \in Nat \X Nat,
         NEW kids, kids = Children(alt.exp, parent)
  PROVE  /\ kids \in Seq(NodeType) /\ Len(kids) = Len(alt.exp)
         /\ DOMAIN kids = DOMAIN alt.exp /\ DOMAIN kids = 1 .. Len(kids)
         /\ \A k \in DOMAIN kids :
              /\ kids[k].symbol = alt.exp[k]
              /\ kids[k].status = "open" <=> alt.exp[k] \in Nonterminals
              /\ kids[k].status # "inner"
              /\ kids[k].parent = parent
<1> DEFINE exp == alt.exp
<1>1. exp \in Seq(Symbols) /\ kids = Children(exp, parent)
  BY DEF Alternative
<1> HIDE DEF exp
<1>2. /\ kids \in Seq(NodeType) /\ Len(kids) = Len(exp)
      /\ \A k \in DOMAIN exp :
           /\ kids[k].symbol = exp[k]
           /\ kids[k].status = "open" <=> exp[k] \in Nonterminals
           /\ kids[k].status # "inner"
  <2>1. /\ Children(exp, parent) \in Seq(NodeType) /\ Len(Children(exp, parent)) = Len(exp)
        /\ \A k \in DOMAIN exp :
             /\ Children(exp, parent)[k].symbol = exp[k]
             /\ Children(exp, parent)[k].status = "open" <=> exp[k] \in Nonterminals
             /\ Children(exp, parent)[k].status # "inner"
    BY <1>1, ChildrenType
  <2> QED BY <1>1, <2>1, Zenon
<1>3. DOMAIN kids = DOMAIN exp /\ DOMAIN kids = 1 .. Len(kids)
  BY <1>1, <1>2
<1>4. \A k \in DOMAIN exp : kids[k].parent = parent
  <2>1. \A k \in DOMAIN exp : Children(exp, parent)[k].parent = parent
    BY DEF Children, NewNode
  <2> QED BY <1>1, <2>1
<1> QED BY <1>2, <1>3, <1>4 DEF exp
-------------------------------------------------------------------------------
(* Building a tree, in either generator.                                   *)

\* The tree, the levels under construction and what is matched in it.
Building ==
  /\ table \in Tables
  /\ tree \in Seq(Seq(NodeType)) /\ tree # <<>>
  /\ node \in 0 .. Len(Level) + 1
  /\ next \in Seq(NodeType)
  /\ tmpSubSeqs \subseteq DOMAIN table.paths
  /\ depth = Len(tree) - 1

\* Nothing of a level that is being built is expanded yet, and there is no
\* such level between two levels.
NextInv ==
  /\ \A i \in DOMAIN next : next[i].status # "inner"
  /\ node = 0 => next = <<>>

TreeInv == Building /\ NextInv

\* The node that is visited is to be expanded.
OpenHere == node \in DOMAIN Level /\ Level[node].status = "open"

\* The random loop stops at MaxDepths; in the second loop, the level of an
\* open node and what its nonterminal still costs stay within one bound.
HeightInv ==
  /\ phase = "random" => depth <= MaxDepths /\ (node > 0 => depth < MaxDepths)
  /\ phase = "minimum" =>
       /\ depth <= MaxDepths + CostBound + 1
       /\ node > 0 => depth <= MaxDepths + CostBound
       /\ \A i \in DOMAIN Level : Level[i].status = "open" =>
            depth + MinCost(Level[i].symbol) <= MaxDepths + CostBound
       /\ \A i \in DOMAIN next : next[i].status = "open" =>
            depth + 1 + MinCost(next[i].symbol) <= MaxDepths + CostBound
  /\ phase = "done" => depth = 0 /\ node = 0

IInv == TypeOK /\ NextInv /\ HeightInv

\* What the invariant says of the tree being built.
LEMMA InputTree ==
  /\ IInv => TreeInv
  /\ ExpandNode => OpenHere
  /\ TypeOK <=> /\ Building
                /\ phase \in {"random", "minimum", "done"} /\ inputs \in 0 .. Num
BY DEF IInv, TypeOK, TreeInv, Building, ExpandNode, OpenHere

\* The types of a tree of one node.
LEMMA RootTreeType ==
  /\ RootTree \in Seq(Seq(NodeType))
  /\ Len(RootTree) = 1
  /\ Len(RootTree[1]) = 1
  /\ RootTree[1][1].status = "open"
<1>1. NewNode(StartRule, "open", -1, <<0, 0>>) \in NodeType
  BY SymbolAssumption DEF SymbolAssumption, NewNode, NodeType, Symbols
<1> QED BY <1>1 DEF RootTree, NewNode

\* The invariant holds at first.
LEMMA InitIInv == Init => IInv
<1> SUFFICES ASSUME Init PROVE IInv
  OBVIOUS
<1> USE DEF Init
<1>1. TypeOK
  <2>1. node \in 0 .. Len(Level) + 1
    BY RootTreeType DEF Level
  <2>2. depth = Len(tree) - 1 /\ tree \in Seq(Seq(NodeType)) /\ tree # <<>>
    BY RootTreeType
  <2>3. inputs \in 0..Num
    BY BoundAssumption DEF BoundAssumption
  <2> QED BY <2>1, <2>2, <2>3 DEF TypeOK
<1>2. NextInv
  BY DEF NextInv
<1>3. HeightInv
  BY BoundAssumption DEF BoundAssumption, HeightInv
<1> QED BY <1>1, <1>2, <1>3 DEF IInv

\* What is expanded is an open node of the last level.
LEMMA OpenNode ==
  ASSUME TreeInv, OpenHere
  PROVE  /\ node \in 1 .. Len(Level)
         /\ Len(tree) \in Nat \ {0}
         /\ Level \in Seq(NodeType)
         /\ Level[node] \in NodeType
         /\ Level[node].symbol \in Nonterminals
         /\ depth \in Nat
<1>1. /\ tree \in Seq(Seq(NodeType)) /\ tree # <<>>
      /\ node \in DOMAIN Level /\ Level[node].status = "open"
      /\ depth = Len(tree) - 1
  BY DEF TreeInv, Building, OpenHere
<1>2. Len(tree) \in Nat \ {0}
  BY <1>1
<1>3. Level \in Seq(NodeType)
  BY <1>1, <1>2 DEF Level
<1>4. node \in 1 .. Len(Level) /\ Level[node] \in NodeType
  BY <1>1, <1>3
<1>5. Level[node].symbol \in Nonterminals
  BY <1>1, <1>4 DEF NodeType
<1> QED BY <1>1, <1>2, <1>3, <1>4, <1>5

\* Ids that an expansion adds are ids of the table.
LEMMA NewlyMatchedType ==
  ASSUME table \in Tables, NEW A, NEW dn, NEW sk, NEW i
  PROVE  NewlyMatched(A, dn, sk, i) \subseteq DOMAIN table.paths
<1>1. WellFormed(table)
  BY TableAssumption DEF TableAssumption
<1>2. \A k \in DOMAIN table.subs : table.subs[k] \in DOMAIN table.paths
  BY <1>1 DEF WellFormed
<1> QED BY <1>2 DEF NewlyMatched
\* What ExpandWith does to the tree and to the next level.
LEMMA Expanded ==
  ASSUME TreeInv, OpenHere,
         NEW j \in DOMAIN Grammar[Level[node].symbol],
         ExpandWith(Grammar[Level[node].symbol][j])
  PROVE  LET alt  == Grammar[Level[node].symbol][j]
             kids == Children(alt.exp, <<Len(tree), node>>)
         IN  /\ alt \in Alternative
             /\ kids \in Seq(NodeType)
             /\ tree' \in Seq(Seq(NodeType)) /\ Len(tree') = Len(tree)
             /\ \A d \in 1 .. Len(tree) - 1 : tree'[d] = tree[d]
             /\ Level' \in Seq(NodeType) /\ Len(Level') = Len(Level)
             /\ \A i \in 1 .. Len(Level) : i # node => Level'[i] = Level[i]
             /\ Level'[node].status = "inner" /\ Level'[node].dn = alt.dn
             /\ Level'[node].symbol = Level[node].symbol
             /\ Level'[node].parent = Level[node].parent
             /\ next' = next \o kids /\ next' \in Seq(NodeType)
<1> DEFINE alt  == Grammar[Level[node].symbol][j]
           d    == Len(tree)
           kids == Children(alt.exp, <<d, node>>)
           new  == [Level[node] EXCEPT !.status = "inner",
                                       !.kids   = Start + 1 .. Start + Len(kids),
                                       !.dn     = alt.dn]
<1>1. alt \in Alternative
  BY OpenNode, GrammarType
<1>2. <<d, node>> \in Nat \X Nat /\ alt.exp \in Seq(Symbols)
  BY <1>1, OpenNode DEF Alternative
<1>3. kids \in Seq(NodeType)
  BY <1>2, ChildrenType
<1>4. next \in Seq(NodeType)
  BY DEF TreeInv, Building
<1>5. Start + 1 .. Start + Len(kids) \in SUBSET Nat
  BY <1>3, <1>4 DEF Start
<1>6. new \in NodeType
  <2>1. Level[node] \in NodeType /\ Level[node].status = "open"
    BY OpenNode DEF OpenHere
  <2>2. alt.dn \in Nat
    BY <1>1 DEF Alternative
  <2> HIDE DEF alt, kids
  <2> QED BY <1>5, <2>1, <2>2 DEF NodeType
<1>7. tree' = [tree EXCEPT ![d] = [Level EXCEPT ![node] = new]]
  BY DEF ExpandWith, Level
<1>8. d \in 1 .. Len(tree) /\ Level = tree[d] /\ tree \in Seq(Seq(NodeType))
  BY OpenNode DEF Level, TreeInv, Building
<1>9. [Level EXCEPT ![node] = new] \in Seq(NodeType)
      /\ Len([Level EXCEPT ![node] = new]) = Len(Level)
  <2> HIDE DEF new
  <2> QED BY <1>6, OpenNode
<1>10. tree' \in Seq(Seq(NodeType)) /\ Len(tree') = Len(tree)
  <2> HIDE DEF new
  <2> QED BY <1>7, <1>8, <1>9
<1>11. Level' = [Level EXCEPT ![node] = new]
  <2> HIDE DEF new
  <2> QED BY <1>7, <1>8, <1>10 DEF Level
<1>12. \A e \in 1 .. Len(tree) - 1 : tree'[e] = tree[e]
  <2> HIDE DEF new
  <2> QED BY <1>7, <1>8
<1>13. /\ Level' \in Seq(NodeType) /\ Len(Level') = Len(Level)
       /\ \A i \in 1 .. Len(Level) : i # node => Level'[i] = Level[i]
       /\ Level'[node] = new
  <2> HIDE DEF new
  <2> QED BY <1>9, <1>11, OpenNode
<1>14. /\ new.status = "inner" /\ new.dn = alt.dn
       /\ new.symbol = Level[node].symbol /\ new.parent = Level[node].parent
  <2>1. Level[node] \in NodeType
    BY OpenNode
  <2> HIDE DEF alt, kids
  <2> QED BY <2>1 DEF NodeType
<1>15. next' = next \o kids
  BY DEF ExpandWith, ExtendLevel
<1>16. next' \in Seq(NodeType)
  <2> HIDE DEF kids
  <2> QED BY <1>3, <1>4, <1>15
<1> HIDE DEF new
<1> QED BY <1>1, <1>3, <1>10, <1>12, <1>13, <1>14, <1>15, <1>16

\* A property of all nodes of the next level holds of the extended level if it
\* holds of the children that are appended.
LEMMA Extended ==
  ASSUME NEW old \in Seq(NodeType), NEW kids \in Seq(NodeType),
         NEW i \in DOMAIN (old \o kids)
  PROVE  \/ i \in DOMAIN old /\ (old \o kids)[i] = old[i]
         \/ \E k \in DOMAIN kids : (old \o kids)[i] = kids[k]
<1>1. i \in 1 .. Len(old) + Len(kids) /\ Len(old) \in Nat /\ Len(kids) \in Nat
  OBVIOUS
<1>2. CASE i <= Len(old)
  BY <1>1, <1>2
<1>3. CASE i > Len(old)
  <2>1. (old \o kids)[i] = kids[i - Len(old)] /\ i - Len(old) \in DOMAIN kids
    BY <1>1, <1>3
  <2> QED BY <2>1
<1> QED BY <1>1, <1>2, <1>3

\* Expanding a node keeps the types, and expands nothing of the next level.
LEMMA ExpandedBuilding ==
  ASSUME TreeInv, OpenHere,
         NEW j \in DOMAIN Grammar[Level[node].symbol],
         ExpandWith(Grammar[Level[node].symbol][j])
  PROVE  TreeInv'
<1> DEFINE alt  == Grammar[Level[node].symbol][j]
           kids == Children(alt.exp, <<Len(tree), node>>)
<1>1. Building /\ NextInv
  BY DEF TreeInv
<1>2. /\ UNCHANGED <<table, phase, depth, inputs>>
      /\ node' = node + 1
      /\ tmpSubSeqs' = tmpSubSeqs \cup
           NewlyMatched(Level[node].symbol, alt.dn, Skeleton(tree, Len(tree)), node)
  BY DEF ExpandWith
<1>3. /\ tree' \in Seq(Seq(NodeType)) /\ Len(tree') = Len(tree)
      /\ Len(Level') = Len(Level)
      /\ next' = next \o kids /\ kids \in Seq(NodeType) /\ alt \in Alternative
      /\ next' \in Seq(NodeType)
  BY Expanded
<1>k. kids = Children(alt.exp, <<Len(tree), node>>)
  OBVIOUS
<1> HIDE DEF alt, kids
<1>4. node' \in 0 .. Len(Level') + 1 /\ node' # 0
  <2>1. node \in 1 .. Len(Level) /\ Len(Level) \in Nat
    BY OpenNode
  <2> QED BY <1>2, <1>3, <2>1
<1>5. tmpSubSeqs' \subseteq DOMAIN table'.paths
  BY <1>1, <1>2, NewlyMatchedType DEF Building
<1>6. tree' # <<>> /\ depth' = Len(tree') - 1
  BY <1>1, <1>2, <1>3, OpenNode DEF Building
<1>7. \A k \in DOMAIN kids : kids[k].status # "inner"
  <2>1. <<Len(tree), node>> \in Nat \X Nat
    BY OpenNode
  <2> QED BY <1>3, <1>k, <2>1, ChildrenOf
<1>8. \A i \in DOMAIN next' : next'[i].status # "inner"
  <2>1. next \in Seq(NodeType) /\ \A i \in DOMAIN next : next[i].status # "inner"
    BY <1>1 DEF Building, NextInv
  <2> SUFFICES ASSUME NEW i \in DOMAIN (next \o kids)
               PROVE  (next \o kids)[i].status # "inner"
    BY <1>3
  <2>2. \/ i \in DOMAIN next /\ (next \o kids)[i] = next[i]
        \/ \E k \in DOMAIN kids : (next \o kids)[i] = kids[k]
    BY <1>3, <2>1, Extended
  <2> QED BY <1>7, <2>1, <2>2
<1>9. Building'
  BY <1>1, <1>2, <1>3, <1>4, <1>5, <1>6 DEF Building
<1> QED BY <1>4, <1>8, <1>9 DEF TreeInv, NextInv

\* So does the end of a level.
LEMMA AppendedBuilding ==
  ASSUME TreeInv, EndLevel
  PROVE  TreeInv' /\ Level' = next /\ Len(tree') = Len(tree) + 1
<1> USE DEF EndLevel, EndLevelAt
<1>0. Building /\ NextInv
  BY DEF TreeInv
<1>1. tree' \in Seq(Seq(NodeType)) /\ tree' # <<>> /\ Len(tree') = Len(tree) + 1
  <2> DEFINE S == Seq(NodeType)
  <2>1. tree \in Seq(S) /\ next \in S /\ tree' = Append(tree, next)
    BY <1>0 DEF Building
  <2> HIDE DEF S
  <2>2. Append(tree, next) \in Seq(S) /\ Len(Append(tree, next)) = Len(tree) + 1
    BY <2>1
  <2>3. Append(tree, next) # <<>>
    BY <2>1, <2>2
  <2> QED BY <2>1, <2>2, <2>3 DEF S
<1>2. Len(tree) \in Nat
  BY <1>0 DEF Building
<1>3. depth' = Len(tree') - 1
  BY <1>0, <1>1, <1>2 DEF Building
<1>4. Level' = next
  BY <1>0, <1>1, <1>2 DEF Level, Building
<1>5. node' \in 0 .. Len(Level') + 1
  BY <1>0, <1>4 DEF Building
<1>6. Building'
  BY <1>0, <1>1, <1>3, <1>5 DEF Building
<1>7. NextInv'
  <2>1. \A t : t = <<>> => \A i \in DOMAIN t : t[i].status # "inner"
    OBVIOUS
  <2> QED BY <2>1 DEF NextInv
<1> QED BY <1>1, <1>4, <1>6, <1>7 DEF TreeInv

\* The types are kept by every step.
LEMMA NextType == IInv /\ [Next]_vars => TypeOK'
<1> SUFFICES ASSUME IInv, [Next]_vars PROVE TypeOK'
  OBVIOUS
<1>0. TypeOK
  BY DEF IInv
<1>a. Len(tree) \in Nat \ {0} /\ Level \in Seq(NodeType) /\ Len(Level) \in Nat
  BY <1>0 DEF TypeOK, Level
<1>1. CASE BeginRandomLevel
  <2>1. node' \in 0 .. Len(Level') + 1
    BY <1>1, <1>a DEF BeginRandomLevel, Level
  <2> QED BY <1>0, <1>1, <2>1 DEF TypeOK, BeginRandomLevel, Level
<1>2. CASE LeaveRandom
  BY <1>0, <1>2 DEF TypeOK, LeaveRandom, Level
<1>3. CASE BeginMinimumLevel
  <2>1. node' \in 0 .. Len(Level') + 1
    BY <1>3, <1>a DEF BeginMinimumLevel, Level
  <2> QED BY <1>0, <1>3, <2>1 DEF TypeOK, BeginMinimumLevel, Level
<1>4. CASE VisitLeaf
  <2>1. node' \in 0 .. Len(Level') + 1
    BY <1>4, <1>a DEF VisitLeaf, Level
  <2> QED BY <1>0, <1>4, <2>1 DEF TypeOK, VisitLeaf, Level
<1>5. ASSUME ExpandNode PROVE TypeOK'
  <2>1. PICK j \in Candidates(Level[node].symbol, PrunedHere) :
          ExpandWith(Grammar[Level[node].symbol][j])
    BY <1>5 DEF ExpandNode
  <2>2. Building'
    BY <1>5, <2>1, CandidatesAre, InputTree, ExpandedBuilding DEF TreeInv
  <2>3. UNCHANGED <<phase, inputs>>
    BY <2>1 DEF ExpandWith
  <2> QED BY <1>0, <2>2, <2>3 DEF TypeOK, Building
<1>6. CASE EndLevel
  <2>1. Building'
    BY <1>6, InputTree, AppendedBuilding DEF TreeInv
  <2>2. UNCHANGED <<phase, inputs>>
    BY <1>6 DEF EndLevel, EndLevelAt
  <2> QED BY <1>0, <2>1, <2>2 DEF TypeOK, Building
<1>7. CASE WriteInput
  <2> USE <1>7 DEF WriteInput, WriteInputAs
  <2>1. tree' \in Seq(Seq(NodeType)) /\ tree' # <<>> /\ Len(tree') = 1
    BY RootTreeType
  <2>2. Level' = RootTree[1]
    BY <2>1 DEF Level
  <2>3. node' \in 0 .. Len(Level') + 1
    BY <2>2, RootTreeType
  <2>4. inputs' \in 0 .. Num
    BY <1>0, BoundAssumption DEF TypeOK, BoundAssumption
  <2>5. phase' \in {"random", "minimum", "done"}
    OBVIOUS
  <2> QED BY <1>0, <2>1, <2>3, <2>4, <2>5 DEF TypeOK
<1>8. CASE UNCHANGED vars
  BY <1>0, <1>8 DEF TypeOK, vars, Level
<1> QED BY <1>1, <1>2, <1>3, <1>4, <1>5, <1>6, <1>7, <1>8
        DEF Next, Done, ExpandNodeRandomly, ExpandMinimumNode
\* So is NextInv.
LEMMA NextNextInv == IInv /\ [Next]_vars => NextInv'
<1> SUFFICES ASSUME IInv, [Next]_vars PROVE NextInv'
  OBVIOUS
<1>0. NextInv /\ next \in Seq(NodeType)
  BY DEF IInv, TypeOK
<1>1. CASE BeginRandomLevel \/ LeaveRandom \/ BeginMinimumLevel
  BY <1>0, <1>1 DEF NextInv, BeginRandomLevel, LeaveRandom, BeginMinimumLevel
<1>2. CASE VisitLeaf
  <2>1. node' # 0
    BY <1>2 DEF VisitLeaf, IInv, TypeOK, Level
  <2> QED BY <1>0, <1>2, <2>1 DEF NextInv, VisitLeaf
<1>3. ASSUME ExpandNode PROVE NextInv'
  <2>1. PICK j \in Candidates(Level[node].symbol, PrunedHere) :
          ExpandWith(Grammar[Level[node].symbol][j])
    BY <1>3 DEF ExpandNode
  <2> QED BY <1>3, <2>1, CandidatesAre, InputTree, ExpandedBuilding DEF TreeInv
<1>4. CASE EndLevel
  BY <1>4, InputTree, AppendedBuilding DEF TreeInv
<1>5. CASE WriteInput
  BY <1>0, <1>5 DEF WriteInput, WriteInputAs, NextInv
<1>6. CASE UNCHANGED vars
  BY <1>0, <1>6 DEF NextInv, vars
<1> QED BY <1>1, <1>2, <1>3, <1>4, <1>5, <1>6
        DEF Next, Done, ExpandNodeRandomly, ExpandMinimumNode

\* A step of the second loop: the children of a cheapest expansion are cheaper
\* than their parent.
LEMMA ExpandMinimumHeight ==
  ASSUME IInv, ExpandMinimumNode
  PROVE  HeightInv'
<1>0. /\ ExpandNode /\ phase = "minimum"
      /\ TreeInv /\ OpenHere
  BY InputTree DEF ExpandMinimumNode
<1>1. PICK j \in Candidates(Level[node].symbol, PrunedHere) :
        ExpandWith(Grammar[Level[node].symbol][j])
  BY <1>0 DEF ExpandNode
<1> DEFINE A    == Level[node].symbol
           alt  == Grammar[A][j]
           kids == Children(alt.exp, <<Len(tree), node>>)
<1>2. j \in Cheapest(A) /\ j \in DOMAIN Grammar[A]
  BY <1>0, <1>1, CandidatesAre DEF Candidates
<1>3. /\ next' = next \o kids /\ kids \in Seq(NodeType) /\ alt \in Alternative
      /\ Level' \in Seq(NodeType) /\ Len(Level') = Len(Level)
      /\ \A i \in 1 .. Len(Level) : i # node => Level'[i] = Level[i]
      /\ Level'[node].status = "inner"
      /\ tree' \in Seq(Seq(NodeType)) /\ Len(tree') = Len(tree)
  BY <1>0, <1>1, <1>2, Expanded
<1>4. /\ A \in Nonterminals /\ node \in 1 .. Len(Level)
      /\ Len(tree) \in Nat \ {0} /\ Level \in Seq(NodeType)
      /\ depth \in Nat
  BY <1>0, OpenNode
<1>5. phase' = "minimum" /\ depth' = depth /\ node' = node + 1
  BY <1>0, <1>1 DEF ExpandWith
<1>6. HeightInv /\ next \in Seq(NodeType)
  BY DEF IInv, TypeOK
<1>7. depth + MinCost(A) <= MaxDepths + CostBound
  BY <1>0, <1>4, <1>6 DEF HeightInv, ExpandNode
<1>8. depth <= MaxDepths + CostBound
  BY <1>0, <1>4, <1>6 DEF HeightInv
<1>9. \A k \in DOMAIN kids : kids[k].status = "open" =>
        depth + 1 + MinCost(kids[k].symbol) <= MaxDepths + CostBound
  <2> SUFFICES ASSUME NEW k \in DOMAIN kids, kids[k].status = "open"
               PROVE  depth + 1 + MinCost(kids[k].symbol) <= MaxDepths + CostBound
    OBVIOUS
  <2>1. kids = Children(alt.exp, <<Len(tree), node>>)
    OBVIOUS
  <2>2. k \in DOMAIN alt.exp /\ kids[k].symbol = alt.exp[k] /\ alt.exp[k] \in Nonterminals
    <3> HIDE DEF kids, alt
    <3>1. <<Len(tree), node>> \in Nat \X Nat
      BY <1>4
    <3> QED BY <1>3, <2>1, <3>1, ChildrenOf
  <2>4. Cost(A, j) = MinCost(A)
    BY <1>2 DEF Cheapest
  <2>5. MinCost(alt.exp[k]) < MinCost(A)
    BY <1>2, <1>4, <2>2, <2>4, CostAssumption DEF CostAssumption
  <2>6. MinCost(A) \in Nat /\ MinCost(alt.exp[k]) \in Nat
    BY <1>4, <2>2, CheapestExists
  <2> HIDE DEF A, alt, kids
  <2> QED BY <1>4, <1>7, <2>2, <2>5, <2>6, BoundAssumption DEF BoundAssumption
<1>10. \A i \in DOMAIN next' : next'[i].status = "open" =>
         depth + 1 + MinCost(next'[i].symbol) <= MaxDepths + CostBound
  <2> HIDE DEF kids, alt, A
  <2>1. \A i \in DOMAIN next : next[i].status = "open" =>
          depth + 1 + MinCost(next[i].symbol) <= MaxDepths + CostBound
    BY <1>0, <1>6 DEF HeightInv
  <2> QED BY <1>3, <1>6, <1>9, <2>1, Extended
<1>11. \A i \in DOMAIN Level' : Level'[i].status = "open" =>
         depth + MinCost(Level'[i].symbol) <= MaxDepths + CostBound
  <2> HIDE DEF kids, alt, A
  <2>2. DOMAIN Level' = 1 .. Len(Level) /\ DOMAIN Level = 1 .. Len(Level)
    BY <1>3, <1>4
  <2>3. \A i \in 1 .. Len(Level) : Level[i].status = "open" =>
          depth + MinCost(Level[i].symbol) <= MaxDepths + CostBound
    BY <1>0, <1>6, <2>2 DEF HeightInv
  <2> SUFFICES ASSUME NEW i \in 1 .. Len(Level), Level'[i].status = "open"
               PROVE  depth + MinCost(Level'[i].symbol) <= MaxDepths + CostBound
    BY <2>2
  <2>4. i # node
    BY <1>3
  <2>5. Level'[i] = Level[i]
    BY <1>3, <2>4
  <2> QED BY <2>3, <2>5
<1>12. depth <= MaxDepths + CostBound + 1
  BY <1>4, <1>8, BoundAssumption DEF BoundAssumption
<1> HIDE DEF kids, alt, A
<1> QED BY <1>5, <1>8, <1>10, <1>11, <1>12 DEF HeightInv
\* So is the measure of the height.
LEMMA NextHeightInv == IInv /\ [Next]_vars => HeightInv'
<1> SUFFICES ASSUME IInv, [Next]_vars PROVE HeightInv'
  OBVIOUS
<1>0. HeightInv /\ TypeOK /\ NextInv
  BY DEF IInv
<1>a. /\ depth \in Nat /\ Level \in Seq(NodeType) /\ Len(Level) \in Nat
      /\ MaxDepths \in Nat /\ CostBound \in Nat
  BY <1>0, BoundAssumption DEF TypeOK, Level, BoundAssumption
<1>b. \A i \in DOMAIN Level : Level[i].status = "open" =>
        /\ MinCost(Level[i].symbol) \in Nat
        /\ MinCost(Level[i].symbol) <= CostBound
  <2> SUFFICES ASSUME NEW i \in DOMAIN Level, Level[i].status = "open"
               PROVE  /\ MinCost(Level[i].symbol) \in Nat
                      /\ MinCost(Level[i].symbol) <= CostBound
    OBVIOUS
  <2>1. Level[i].symbol \in Nonterminals
    BY <1>a DEF NodeType
  <2> QED BY <2>1, CheapestExists, CostAssumption DEF CostAssumption
<1>1. CASE BeginRandomLevel
  BY <1>0, <1>1 DEF HeightInv, BeginRandomLevel, ExpandCheck
<1>2. CASE LeaveRandom
  <2>1. phase = "random" /\ phase' = "minimum" /\ next' = <<>> /\ node' = 0
        /\ Level' = Level /\ depth' = depth /\ depth <= MaxDepths
    BY <1>0, <1>2 DEF LeaveRandom, NextInv, HeightInv, Level
  <2>2. depth <= MaxDepths + CostBound + 1
    BY <1>a, <2>1
  <2>3. \A i \in DOMAIN Level : Level[i].status = "open" =>
          depth + MinCost(Level[i].symbol) <= MaxDepths + CostBound
    BY <1>a, <1>b, <2>1
  <2> QED BY <2>1, <2>2, <2>3 DEF HeightInv
<1>3. CASE BeginMinimumLevel
  <2>1. PICK i \in DOMAIN Level : Level[i].status = "open"
    BY <1>3 DEF BeginMinimumLevel, AnyOpen
  <2>2. depth <= MaxDepths + CostBound
    <3>1. depth + MinCost(Level[i].symbol) <= MaxDepths + CostBound
      BY <1>0, <1>3, <2>1 DEF HeightInv, BeginMinimumLevel
    <3> QED BY <1>a, <1>b, <2>1, <3>1
  <2>3. /\ phase = "minimum" /\ phase' = "minimum" /\ Level' = Level
        /\ depth' = depth /\ next' = next
    BY <1>3 DEF BeginMinimumLevel, Level
  <2> QED BY <1>0, <2>2, <2>3 DEF HeightInv
<1>4. CASE VisitLeaf
  <2>1. /\ phase' = phase /\ Level' = Level /\ depth' = depth /\ next' = next
        /\ node > 0
    BY <1>a, <1>4 DEF VisitLeaf, Level
  <2> QED BY <1>0, <2>1 DEF HeightInv
<1>5. CASE ExpandNodeRandomly
  <2>1. /\ phase = "random" /\ phase' = "random" /\ depth' = depth
    BY <1>5 DEF ExpandNodeRandomly, ExpandNode, ExpandWith
  <2>2. node > 0
    BY <1>5, OpenNode, InputTree DEF ExpandNodeRandomly
  <2> QED BY <1>0, <2>1, <2>2 DEF HeightInv
<1>6. CASE ExpandMinimumNode
  BY <1>6, ExpandMinimumHeight
<1>7. CASE EndLevel
  <2>1. /\ phase' = phase /\ depth' = depth + 1 /\ next' = <<>> /\ node' = 0
        /\ node = Len(Level) + 1 /\ tree' = Append(tree, next)
    BY <1>7 DEF EndLevel, EndLevelAt
  <2>2. Level' = next
    BY <1>0, <2>1 DEF Level, TypeOK
  <2>3. node > 0 /\ phase # "done"
    <3>1. node > 0
      BY <1>a, <2>1
    <3>2. phase # "done"
      BY <1>0, <2>1, <3>1 DEF HeightInv
    <3> QED BY <3>1, <3>2
  <2>4. CASE phase = "random"
    BY <1>0, <1>a, <2>1, <2>3, <2>4 DEF HeightInv
  <2>5. CASE phase = "minimum"
    <3>1. depth + 1 <= MaxDepths + CostBound + 1
      BY <1>0, <1>a, <2>3, <2>5 DEF HeightInv
    <3>2. \A i \in DOMAIN Level' : Level'[i].status = "open" =>
            depth + 1 + MinCost(Level'[i].symbol) <= MaxDepths + CostBound
      BY <1>0, <2>2, <2>5 DEF HeightInv
    <3> QED BY <2>1, <2>5, <3>1, <3>2 DEF HeightInv
  <2> QED BY <1>0, <2>3, <2>4, <2>5 DEF TypeOK
<1>8. CASE WriteInput
  <2>1. /\ phase' \in {"random", "done"} /\ depth' = 0 /\ node' = 0
    BY <1>8 DEF WriteInput, WriteInputAs
  <2> QED BY <1>a, <2>1 DEF HeightInv
<1>9. CASE UNCHANGED vars
  BY <1>0, <1>9 DEF HeightInv, vars, Level
<1> QED BY <1>1, <1>2, <1>3, <1>4, <1>5, <1>6, <1>7, <1>8, <1>9 DEF Next, Done

\* The invariant is kept by every step.
LEMMA NextIInv == IInv /\ [Next]_vars => IInv'
BY NextType, NextNextInv, NextHeightInv DEF IInv

\* The generator's state keeps its type: the depth counter follows the tree and
\* only ids of the rule table are ever matched.
THEOREM TypeCorrect == Spec => []TypeOK
<1>1. IInv => TypeOK
  BY DEF IInv
<1> QED BY <1>1, InitIInv, NextIInv, PTL DEF Spec

\* No tree is higher than MaxDepths + CostBound + 2 levels: the second loop of
\* generate_input, which has no limit of its own, cannot run away.
THEOREM TreesBounded == Spec => []HeightBounded
<1>1. IInv => HeightBounded
  <2> SUFFICES ASSUME IInv PROVE HeightBounded
    OBVIOUS
  <2>1. Len(tree) = depth + 1 /\ depth \in Nat /\ MaxDepths \in Nat /\ CostBound \in Nat
    BY BoundAssumption DEF BoundAssumption, IInv, TypeOK
  <2>2. depth <= MaxDepths + CostBound + 1
    <3>1. CASE phase = "random"
      BY <2>1, <3>1 DEF IInv, HeightInv
    <3>2. CASE phase = "minimum"
      BY <3>2 DEF IInv, HeightInv
    <3>3. CASE phase = "done"
      BY <2>1, <3>3 DEF IInv, HeightInv
    <3> QED BY <3>1, <3>2, <3>3 DEF IInv, TypeOK
  <2> QED BY <2>1, <2>2 DEF HeightBounded
<1> QED BY <1>1, InitIInv, NextIInv, PTL DEF Spec
-------------------------------------------------------------------------------
(* The matched sub-sequences are those of the tree.                        *)

\* TreeContains, of any tree.
HasNode(t, key) ==
  \E d \in DOMAIN t : \E i \in DOMAIN t[d] :
    /\ t[d][i].status = "inner"
    /\ t[d][i].symbol = key[1] /\ t[d][i].dn = key[2]
    /\ SatisfyPreSeq(Skeleton(t, d), key[3], i)

\* Where satisfy_pre_seq finds a sub-sequence.
LEMMA ContainsIs ==
  /\ \A key : TreeContains(key) <=> HasNode(tree, key)
  /\ \A key : TreeContains(key)' <=> HasNode(tree', key)
BY DEF TreeContains, HasNode

\* Expanding a node leaves what satisfy_pre_seq reads of the tree as it is.
LEMMA SkeletonKept ==
  ASSUME TreeInv, OpenHere,
         NEW j \in DOMAIN Grammar[Level[node].symbol],
         ExpandWith(Grammar[Level[node].symbol][j])
  PROVE  \A d \in 1 .. Len(tree) : Skeleton(tree', d) = Skeleton(tree, d)
<1>1. /\ tree \in Seq(Seq(NodeType)) /\ Len(tree) \in Nat \ {0}
      /\ Level = tree[Len(tree)] /\ Level' = tree'[Len(tree)]
      /\ Level \in Seq(NodeType) /\ Level' \in Seq(NodeType)
      /\ Len(Level') = Len(Level)
      /\ \A e \in 1 .. Len(tree) - 1 : tree'[e] = tree[e]
  BY OpenNode, Expanded DEF TreeInv, Building, Level
<1>2. \A i \in 1 .. Len(Level) : /\ Level'[i].symbol = Level[i].symbol
                                /\ Level'[i].parent = Level[i].parent
  BY Expanded
<1> DEFINE Row(t, k) == [i \in DOMAIN t[k] |->
                           [symbol |-> t[k][i].symbol, parent |-> t[k][i].parent]]
<1>3. \A k \in 1 .. Len(tree) : Row(tree', k) = Row(tree, k)
  <2> SUFFICES ASSUME NEW k \in 1 .. Len(tree)
               PROVE  Row(tree', k) = Row(tree, k)
    OBVIOUS
  <2>1. CASE k < Len(tree)
    <3>1. tree'[k] = tree[k]
      BY <1>1, <2>1
    <3> QED BY <3>1
  <2>2. CASE k = Len(tree)
    <3>1. tree'[k] = Level' /\ tree[k] = Level
      BY <1>1, <2>2
    <3>2. DOMAIN Level' = 1 .. Len(Level) /\ DOMAIN Level = 1 .. Len(Level)
      BY <1>1
    <3> QED BY <1>2, <3>1, <3>2
  <2> QED BY <1>1, <2>1, <2>2
<1>4. SUFFICES ASSUME NEW d \in 1 .. Len(tree)
               PROVE  Skeleton(tree', d) = Skeleton(tree, d)
  OBVIOUS
<1>5. /\ Skeleton(tree', d) = [k \in 1 .. d |-> Row(tree', k)]
      /\ Skeleton(tree, d)  = [k \in 1 .. d |-> Row(tree, k)]
  BY DEF Skeleton
<1>6. 1 .. d \subseteq 1 .. Len(tree)
  BY <1>1
<1> HIDE DEF Row
<1> QED BY <1>3, <1>5, <1>6
\* After an expansion the tree contains what it contained before, and what
\* NewlyMatched finds.
LEMMA HasNodeExpanded ==
  ASSUME TreeInv, OpenHere,
         NEW j \in DOMAIN Grammar[Level[node].symbol],
         ExpandWith(Grammar[Level[node].symbol][j]),
         NEW key
  PROVE  HasNode(tree', key) <=>
           \/ HasNode(tree, key)
           \/ /\ key[1] = Level[node].symbol
              /\ key[2] = Grammar[Level[node].symbol][j].dn
              /\ SatisfyPreSeq(Skeleton(tree, Len(tree)), key[3], node)
<1> DEFINE last == Len(tree)
           alt  == Grammar[Level[node].symbol][j]
           Hit(t, d, i) == /\ t[d][i].status = "inner"
                           /\ t[d][i].symbol = key[1] /\ t[d][i].dn = key[2]
                           /\ SatisfyPreSeq(Skeleton(t, d), key[3], i)
<1>1. /\ tree \in Seq(Seq(NodeType)) /\ tree' \in Seq(Seq(NodeType))
      /\ last \in Nat \ {0} /\ Len(tree') = last
      /\ Level = tree[last] /\ Level' = tree'[last]
      /\ Level \in Seq(NodeType) /\ Level' \in Seq(NodeType)
      /\ Len(Level') = Len(Level) /\ node \in 1 .. Len(Level)
      /\ \A e \in 1 .. last - 1 : tree'[e] = tree[e]
      /\ \A i \in 1 .. Len(Level) : i # node => Level'[i] = Level[i]
  BY OpenNode, Expanded DEF TreeInv, Building, Level
<1>2. /\ Level[node].status = "open" /\ Level'[node].status = "inner"
      /\ Level'[node].symbol = Level[node].symbol /\ Level'[node].dn = alt.dn
  BY Expanded DEF OpenHere
<1>3. \A d \in 1 .. last : Skeleton(tree', d) = Skeleton(tree, d)
  BY SkeletonKept
<1>4. DOMAIN tree = 1 .. last /\ DOMAIN tree' = 1 .. last
  BY <1>1
<1>5. \A d \in 1 .. last : DOMAIN tree'[d] = DOMAIN tree[d]
  <2> SUFFICES ASSUME NEW d \in 1 .. last PROVE DOMAIN tree'[d] = DOMAIN tree[d]
    OBVIOUS
  <2>1. CASE d < last
    BY <1>1, <2>1
  <2>2. CASE d = last
    BY <1>1, <2>2
  <2> QED BY <1>1, <2>1, <2>2
<1>6. node \in DOMAIN tree[last] /\ last \in 1 .. last
  BY <1>1
<1>7. ASSUME NEW d \in 1 .. last, NEW i \in DOMAIN tree[d], ~ (d = last /\ i = node)
      PROVE  Hit(tree', d, i) <=> Hit(tree, d, i)
  <2>1. tree'[d][i] = tree[d][i]
    <3>1. CASE d < last
      <4>1. d \in 1 .. last - 1
        BY <1>1, <3>1
      <4>2. tree'[d] = tree[d]
        BY <1>1, <4>1
      <4> HIDE DEF last
      <4> QED BY <4>2
    <3>2. CASE d = last
      <4>1. i \in 1 .. Len(Level) /\ i # node
        BY <1>1, <1>7, <3>2
      <4> QED BY <1>1, <3>2, <4>1
    <3> QED BY <1>1, <3>1, <3>2
  <2>2. Skeleton(tree', d) = Skeleton(tree, d)
    BY <1>3
  <2> QED BY <2>1, <2>2
<1>8. ~ Hit(tree, last, node)
  BY <1>1, <1>2
<1>9. Hit(tree', last, node) <=>
        /\ key[1] = Level[node].symbol /\ key[2] = alt.dn
        /\ SatisfyPreSeq(Skeleton(tree, last), key[3], node)
  <2>1. Skeleton(tree', last) = Skeleton(tree, last)
    BY <1>3, <1>6
  <2> HIDE DEF alt
  <2> QED BY <1>1, <1>2, <2>1
<1>10. HasNode(tree', key) <=>
         \E d \in 1 .. last : \E i \in DOMAIN tree[d] : Hit(tree', d, i)
  BY <1>4, <1>5 DEF HasNode
<1>11. HasNode(tree, key) <=>
         \E d \in 1 .. last : \E i \in DOMAIN tree[d] : Hit(tree, d, i)
  BY <1>4 DEF HasNode
<1> HIDE DEF Hit, alt, last
<1>12. (\E d \in 1 .. last : \E i \in DOMAIN tree[d] : Hit(tree', d, i)) <=>
         \/ \E d \in 1 .. last : \E i \in DOMAIN tree[d] : Hit(tree, d, i)
         \/ Hit(tree', last, node)
  BY <1>6, <1>7, <1>8, Zenon
<1> QED BY <1>9, <1>10, <1>11, <1>12 DEF alt, last

\* Appending a level of which nothing is expanded adds nothing either.
LEMMA HasNodeAppended ==
  ASSUME TreeInv, EndLevel, NEW key
  PROVE  HasNode(tree', key) <=> HasNode(tree, key)
<1> DEFINE last == Len(tree)
           Hit(t, d, i) == /\ t[d][i].status = "inner"
                           /\ t[d][i].symbol = key[1] /\ t[d][i].dn = key[2]
                           /\ SatisfyPreSeq(Skeleton(t, d), key[3], i)
<1>1. /\ tree' = Append(tree, next)
      /\ tree \in Seq(Seq(NodeType)) /\ next \in Seq(NodeType)
  BY DEF EndLevel, EndLevelAt, TreeInv, Building
<1>2. /\ last \in Nat
      /\ DOMAIN tree = 1 .. last /\ DOMAIN tree' = 1 .. last + 1
      /\ \A d \in 1 .. last : tree'[d] = tree[d]
      /\ tree'[last + 1] = next
  <2> DEFINE S == Seq(NodeType)
  <2>1. tree \in Seq(S) /\ next \in S
    BY <1>1
  <2> HIDE DEF S
  <2> QED BY <1>1, <2>1
<1> HIDE DEF last
<1>3. ASSUME NEW d \in 1 .. last
      PROVE  Skeleton(tree', d) = Skeleton(tree, d)
  <2> DEFINE Row(t, k) == [i \in DOMAIN t[k] |->
                             [symbol |-> t[k][i].symbol, parent |-> t[k][i].parent]]
  <2>1. \A k \in 1 .. d : Row(tree', k) = Row(tree, k)
    <3> SUFFICES ASSUME NEW k \in 1 .. d PROVE Row(tree', k) = Row(tree, k)
      OBVIOUS
    <3>1. k \in 1 .. last
      BY <1>2
    <3>2. tree'[k] = tree[k]
      BY <1>2, <3>1
    <3> QED BY <3>2
  <2>2. /\ Skeleton(tree', d) = [k \in 1 .. d |-> Row(tree', k)]
        /\ Skeleton(tree, d)  = [k \in 1 .. d |-> Row(tree, k)]
    BY DEF Skeleton
  <2> HIDE DEF Row
  <2> QED BY <2>1, <2>2
<1>4. ASSUME NEW d \in 1 .. last, NEW i \in DOMAIN tree[d]
      PROVE  Hit(tree', d, i) <=> Hit(tree, d, i)
  BY <1>2, <1>3
<1>5. \A i \in DOMAIN next : ~ Hit(tree', last + 1, i)
  BY <1>2 DEF TreeInv, NextInv
<1>6. \A d \in 1 .. last : DOMAIN tree'[d] = DOMAIN tree[d]
  BY <1>2
<1>7. /\ last + 1 \in 1 .. last + 1
      /\ \A d \in 1 .. last + 1 : d \in 1 .. last \/ d = last + 1
      /\ \A d \in 1 .. last : d \in 1 .. last + 1
  BY <1>2
<1>8. HasNode(tree', key) <=>
        \E d \in 1 .. last + 1 : \E i \in DOMAIN tree'[d] : Hit(tree', d, i)
  BY <1>2 DEF HasNode
<1>9. HasNode(tree, key) <=>
        \E d \in 1 .. last : \E i \in DOMAIN tree[d] : Hit(tree, d, i)
  BY <1>2 DEF HasNode
<1>10. DOMAIN tree'[last + 1] = DOMAIN next
  BY <1>2
<1> HIDE DEF Hit
<1> QED BY <1>4, <1>5, <1>6, <1>7, <1>8, <1>9, <1>10, Zenon

\* A tree of which only the root is there contains no sub-sequence.
LEMMA HasNoNode == \A key : ~ HasNode(RootTree, key)
<1>1. /\ DOMAIN RootTree = {1} /\ DOMAIN RootTree[1] = {1}
      /\ RootTree[1][1].status = "open"
  BY DEF RootTree, NewNode
<1> QED BY <1>1 DEF HasNode

\* The ids of the sub-sequences that a tree contains.
IdsOf(t) == {table.subs[key] : key \in {k \in DOMAIN table.subs : HasNode(t, k)}}

\* What is matched in a tree, by ids.
LEMMA MatchedIs ==
  /\ MatchedExact <=> tmpSubSeqs = IdsOf(tree)
  /\ table' = table => (MatchedExact' <=> tmpSubSeqs' = IdsOf(tree'))
BY ContainsIs DEF MatchedExact, IdsOf

\* An expansion and the end of a level keep tmp_sub_seqs in line with the tree.
LEMMA ExpandedMatched ==
  ASSUME TreeInv, OpenHere, MatchedExact,
         NEW j \in DOMAIN Grammar[Level[node].symbol],
         ExpandWith(Grammar[Level[node].symbol][j])
  PROVE  MatchedExact'
<1> DEFINE dn == Grammar[Level[node].symbol][j].dn
           New(key) == /\ key[1] = Level[node].symbol
                       /\ key[2] = dn
                       /\ SatisfyPreSeq(Skeleton(tree, Len(tree)), key[3], node)
<1>1. tmpSubSeqs = IdsOf(tree)
  BY MatchedIs
<1>2. \A key : HasNode(tree', key) <=> HasNode(tree, key) \/ New(key)
  BY HasNodeExpanded
<1>3. /\ tmpSubSeqs' = tmpSubSeqs \cup
           NewlyMatched(Level[node].symbol, dn, Skeleton(tree, Len(tree)), node)
      /\ table' = table
  BY DEF ExpandWith
<1>4. NewlyMatched(Level[node].symbol, dn, Skeleton(tree, Len(tree)), node)
        = {table.subs[key] : key \in {k \in DOMAIN table.subs : New(k)}}
  BY DEF NewlyMatched
<1> HIDE DEF New, dn
<1>5. IdsOf(tree') = IdsOf(tree) \cup
        {table.subs[key] : key \in {k \in DOMAIN table.subs : New(k)}}
  BY <1>2 DEF IdsOf
<1> QED BY <1>1, <1>3, <1>4, <1>5, MatchedIs

\* Appending a level matches nothing new.
LEMMA AppendedMatched ==
  ASSUME TreeInv, EndLevel, MatchedExact
  PROVE  MatchedExact'
<1>1. UNCHANGED <<table, tmpSubSeqs>>
  BY DEF EndLevel, EndLevelAt
<1>2. \A key : HasNode(tree', key) <=> HasNode(tree, key)
  BY HasNodeAppended
<1>3. IdsOf(tree') = IdsOf(tree)
  BY <1>2 DEF IdsOf
<1> QED BY <1>1, <1>3, MatchedIs

\* A new tree has none.
LEMMA NoneMatched ==
  ASSUME tree' = RootTree, tmpSubSeqs' = {}, table' = table
  PROVE  MatchedExact'
<1>1. IdsOf(RootTree) = {}
  BY HasNoNode DEF IdsOf
<1> QED BY <1>1, MatchedIs

\* Every step matches what it adds.
LEMMA NextMatched == IInv /\ MatchedExact /\ [Next]_vars => MatchedExact'
<1> SUFFICES ASSUME IInv, MatchedExact, [Next]_vars
             PROVE  MatchedExact'
  OBVIOUS
<1>1. tmpSubSeqs = IdsOf(tree)
  BY MatchedIs
<1>2. ASSUME UNCHANGED <<table, tree, tmpSubSeqs>>
      PROVE  MatchedExact'
  BY <1>1, <1>2, MatchedIs
<1>3. CASE BeginRandomLevel \/ LeaveRandom \/ BeginMinimumLevel \/ VisitLeaf
  BY <1>2, <1>3 DEF BeginRandomLevel, LeaveRandom, BeginMinimumLevel, VisitLeaf
<1>4. CASE ExpandNode
  <2>1. PICK j \in DOMAIN Grammar[Level[node].symbol] :
          ExpandWith(Grammar[Level[node].symbol][j])
    BY <1>4, CandidatesAre DEF ExpandNode
  <2> QED BY <1>4, <2>1, InputTree, ExpandedMatched
<1>5. CASE EndLevel
  BY <1>5, InputTree, AppendedMatched
<1>6. CASE WriteInput
  BY <1>6, NoneMatched DEF WriteInput, WriteInputAs
<1>7. CASE Done \/ UNCHANGED vars
  BY <1>2, <1>7 DEF Done, vars
<1> QED BY <1>3, <1>4, <1>5, <1>6, <1>7
        DEF Next, ExpandNodeRandomly, ExpandMinimumNode

\* Theorem: at every moment tmp_sub_seqs holds exactly the sub-sequences of
\* the rule table that the tree under construction contains, so the pruning
\* of prune_children is decided on what the tree really is.
THEOREM MatchedExactly == Spec => []MatchedExact
<1>1. Init => MatchedExact
  <2> SUFFICES ASSUME Init PROVE MatchedExact
    OBVIOUS
  <2>1. IdsOf(RootTree) = {}
    BY HasNoNode DEF IdsOf
  <2> QED BY <2>1, MatchedIs DEF Init
<1>2. IInv /\ MatchedExact /\ [Next]_vars => (IInv /\ MatchedExact)'
  BY NextIInv, NextMatched
<1> QED BY <1>1, <1>2, InitIInv, PTL DEF Spec
-------------------------------------------------------------------------------
(* Guidance gives way only when it must.                                   *)

\* If an expansion supplies the one id that a rule still lacks, its
\* derivation number was pruned.
LEMMA MissingIsPruned ==
  ASSUME TreeInv, NEW rule \in RuleSets, NEW id, rule \ tmpSubSeqs = {id},
         NEW dn,
         id \in NewlyMatched(Level[node].symbol, dn, Skeleton(tree, Len(tree)), node)
  PROVE  dn \in PrunedHere
<1>1. WellFormed(table)
  BY TableAssumption DEF TableAssumption, TreeInv, Building
<1>2. PICK A \in DOMAIN table.rules : \E r \in table.rules[A] : r[2] = rule
  BY DEF RuleSets
<1>3. PICK r \in table.rules[A] : r[2] = rule
  BY <1>2
<1>4. PICK k \in DOMAIN table.subs :
        /\ table.subs[k] = id
        /\ k[1] = Level[node].symbol /\ k[2] = dn
        /\ SatisfyPreSeq(Skeleton(tree, Len(tree)), k[3], node)
  BY DEF NewlyMatched
<1> DEFINE sub == SubSequence(k[3], k[2])
<1>5. /\ table.paths[id] = k[3]
      /\ LastSymbol(sub) = Level[node].symbol /\ sub.dn = dn
  BY <1>1, <1>4 DEF WellFormed, LastSymbol, SubSequence
<1>6. sub \in Decode(table, rule)
  BY <1>4 DEF Decode
<1>7. \A s \in Decode(table, r[2]) :
        <<s.dn, r[2]>> \in Lookup(table.rules, LastSymbol(s), {})
  BY <1>1, <1>3 DEF WellFormed
<1>8. <<dn, rule>> \in Lookup(table.rules, Level[node].symbol, {})
  BY <1>3, <1>5, <1>6, <1>7
<1>9. SatisfyPreSeq(Skeleton(tree, Len(tree)), table.paths[id], node)
  BY <1>4, <1>5
<1> DEFINE entry == <<dn, rule>>
<1>10. id \in entry[2] /\ entry[2] \ tmpSubSeqs = {id} /\ entry[1] = dn
  OBVIOUS
<1> QED BY <1>8, <1>9, <1>10 DEF PrunedHere, Pruned

\* A pruned expansion is a candidate only if every alternative is pruned.
LEMMA PrunedOnlyWhenCornered ==
  ASSUME NEW j \in Candidates(Level[node].symbol, PrunedHere),
         Grammar[Level[node].symbol][j].dn \in PrunedHere
  PROVE  \A k \in Alternatives : Grammar[Level[node].symbol][k].dn \in PrunedHere
<1> DEFINE A    == Level[node].symbol
           free(cand) == {k \in cand : Grammar[A][k].dn \notin PrunedHere}
<1>1. ASSUME NEW cand, j \in Unpruned(A, cand, PrunedHere)
      PROVE  \A k \in cand : Grammar[A][k].dn \in PrunedHere
  <2>1. free(cand) = {}
    BY <1>1 DEF Unpruned
  <2> QED BY <2>1
<1>2. CASE phase = "random"
  <2>1. j \in Unpruned(A, DOMAIN Grammar[A], PrunedHere)
    BY <1>2 DEF Candidates, RandomCandidates
  <2> QED BY <1>1, <1>2, <2>1 DEF Alternatives
<1>3. CASE phase # "random"
  <2>1. j \in Unpruned(A, Cheapest(A), PrunedHere)
    BY <1>3 DEF Candidates, MinimumCandidates
  <2> QED BY <1>1, <1>3, <2>1 DEF Alternatives
<1> QED BY <1>2, <1>3

\* One step of the generator.
LEMMA NextCornered ==
  ASSUME IInv, [Next]_vars,
         NEW rule \in RuleSets, Completes(rule, tmpSubSeqs, tmpSubSeqs'),
         NEW id \in rule, rule \ tmpSubSeqs = {id}
  PROVE  \A j \in Alternatives : Grammar[Level[node].symbol][j].dn \in PrunedHere
<1>1. id \in tmpSubSeqs' /\ id \notin tmpSubSeqs
  BY DEF Completes
<1>2. ExpandNode
  BY <1>1 DEF Next, vars, BeginRandomLevel, LeaveRandom, BeginMinimumLevel,
              VisitLeaf, ExpandNodeRandomly, ExpandMinimumNode, EndLevel,
              EndLevelAt, WriteInput, WriteInputAs, Done
<1>3. PICK j \in Candidates(Level[node].symbol, PrunedHere) :
        ExpandWith(Grammar[Level[node].symbol][j])
  BY <1>2 DEF ExpandNode
<1>4. id \in NewlyMatched(Level[node].symbol, Grammar[Level[node].symbol][j].dn,
                          Skeleton(tree, Len(tree)), node)
  BY <1>1, <1>3 DEF ExpandWith
<1>5. Grammar[Level[node].symbol][j].dn \in PrunedHere
  BY <1>4, MissingIsPruned, InputTree
<1> QED BY <1>5, PrunedOnlyWhenCornered

\* Theorem: whatever the grammar and the rule table, a step that completes a
\* rule of which a single sub-sequence was missing is taken only where
\* prune_children had pruned every expansion there was to choose from.
THEOREM Cornered == Spec => CompletesOnlyWhenCornered
<1> DEFINE A == \A rule \in RuleSets :
                  /\ Completes(rule, tmpSubSeqs, tmpSubSeqs')
                  /\ \E id \in rule : rule \ tmpSubSeqs = {id}
                  => \A j \in Alternatives :
                       Grammar[Level[node].symbol][j].dn \in PrunedHere
<1>1. IInv /\ [Next]_vars => A
  BY NextCornered
<1>2. IInv /\ [Next]_vars => IInv'
  BY NextIInv
<1>3. IInv /\ [Next]_vars => [A]_vars
  BY <1>1
<1> HIDE DEF A
<1>4. Spec => [][A]_vars
  BY <1>2, <1>3, InitIInv, PTL DEF Spec
<1> QED BY <1>4 DEF CompletesOnlyWhenCornered, A

-----------------------------------------------------------------------------
(* The k-path generator: the path to the slot.                             *)

\* pos has a node of each of the first d levels of t, each the child of the one
\* before; and the symbols of those nodes.
Descends(t, pos, d) ==
  /\ \A k \in 1 .. d : pos[k] \in DOMAIN t[k]
  /\ \A k \in 1 .. d - 1 : t[k + 1][pos[k + 1]].parent = <<k, pos[k]>>
SymbolsAt(t, pos, d) == [k \in 1 .. d |-> t[k][pos[k]].symbol]

\* The places from the root to node i of level d, by parent pointers.
UpFrom(sk, d, i) ==
  CHOOSE f : f = [k \in 1 .. d |-> IF k = d THEN <<d, i>>
                                   ELSE sk[f[k + 1][1]][f[k + 1][2]].parent]

\* Each of the nodes at pos has the one before as its parent.
Linked(sk, pos, d) == \A k \in 1 .. d - 1 : sk[k + 1][pos[k + 1]].parent = <<k, pos[k]>>
UpAlong(sk, pos, d) == \A k \in 1 .. d : UpFrom(sk, d, pos[d])[k] = <<k, pos[k]>>

LEMMA UpFromIs ==
  ASSUME NEW sk, NEW d \in Nat \ {0}, NEW pos, Linked(sk, pos, d)
  PROVE  UpAlong(sk, pos, d)
<1> DEFINE Step(f) == [k \in 1 .. d |-> IF k = d THEN <<d, pos[d]>>
                                        ELSE sk[f[k + 1][1]][f[k + 1][2]].parent]
           at == CHOOSE f : f = Step(f)
           path == [k \in 1 .. d |-> <<k, pos[k]>>]
<1>3. path = Step(path)
  <2> SUFFICES ASSUME NEW k \in 1 .. d, k # d
               PROVE  sk[path[k + 1][1]][path[k + 1][2]].parent = <<k, pos[k]>>
    OBVIOUS
  <2>1. k + 1 \in 1 .. d /\ k \in 1 .. d - 1
    OBVIOUS
  <2> QED BY <2>1 DEF Linked
<1>4. at = Step(at)
  BY <1>3
<1> DEFINE Differ == {n \in Nat : n < d /\ at[d - n] # path[d - n]}
<1>5. Differ = {}
  <2> SUFFICES ASSUME Differ # {} PROVE FALSE
    OBVIOUS
  <2>1. PICK n \in Differ : \A m \in Differ : n <= m
    <3>1. Differ \subseteq Nat
      OBVIOUS
    <3> HIDE DEF Differ
    <3> QED BY <3>1, LeastNat
  <2>2. n \in Nat /\ n < d /\ at[d - n] # path[d - n]
    OBVIOUS
  <2> HIDE DEF at
  <2>3. n # 0
    <3>0. d \in 1 .. d /\ d - 0 = d
      OBVIOUS
    <3>1. path[d] = <<d, pos[d]>> /\ Step(at)[d] = <<d, pos[d]>> /\ d - 0 = d
      BY <3>0
    <3>2. at[d] = Step(at)[d]
      BY <1>4
    <3> HIDE DEF path, Step
    <3> QED BY <2>2, <3>1, <3>2
  <2>4. at[d - n + 1] = path[d - n + 1]
    <3>1. n - 1 \in Nat /\ n - 1 < d /\ ~ (n <= n - 1) /\ d - (n - 1) = d - n + 1
      BY <2>2, <2>3
    <3> QED BY <2>1, <3>1
  <2>5. d - n \in 1 .. d /\ d - n # d
    BY <2>2, <2>3
  <2>6. at[d - n] = Step(at)[d - n] /\ path[d - n] = Step(path)[d - n]
    BY <1>3, <1>4
  <2> HIDE DEF path
  <2> QED BY <2>2, <2>4, <2>5, <2>6
<1>6. UpFrom(sk, d, pos[d]) = at
  BY DEF UpFrom
<1> SUFFICES ASSUME NEW k \in 1 .. d PROVE at[k] = path[k]
  BY <1>6 DEF UpAlong
<1>7. d - k \in Nat /\ d - k < d /\ d - (d - k) = k
  OBVIOUS
<1> HIDE DEF at, path
<1> QED BY <1>5, <1>7

\* Parent pointers are followed up to the root: the symbols of nodes that descend
\* from one another are the path of the last.
LEMMA RootPathIs ==
  ASSUME NEW t, NEW d \in Nat \ {0}, NEW pos, Descends(t, pos, d)
  PROVE  RootPath(Skeleton(t, d), pos[d]) = SymbolsAt(t, pos, d)
<1> DEFINE sk == Skeleton(t, d)
           at == UpFrom(sk, d, pos[d])
<1>1. /\ Len(sk) = d
      /\ \A k \in 1 .. d : /\ sk[k][pos[k]].symbol = t[k][pos[k]].symbol
                           /\ sk[k][pos[k]].parent = t[k][pos[k]].parent
  <2>1. /\ sk = [k \in 1 .. d |-> [i \in DOMAIN t[k] |->
                  [symbol |-> t[k][i].symbol, parent |-> t[k][i].parent]]]
    BY DEF Skeleton
  <2>2. Len(sk) = d
    <3> DEFINE C == {sk[k] : k \in 1 .. d}
    <3>1. sk \in [1 .. d -> C]
      BY <2>1
    <3> HIDE DEF C, sk
    <3> QED BY <3>1
  <2> QED BY <2>1, <2>2 DEF Descends
<1> HIDE DEF sk
<1>2. RootPath(sk, pos[d]) = [k \in 1 .. d |-> sk[at[k][1]][at[k][2]].symbol]
  BY <1>1 DEF RootPath, UpFrom
<1>3. Linked(sk, pos, d)
  <2> SUFFICES ASSUME NEW k \in 1 .. d - 1
               PROVE  sk[k + 1][pos[k + 1]].parent = <<k, pos[k]>>
    BY DEF Linked
  <2>1. k + 1 \in 1 .. d
    OBVIOUS
  <2>2. t[k + 1][pos[k + 1]].parent = <<k, pos[k]>>
    BY DEF Descends
  <2> QED BY <1>1, <2>1, <2>2
<1>4. UpAlong(sk, pos, d)
  BY <1>3, UpFromIs
<1>5. \A k \in 1 .. d : at[k] = <<k, pos[k]>>
  BY <1>4 DEF UpAlong
<1> HIDE DEF at
<1>6. \A k \in 1 .. d : sk[at[k][1]][at[k][2]].symbol = t[k][pos[k]].symbol
  BY <1>1, <1>5
<1>7. RootPath(sk, pos[d]) = SymbolsAt(t, pos, d)
  BY <1>2, <1>6 DEF SymbolsAt
<1> QED BY <1>7 DEF sk

\* The target leads from the start of the grammar through its nonterminals.
LEMMA TargetType ==
  ASSUME NEW path \in KPaths, NEW prefix \in PrefixDict[path[1]]
  PROVE  LET whole == Front(prefix) \o path
         IN  /\ whole \in Seq(Nonterminals) /\ Len(whole) >= 2
             /\ whole[1] = StartRule /\ whole # <<>>
<1>1. /\ path \in Seq(Nonterminals) /\ Len(path) = KValue
      /\ path[1] \in DOMAIN PrefixDict /\ KValue \in Nat \ {0, 1}
  BY PathAssumption DEF PathAssumption, GrammarPath
<1>2. /\ prefix \in Seq(Nonterminals) /\ prefix # <<>>
      /\ prefix[1] = StartRule /\ prefix[Len(prefix)] = path[1]
  BY <1>1, PathAssumption DEF PathAssumption, GrammarPath
<1>3. Len(prefix) \in Nat \ {0} /\ Len(path) \in Nat /\ Len(path) >= 2
  BY <1>1, <1>2
<1> DEFINE front == Front(prefix)
<1>4. /\ front \in Seq(Nonterminals) /\ Len(front) = Len(prefix) - 1
      /\ \A k \in 1 .. Len(prefix) - 1 : front[k] = prefix[k]
  <2>1. \A k \in 1 .. Len(prefix) - 1 : prefix[k] \in Nonterminals
    BY <1>2, <1>3
  <2>2. front = SubSeq(prefix, 1, Len(prefix) - 1)
    BY DEF Front
  <2>3. \A T : \A q \in Seq(T), n \in Nat : n <= Len(q) =>
          /\ SubSeq(q, 1, n) \in Seq(T) /\ Len(SubSeq(q, 1, n)) = n
          /\ \A k \in 1 .. n : SubSeq(q, 1, n)[k] = q[k]
    OBVIOUS
  <2>4. Len(prefix) - 1 \in Nat /\ Len(prefix) - 1 <= Len(prefix)
    BY <1>3
  <2>5. /\ SubSeq(prefix, 1, Len(prefix) - 1) \in Seq(Nonterminals)
        /\ Len(SubSeq(prefix, 1, Len(prefix) - 1)) = Len(prefix) - 1
        /\ \A k \in 1 .. Len(prefix) - 1 : SubSeq(prefix, 1, Len(prefix) - 1)[k] = prefix[k]
    BY <1>2, <2>3, <2>4
  <2> QED BY <2>2, <2>5
<1> HIDE DEF front
<1>5. /\ front \o path \in Seq(Nonterminals)
      /\ Len(front \o path) = Len(front) + Len(path)
  <2>1. \A T : \A p, q \in Seq(T) : p \o q \in Seq(T) /\ Len(p \o q) = Len(p) + Len(q)
    OBVIOUS
  <2> QED BY <1>1, <1>4, <2>1
<1>6. (front \o path)[1] = StartRule
  <2>1. CASE Len(prefix) = 1
    BY <1>1, <1>2, <1>3, <1>4, <2>1
  <2>2. CASE Len(prefix) # 1
    BY <1>1, <1>2, <1>3, <1>4, <2>2
  <2> QED BY <2>1, <2>2
<1> QED BY <1>3, <1>4, <1>5, <1>6 DEF front

-----------------------------------------------------------------------------
(* The k-path generator: its invariant.                                    *)

\* The target is a path of nonterminals from the start of the grammar; nothing
\* of a level is expanded before it is visited.
PathInv ==
  /\ phase \in {"path", "minimum", "done"}
  /\ uncovered \subseteq KPaths
  /\ phase = "minimum" <=> target # <<>>
  /\ phase # "minimum" => node = 0
  /\ phase = "minimum" =>
       /\ target \in Seq(Nonterminals) /\ Len(target) >= 2
       /\ \A i \in DOMAIN Level : i >= node => Level[i].status # "inner"

\* In the first n levels of t, the nodes at pos spell the target.
Spells(t, pos, n) ==
  /\ \A k \in 1 .. n : pos[k] \in DOMAIN t[k] /\ t[k][pos[k]].symbol = target[k]
  /\ \A k \in 1 .. n - 1 : t[k + 1][pos[k + 1]].parent = <<k, pos[k]>>

\* As long as the target goes on below the last level, the slot is the node of
\* the last level that its symbols lead to.
SlotInv ==
  /\ slot \in {NoSlot} \cup DOMAIN Level
  /\ phase = "minimum" =>
       /\ Len(tree) < Len(target) =>
            \E pos \in Seq(Nat) : Spells(tree, pos, Len(tree)) /\ slot = pos[Len(tree)]
       /\ Len(tree) >= Len(target) =>
            /\ slot = NoSlot
            /\ \E pos \in Seq(Nat) : Spells(tree, pos, Len(target))

\* Once the slot has been expanded, the next one is one of its children.
NextSlotInv ==
  /\ nextSlot \in {NoSlot} \cup DOMAIN next
  /\ phase = "minimum" =>
       /\ slot = NoSlot \/ node <= slot => nextSlot = NoSlot
       /\ slot # NoSlot /\ node > slot =>
            /\ nextSlot \in DOMAIN next
            /\ next[nextSlot].symbol = target[Len(tree) + 1]
            /\ next[nextSlot].parent = <<Len(tree), slot>>

\* Up to this level, an expansion need not be a cheapest one.
FreeLevels == IF Len(target) <= MaxDepths THEN MaxDepths ELSE Len(target)

\* Of a level, what its open nonterminals still cost stays within the bound.
Affordable(level, d) ==
  \A i \in DOMAIN level : level[i].status = "open" =>
    d + MinCost(level[i].symbol) <= FreeLevels + CostBound

GuidedHeightInv ==
  phase = "minimum" =>
    /\ Len(tree) <= FreeLevels + CostBound + 1
    /\ node > 0 => Len(tree) <= FreeLevels + CostBound
    /\ Affordable(Level, Len(tree)) /\ Affordable(next, Len(tree) + 1)

TribbleInv ==
  TreeInv /\ MatchedExact /\ PathInv /\ SlotInv /\ NextSlotInv /\ GuidedHeightInv

\* Where a generator is in its tree.
LEMMA TribbleFacts ==
  ASSUME TribbleInv
  PROVE  /\ Len(tree) \in Nat \ {0} /\ tree \in Seq(Seq(NodeType)) /\ depth = Len(tree) - 1
         /\ Level \in Seq(NodeType) /\ Len(Level) \in Nat /\ DOMAIN Level = 1 .. Len(Level)
         /\ Level = tree[Len(tree)]
         /\ node \in 0 .. Len(Level) + 1
         /\ next \in Seq(NodeType) /\ Len(next) \in Nat /\ DOMAIN next = 1 .. Len(next)
         /\ node = 0 => next = <<>> /\ nextSlot = NoSlot
         /\ MaxDepths \in Nat /\ CostBound \in Nat
         /\ phase = "minimum" => /\ Len(target) \in Nat /\ FreeLevels \in Nat
                                 /\ Len(target) <= FreeLevels /\ MaxDepths <= FreeLevels
<1>1. Building /\ NextInv /\ PathInv
  BY DEF TribbleInv, TreeInv
<1>2. Len(tree) \in Nat \ {0} /\ tree \in Seq(Seq(NodeType)) /\ depth = Len(tree) - 1
  BY <1>1 DEF Building
<1>3. Level \in Seq(NodeType) /\ Level = tree[Len(tree)]
  BY <1>2 DEF Level
<1>4. next \in Seq(NodeType) /\ node \in 0 .. Len(Level) + 1
  BY <1>1 DEF Building
<1>5. Len(Level) \in Nat /\ DOMAIN Level = 1 .. Len(Level)
      /\ Len(next) \in Nat /\ DOMAIN next = 1 .. Len(next)
  BY <1>3, <1>4
<1>6. node = 0 => next = <<>> /\ nextSlot = NoSlot
  <2>1. node = 0 => next = <<>>
    BY <1>1 DEF NextInv
  <2>2. next = <<>> => DOMAIN next = {}
    OBVIOUS
  <2> QED BY <2>1, <2>2 DEF TribbleInv, NextSlotInv
<1>7. MaxDepths \in Nat /\ CostBound \in Nat
  BY BoundAssumption DEF BoundAssumption
<1>8. phase = "minimum" => /\ Len(target) \in Nat /\ FreeLevels \in Nat
                           /\ Len(target) <= FreeLevels /\ MaxDepths <= FreeLevels
  BY <1>1, <1>7 DEF PathInv, FreeLevels
<1> QED BY <1>2, <1>3, <1>4, <1>5, <1>6, <1>7, <1>8

\* An open node is one of a nonterminal, and its cheapest cost is bounded.
LEMMA OpenCost ==
  ASSUME NEW n \in NodeType, n.status = "open"
  PROVE  /\ n.symbol \in Nonterminals
         /\ MinCost(n.symbol) \in Nat /\ MinCost(n.symbol) <= CostBound
<1>1. n.symbol \in Nonterminals
  BY DEF NodeType
<1> QED BY <1>1, CheapestExists, CostAssumption DEF CostAssumption

\* Before the slot is visited it is an open node with its symbol of the target.
LEMMA SlotOpen ==
  ASSUME TribbleInv, phase = "minimum", slot # NoSlot
  PROVE  /\ Len(tree) < Len(target)
         /\ slot \in 1 .. Len(Level)
         /\ Level[slot].symbol = target[Len(tree)] /\ Level[slot].symbol \in Nonterminals
         /\ node <= slot => Level[slot].status = "open"
<1>1. PathInv /\ SlotInv
  BY DEF TribbleInv
<1>2. Len(tree) < Len(target)
  BY <1>1, TribbleFacts DEF SlotInv
<1>3. slot \in 1 .. Len(Level)
  BY <1>1, TribbleFacts DEF SlotInv
<1>4. Level[slot].symbol = target[Len(tree)]
  <2>1. PICK pos \in Seq(Nat) : Spells(tree, pos, Len(tree)) /\ slot = pos[Len(tree)]
    BY <1>1, <1>2 DEF SlotInv
  <2>2. Len(tree) \in 1 .. Len(tree)
    BY TribbleFacts
  <2> QED BY <2>1, <2>2, TribbleFacts DEF Spells
<1>5. target[Len(tree)] \in Nonterminals
  <2>1. target \in Seq(Nonterminals) /\ Len(tree) \in 1 .. Len(target)
    BY <1>1, <1>2, TribbleFacts DEF PathInv
  <2> QED BY <2>1
<1>6. ASSUME node <= slot PROVE Level[slot].status = "open"
  <2>1. Level[slot] \in NodeType
    BY <1>3, TribbleFacts
  <2>2. Level[slot].status # "inner"
    BY <1>1, <1>3, <1>6, TribbleFacts DEF PathInv
  <2> QED BY <1>4, <1>5, <2>1, <2>2 DEF NodeType
<1> QED BY <1>2, <1>3, <1>4, <1>5, <1>6

\* A step that leaves the tree alone and does not visit a node of it.
LEMMA SameTree ==
  ASSUME TribbleInv, UNCHANGED <<table, tree, next, tmpSubSeqs, depth>>,
         node' \in 0 .. Len(Level) + 1, node' = 0 => node = 0
  PROVE  TreeInv' /\ MatchedExact' /\ Level' = Level
<1>1. Building /\ NextInv /\ MatchedExact
  BY DEF TribbleInv, TreeInv
<1>2. Level' = Level
  BY DEF Level
<1>3. Building'
  BY <1>1, <1>2 DEF Building
<1>4. NextInv'
  BY <1>1 DEF NextInv
<1>5. MatchedExact'
  <2>1. tmpSubSeqs = IdsOf(tree)
    BY <1>1, MatchedIs
  <2> QED BY <2>1, MatchedIs
<1> QED BY <1>2, <1>3, <1>4, <1>5 DEF TreeInv

\* The invariant of the k-path generator holds at first.
LEMMA InitTribble == TribbleInit => TribbleInv
<1> SUFFICES ASSUME TribbleInit PROVE TribbleInv
  OBVIOUS
<1> USE DEF TribbleInit
<1>1. TreeInv
  <2>1. node \in 0 .. Len(Level) + 1
    BY RootTreeType DEF Level
  <2>2. Building
    BY <2>1, RootTreeType DEF Building
  <2> QED BY <2>2 DEF TreeInv, NextInv
<1>2. MatchedExact
  <2>1. IdsOf(RootTree) = {}
    BY HasNoNode DEF IdsOf
  <2> QED BY <2>1, MatchedIs
<1> QED BY <1>1, <1>2
        DEF TribbleInv, PathInv, SlotInv, NextSlotInv, GuidedHeightInv

\* A new target: the slot is the root.
LEMMA BeginPathKeeps ==
  ASSUME TribbleInv, BeginPath
  PROVE  TribbleInv'
<1> USE DEF BeginPath, BeginPathWith
<1>1. /\ PathInv /\ Building /\ NextInv /\ NextSlotInv /\ node = 0
      /\ next = <<>> /\ nextSlot = NoSlot
  BY TribbleFacts DEF TribbleInv, TreeInv, PathInv
<1>2. /\ phase' = "minimum" /\ tree' = RootTree /\ tmpSubSeqs' = {} /\ depth' = 0
      /\ slot' = 1 /\ table' = table /\ node' = 0 /\ next' = <<>> /\ nextSlot' = NoSlot
      /\ uncovered' \subseteq uncovered
  BY <1>1
<1>3. /\ target' \in Seq(Nonterminals) /\ Len(target') >= 2
      /\ target'[1] = StartRule /\ target' # <<>>
  <2>1. PICK path \in uncovered : \E prefix \in PrefixDict[path[1]] :
          target' = Front(prefix) \o path
    OBVIOUS
  <2>2. path \in KPaths
    BY <1>1 DEF PathInv
  <2>3. PICK prefix \in PrefixDict[path[1]] : target' = Front(prefix) \o path
    BY <2>1
  <2> QED BY <2>2, <2>3, TargetType
<1>4. Level' = RootTree[1] /\ Len(tree') = 1 /\ Len(Level') = 1 /\ DOMAIN Level' = {1}
  BY <1>2, RootTreeType DEF Level, RootTree
<1>5. /\ RootTree[1][1].status = "open" /\ RootTree[1][1].symbol = StartRule
      /\ RootTree[1][1] \in NodeType
  <2>1. RootTree[1][1] = NewNode(StartRule, "open", -1, <<0, 0>>)
    BY DEF RootTree
  <2>2. RootTree \in Seq(Seq(NodeType)) /\ 1 \in 1 .. Len(RootTree) /\ 1 \in 1 .. Len(RootTree[1])
    BY RootTreeType
  <2> QED BY <2>1, <2>2 DEF NewNode
<1>6. TreeInv'
  <2>1. node' \in 0 .. Len(Level') + 1
    BY <1>2, <1>4
  <2>2. Building'
    BY <1>1, <1>2, <1>4, <2>1, RootTreeType DEF Building
  <2>3. NextInv'
    BY <1>2 DEF NextInv
  <2> QED BY <2>2, <2>3 DEF TreeInv
<1>7. MatchedExact'
  BY <1>2, NoneMatched
<1>8. PathInv'
  BY <1>1, <1>2, <1>3, <1>4, <1>5 DEF PathInv
<1>9. SlotInv'
  <2> DEFINE pos == <<1>>
  <2>1. pos \in Seq(Nat) /\ pos[Len(tree')] = 1
    BY <1>4
  <2>2. Spells(tree, pos, Len(tree))'
    BY <1>2, <1>3, <1>4, <1>5 DEF Spells, RootTree
  <2>3. Len(tree') < Len(target')
    BY <1>3, <1>4
  <2> HIDE DEF pos
  <2> QED BY <1>2, <1>3, <1>4, <2>1, <2>2, <2>3 DEF SlotInv
<1>10. NextSlotInv'
  BY <1>2 DEF NextSlotInv, NoSlot
<1>11. GuidedHeightInv'
  <2>1. /\ FreeLevels' \in Nat /\ 2 <= FreeLevels' /\ CostBound \in Nat
    <3>1. Len(target') \in Nat /\ 2 <= Len(target') /\ MaxDepths \in Nat /\ CostBound \in Nat
      BY <1>3, BoundAssumption DEF BoundAssumption
    <3> QED BY <3>1 DEF FreeLevels
  <2>2. Affordable(Level, Len(tree))'
    <3>1. MinCost(StartRule) \in Nat /\ MinCost(StartRule) <= CostBound
      BY <1>5, OpenCost
    <3> QED BY <1>4, <1>5, <2>1, <3>1 DEF Affordable
  <2>3. Affordable(next, Len(tree) + 1)'
    BY <1>2 DEF Affordable
  <2>4. Len(tree') <= FreeLevels' + CostBound + 1
    <3>1. \A a, b \in Nat : 1 <= a + b + 1
      OBVIOUS
    <3> QED BY <1>4, <2>1, <3>1
  <2>5. ~ (node' > 0)
    BY <1>2
  <2> QED BY <2>2, <2>3, <2>4, <2>5 DEF GuidedHeightInv
<1> QED BY <1>6, <1>7, <1>8, <1>9, <1>10, <1>11 DEF TribbleInv

\* A level is begun, or a leaf of it passed: the slot is neither.
LEMMA VisitKeeps ==
  ASSUME TribbleInv, BeginLevel \/ Visit
  PROVE  TribbleInv'
<1>1. /\ UNCHANGED <<table, phase, tree, next, tmpSubSeqs, depth, inputs>>
      /\ UNCHANGED <<uncovered, target, slot, nextSlot>>
      /\ node' = node + 1 /\ node' \in 1 .. Len(Level) + 1 /\ phase = "minimum"
      /\ node > 0 => Level[node].status # "open"
      /\ node = 0 => AnyOpen(Level)
  <2>1. CASE BeginLevel
    BY <2>1, TribbleFacts DEF BeginLevel, BeginMinimumLevel, pathVars
  <2>2. CASE Visit
    <3>1. node \in 1 .. Len(Level) /\ node # 0
      BY <2>2, TribbleFacts DEF Visit, VisitLeaf
    <3>2. phase = "minimum"
      BY <3>1 DEF TribbleInv, PathInv
    <3> QED BY <2>2, <3>1, <3>2, TribbleFacts DEF Visit, VisitLeaf, pathVars
  <2> QED BY <2>1, <2>2
<1>2. TreeInv' /\ MatchedExact' /\ Level' = Level
  BY <1>1, SameTree, TribbleFacts
<1>3. PathInv'
  <2>1. PathInv
    BY DEF TribbleInv
  <2>2. \A i \in DOMAIN Level' : i >= node' => Level'[i].status # "inner"
    <3> SUFFICES ASSUME NEW i \in 1 .. Len(Level), i >= node + 1
                 PROVE  Level[i].status # "inner"
      <4>1. DOMAIN Level = 1 .. Len(Level) /\ node' = node + 1 /\ Level' = Level
        BY <1>1, <1>2, TribbleFacts
      <4> QED BY <4>1
    <3>1. i >= node /\ i \in DOMAIN Level
      BY TribbleFacts
    <3> QED BY <1>1, <2>1, <3>1 DEF PathInv
  <2> QED BY <1>1, <1>2, <2>1, <2>2 DEF PathInv
<1>4. SlotInv'
  BY <1>1, <1>2 DEF TribbleInv, SlotInv, Spells
<1>5. NextSlotInv'
  <2>1. NextSlotInv
    BY DEF TribbleInv
  <2>2. CASE slot = NoSlot
    BY <1>1, <2>1, <2>2 DEF NextSlotInv
  <2>3. CASE slot # NoSlot
    <3>1. slot \in 1 .. Len(Level) /\ (node <= slot => Level[slot].status = "open")
      BY <1>1, <2>3, SlotOpen
    <3>2. node # slot
      BY <1>1, <3>1, TribbleFacts
    <3>3. (node' <= slot <=> node <= slot) /\ (node' > slot <=> node > slot)
      <4>1. slot \in Nat /\ node \in Nat /\ node' = node + 1
        BY <1>1, <3>1, TribbleFacts
      <4> QED BY <3>2, <4>1
    <3> QED BY <1>1, <2>1, <2>3, <3>3 DEF NextSlotInv
  <2> QED BY <2>2, <2>3
<1>6. GuidedHeightInv'
  <2>1. GuidedHeightInv
    BY DEF TribbleInv
  <2>2. Len(tree) <= FreeLevels + CostBound
    <3>1. CASE node > 0
      BY <1>1, <2>1, <3>1 DEF GuidedHeightInv
    <3>2. CASE node = 0
      <4>1. PICK i \in DOMAIN Level : Level[i].status = "open"
        BY <1>1, <3>2 DEF AnyOpen
      <4>2. Len(tree) + MinCost(Level[i].symbol) <= FreeLevels + CostBound
        BY <1>1, <2>1, <4>1 DEF GuidedHeightInv, Affordable
      <4>3. Level[i] \in NodeType
        BY TribbleFacts
      <4>4. MinCost(Level[i].symbol) \in Nat
        BY <4>1, <4>3, OpenCost
      <4> QED BY <1>1, <4>2, <4>4, TribbleFacts
    <3> QED BY <3>1, <3>2, TribbleFacts
  <2>3. FreeLevels' = FreeLevels
    BY <1>1 DEF FreeLevels
  <2> QED BY <1>1, <1>2, <2>1, <2>2, <2>3 DEF GuidedHeightInv, Affordable
<1> QED BY <1>2, <1>3, <1>4, <1>5, <1>6 DEF TribbleInv

\* Whichever node is expanded, the nodes on the way to the slot keep their
\* symbols and their parents, and those after it stay unexpanded.
LEMMA ExpandedPath ==
  ASSUME TribbleInv, phase = "minimum", OpenHere,
         NEW j \in DOMAIN Grammar[Level[node].symbol],
         ExpandWith(Grammar[Level[node].symbol][j]),
         UNCHANGED <<uncovered, target, slot>>
  PROVE  TreeInv' /\ MatchedExact' /\ PathInv' /\ SlotInv'
<1>1. TreeInv /\ MatchedExact /\ PathInv /\ SlotInv
  BY DEF TribbleInv
<1>2. TreeInv' /\ MatchedExact'
  BY <1>1, ExpandedBuilding, ExpandedMatched
<1>3. /\ tree' \in Seq(Seq(NodeType)) /\ Len(tree') = Len(tree)
      /\ \A d \in 1 .. Len(tree) - 1 : tree'[d] = tree[d]
      /\ Level' \in Seq(NodeType) /\ Len(Level') = Len(Level)
      /\ \A i \in 1 .. Len(Level) : i # node => Level'[i] = Level[i]
      /\ Level'[node].symbol = Level[node].symbol
      /\ Level'[node].parent = Level[node].parent
  BY <1>1, Expanded
<1>4. /\ node \in 1 .. Len(Level) /\ node' = node + 1 /\ phase' = "minimum"
      /\ DOMAIN Level' = 1 .. Len(Level)
  <2>1. node \in 1 .. Len(Level)
    BY <1>1, OpenNode
  <2>2. node' = node + 1 /\ phase' = phase
    BY DEF ExpandWith
  <2>3. DOMAIN Level' = 1 .. Len(Level)
    BY <1>3
  <2> QED BY <2>1, <2>2, <2>3
<1>5. PathInv'
  <2>1. \A i \in DOMAIN Level' : i >= node' => Level'[i].status # "inner"
    <3> SUFFICES ASSUME NEW i \in 1 .. Len(Level), i >= node + 1
                 PROVE  Level'[i].status # "inner"
      BY <1>4
    <3>1. i # node /\ i >= node
      BY <1>4
    <3>2. Level'[i] = Level[i] /\ i \in DOMAIN Level
      BY <1>3, <3>1, TribbleFacts
    <3> QED BY <1>1, <3>1, <3>2 DEF PathInv
  <2> QED BY <1>1, <1>4, <2>1 DEF PathInv
<1>6. \A d \in 1 .. Len(tree) : /\ DOMAIN tree'[d] = DOMAIN tree[d]
                               /\ \A i \in DOMAIN tree[d] :
                                    /\ tree'[d][i].symbol = tree[d][i].symbol
                                    /\ tree'[d][i].parent = tree[d][i].parent
  <2> SUFFICES ASSUME NEW d \in 1 .. Len(tree)
               PROVE  /\ DOMAIN tree'[d] = DOMAIN tree[d]
                      /\ \A i \in DOMAIN tree[d] :
                           /\ tree'[d][i].symbol = tree[d][i].symbol
                           /\ tree'[d][i].parent = tree[d][i].parent
    OBVIOUS
  <2>1. CASE d < Len(tree)
    <3>1. tree'[d] = tree[d]
      BY <1>3, <2>1, TribbleFacts
    <3> QED BY <3>1
  <2>2. CASE d = Len(tree)
    <3>1. tree[d] = Level /\ tree'[d] = Level'
      BY <1>3, <2>2 DEF Level
    <3>2. \A i \in 1 .. Len(Level) : /\ Level'[i].symbol = Level[i].symbol
                                    /\ Level'[i].parent = Level[i].parent
      BY <1>3
    <3> QED BY <1>4, <3>1, <3>2, TribbleFacts
  <2> QED BY <2>1, <2>2, TribbleFacts
<1>7. ASSUME NEW pos, NEW n \in Nat, n <= Len(tree), Spells(tree, pos, n)
      PROVE  Spells(tree, pos, n)'
  <2>1. \A k \in 1 .. n : k \in 1 .. Len(tree)
    BY <1>7, TribbleFacts
  <2>2. \A k \in 1 .. n - 1 : k + 1 \in 1 .. n /\ k + 1 \in 1 .. Len(tree)
    BY <1>7, TribbleFacts
  <2> QED BY <1>6, <1>7, <2>1, <2>2 DEF Spells
<1>8. SlotInv'
  <2>1. slot' \in {NoSlot} \cup DOMAIN Level'
    BY <1>1, <1>4, TribbleFacts DEF SlotInv
  <2>2. ASSUME Len(tree') < Len(target')
        PROVE  \E pos \in Seq(Nat) : Spells(tree, pos, Len(tree))' /\ slot' = pos[Len(tree')]
    <3>1. PICK pos \in Seq(Nat) : Spells(tree, pos, Len(tree)) /\ slot = pos[Len(tree)]
      BY <1>1, <1>3, <2>2 DEF SlotInv
    <3>2. PICK n \in Nat : n = Len(tree)
      BY TribbleFacts
    <3>3. Spells(tree, pos, n)'
      BY <1>7, <3>1, <3>2
    <3>4. Spells(tree, pos, Len(tree))'
      BY <1>3, <3>2, <3>3 DEF Spells
    <3> QED BY <1>3, <3>1, <3>4
  <2>3. ASSUME Len(tree') >= Len(target')
        PROVE  slot' = NoSlot /\ \E pos \in Seq(Nat) : Spells(tree, pos, Len(target))'
    <3>1. PICK pos \in Seq(Nat) : Spells(tree, pos, Len(target))
      BY <1>1, <1>3, <2>3 DEF SlotInv
    <3>2. PICK n \in Nat : n = Len(target) /\ n <= Len(tree)
      BY <1>3, <2>3, TribbleFacts
    <3>3. Spells(tree, pos, n)'
      BY <1>7, <3>1, <3>2
    <3>4. Spells(tree, pos, Len(target))'
      BY <3>2, <3>3 DEF Spells
    <3> QED BY <1>1, <1>3, <2>3, <3>4 DEF SlotInv
  <2> QED BY <2>1, <2>2, <2>3 DEF SlotInv
<1> QED BY <1>2, <1>5, <1>8

\* The bound on the height survives an expansion whose children can afford it.
LEMMA ExpandedHeight ==
  ASSUME TribbleInv, phase = "minimum", OpenHere,
         NEW j \in DOMAIN Grammar[Level[node].symbol],
         ExpandWith(Grammar[Level[node].symbol][j]), target' = target,
         \A k \in DOMAIN Grammar[Level[node].symbol][j].exp :
           Grammar[Level[node].symbol][j].exp[k] \in Nonterminals =>
             Len(tree) + 1 + MinCost(Grammar[Level[node].symbol][j].exp[k])
               <= FreeLevels + CostBound
  PROVE  GuidedHeightInv'
<1> DEFINE A    == Level[node].symbol
           alt  == Grammar[A][j]
           kids == Children(alt.exp, <<Len(tree), node>>)
<1>1. TreeInv /\ GuidedHeightInv
  BY DEF TribbleInv
<1>2. /\ next' = next \o kids /\ kids \in Seq(NodeType) /\ alt \in Alternative
      /\ Level' \in Seq(NodeType) /\ Len(Level') = Len(Level)
      /\ \A i \in 1 .. Len(Level) : i # node => Level'[i] = Level[i]
      /\ Level'[node].status = "inner" /\ Len(tree') = Len(tree)
  BY <1>1, Expanded
<1>3. node \in 1 .. Len(Level) /\ phase' = "minimum" /\ FreeLevels' = FreeLevels
  BY <1>1, OpenNode DEF ExpandWith, FreeLevels
<1>4. \A k \in DOMAIN kids : kids[k].status = "open" =>
        Len(tree) + 1 + MinCost(kids[k].symbol) <= FreeLevels + CostBound
  <2> SUFFICES ASSUME NEW k \in DOMAIN kids, kids[k].status = "open"
               PROVE  Len(tree) + 1 + MinCost(kids[k].symbol) <= FreeLevels + CostBound
    OBVIOUS
  <2>1. kids = Children(alt.exp, <<Len(tree), node>>)
    OBVIOUS
  <2>2. k \in DOMAIN alt.exp /\ kids[k].symbol = alt.exp[k] /\ alt.exp[k] \in Nonterminals
    <3> HIDE DEF kids, alt
    <3>1. <<Len(tree), node>> \in Nat \X Nat
      <4>1. Len(tree) \in Nat /\ Len(Level) \in Nat
        BY TribbleFacts
      <4>2. node \in Nat
        BY ONLY <1>3, <4>1
      <4> QED BY ONLY <4>1, <4>2
    <3>2. alt \in Alternative
      BY <1>2
    <3>3. /\ DOMAIN kids = DOMAIN alt.exp
          /\ \A m \in DOMAIN kids : /\ kids[m].symbol = alt.exp[m]
                                    /\ kids[m].status = "open" <=> alt.exp[m] \in Nonterminals
      BY <2>1, <3>1, <3>2, ChildrenOf
    <3> QED BY <3>3
  <2> HIDE DEF kids
  <2> QED BY <2>2
<1> HIDE DEF kids, alt, A
<1>5. Affordable(next', Len(tree) + 1)
  <2> SUFFICES ASSUME NEW i \in DOMAIN next', next'[i].status = "open"
               PROVE  Len(tree) + 1 + MinCost(next'[i].symbol) <= FreeLevels + CostBound
    BY DEF Affordable
  <2>1. \A k \in DOMAIN next : next[k].status = "open" =>
          Len(tree) + 1 + MinCost(next[k].symbol) <= FreeLevels + CostBound
    BY <1>1 DEF GuidedHeightInv, Affordable
  <2>2. next \in Seq(NodeType) /\ i \in DOMAIN (next \o kids) /\ next'[i] = (next \o kids)[i]
    BY <1>1, <1>2, TribbleFacts
  <2>3. \/ i \in DOMAIN next /\ (next \o kids)[i] = next[i]
        \/ \E k \in DOMAIN kids : (next \o kids)[i] = kids[k]
    BY <1>2, <2>2, Extended
  <2>4. CASE i \in DOMAIN next /\ (next \o kids)[i] = next[i]
    BY <2>1, <2>2, <2>4
  <2>5. CASE \E k \in DOMAIN kids : (next \o kids)[i] = kids[k]
    BY <1>4, <2>2, <2>5
  <2> QED BY <2>3, <2>4, <2>5
<1>6. Affordable(Level', Len(tree))
  <2> SUFFICES ASSUME NEW i \in 1 .. Len(Level), Level'[i].status = "open"
               PROVE  Len(tree) + MinCost(Level'[i].symbol) <= FreeLevels + CostBound
    <3>1. DOMAIN Level' = 1 .. Len(Level)
      BY ONLY <1>2
    <3> QED BY <3>1 DEF Affordable
  <2>1. Level'[i] = Level[i]
    BY <1>2
  <2> QED BY <1>1, <2>1, TribbleFacts DEF GuidedHeightInv, Affordable
<1>7. Len(tree) <= FreeLevels + CostBound /\ Len(tree) <= FreeLevels + CostBound + 1
  BY <1>1, <1>3, TribbleFacts DEF GuidedHeightInv
<1> QED BY <1>2, <1>3, <1>5, <1>6, <1>7 DEF GuidedHeightInv, Affordable

\* The slot is expanded: its child with the next symbol of the target is the
\* slot of the next level, found by its offset into the level.
LEMMA ExpandSlotKeeps ==
  ASSUME TribbleInv, ExpandSlot
  PROVE  TribbleInv'
<1>1. /\ phase = "minimum" /\ OpenHere /\ node = slot
      /\ UNCHANGED <<uncovered, target, slot>>
  BY DEF ExpandSlot, OpenHere
<1> DEFINE A == Level[node].symbol
<1>2. PICK j \in SlotCandidates(A) :
        ExpandWith(Grammar[A][j]) /\ nextSlot' \in ChildSlots(Grammar[A][j])
  BY DEF ExpandSlot
<1>3. j \in DOMAIN Grammar[A]
  BY <1>2 DEF SlotCandidates
<1>4. TreeInv' /\ MatchedExact' /\ PathInv' /\ SlotInv'
  BY <1>1, <1>2, <1>3, ExpandedPath
<1> DEFINE alt  == Grammar[A][j]
           kids == Children(alt.exp, <<Len(tree), node>>)
<1>5. /\ TreeInv /\ node \in 1 .. Len(Level) /\ A \in Nonterminals /\ slot # NoSlot
      /\ Len(tree) < Len(target)
  <2>1. TreeInv
    BY DEF TribbleInv
  <2>2. node \in 1 .. Len(Level) /\ A \in Nonterminals
    BY <1>1, <2>1, OpenNode
  <2>3. slot # NoSlot
    BY <1>1, <2>2, TribbleFacts DEF NoSlot
  <2> QED BY <1>1, <2>1, <2>2, <2>3, SlotOpen
<1>6. /\ alt \in Alternative /\ kids \in Seq(NodeType)
      /\ next' = next \o kids /\ next' \in Seq(NodeType) /\ Len(tree') = Len(tree)
  BY <1>1, <1>2, <1>3, <1>5, Expanded
<1>7. NextSlotInv'
  <2>1. PICK k \in DOMAIN alt.exp : alt.exp[k] = NextSymbol /\ nextSlot' = Start + k
    BY <1>2 DEF ChildSlots
  <2>2. kids = Children(alt.exp, <<Len(tree), node>>)
    OBVIOUS
  <2> HIDE DEF kids, alt
  <2>3. Len(tree) \in Nat /\ node \in Nat
    BY <1>5, TribbleFacts
  <2>4. /\ k \in 1 .. Len(kids) /\ kids[k].parent = <<Len(tree), node>>
        /\ kids[k].symbol = target[Len(tree) + 1]
    <3>1. alt \in Alternative
      BY <1>6
    <3>2. /\ DOMAIN kids = DOMAIN alt.exp /\ DOMAIN kids = 1 .. Len(kids)
          /\ \A m \in DOMAIN kids : /\ kids[m].symbol = alt.exp[m]
                                    /\ kids[m].parent = <<Len(tree), node>>
      <4>1. PICK parent \in Nat \X Nat : parent = <<Len(tree), node>>
        BY <2>3
      <4>2. kids = Children(alt.exp, parent)
        BY <2>2, <4>1
      <4>3. /\ DOMAIN kids = DOMAIN alt.exp /\ DOMAIN kids = 1 .. Len(kids)
            /\ \A m \in DOMAIN kids : kids[m].symbol = alt.exp[m] /\ kids[m].parent = parent
        BY <3>1, <4>2, ChildrenOf
      <4> QED BY <4>1, <4>3
    <3>3. NextSymbol = target[Len(tree) + 1]
      <4>1. depth + 2 = Len(tree) + 1
        BY <2>3, TribbleFacts
      <4> QED BY <4>1 DEF NextSymbol
    <3> QED BY <2>1, <3>2, <3>3
  <2>5. Start + k \in DOMAIN (next \o kids) /\ (next \o kids)[Start + k] = kids[k]
    <3>1. PICK i : i = Start + k
      OBVIOUS
    <3>2. /\ i \in 1 .. Len(next) + Len(kids) /\ ~ (i <= Len(next)) /\ i - Len(next) = k
          /\ Len(next) \in Nat /\ Len(kids) \in Nat
      <4>1. \A a, b \in Nat : \A m \in 1 .. b :
              a + m \in 1 .. a + b /\ ~ (a + m <= a) /\ (a + m) - a = m
        OBVIOUS
      <4>2. Len(next) \in Nat /\ Len(kids) \in Nat
        BY <1>6, TribbleFacts
      <4> QED BY <2>4, <3>1, <4>1, <4>2 DEF Start
    <3>3. next \in Seq(NodeType) /\ kids \in Seq(NodeType)
      BY <1>6, TribbleFacts
    <3>4. i \in DOMAIN (next \o kids) /\ (next \o kids)[i] = kids[i - Len(next)]
      BY <3>2, <3>3
    <3> QED BY <3>1, <3>2, <3>4
  <2>6. nextSlot' \in DOMAIN next' /\ next'[nextSlot'] = kids[k]
    BY <1>6, <2>1, <2>5
  <2>7. slot' # NoSlot /\ node' = slot' + 1
    BY <1>1, <1>2, <1>5 DEF ExpandWith
  <2>8. slot' \in Nat
    BY <1>1, <1>5, TribbleFacts
  <2>9. ~ (slot' = NoSlot \/ node' <= slot')
    <3>1. \A n \in Nat : ~ (n + 1 <= n)
      OBVIOUS
    <3> QED BY <2>7, <2>8, <3>1
  <2> QED BY <1>1, <1>6, <2>4, <2>6, <2>9 DEF NextSlotInv
<1>8. GuidedHeightInv'
  <2> SUFFICES ASSUME NEW k \in DOMAIN alt.exp, alt.exp[k] \in Nonterminals
               PROVE  Len(tree) + 1 + MinCost(alt.exp[k]) <= FreeLevels + CostBound
    BY <1>1, <1>2, <1>3, ExpandedHeight
  <2>1. MinCost(alt.exp[k]) \in Nat /\ MinCost(alt.exp[k]) <= CostBound
    BY CheapestExists, CostAssumption DEF CostAssumption
  <2> HIDE DEF alt
  <2> QED BY <1>1, <1>5, <2>1, TribbleFacts
<1> QED BY <1>4, <1>7, <1>8 DEF TribbleInv

\* Elsewhere, only where any expansion may be chosen is the child as expensive as
\* the grammar allows; the slot and its child stay where they are.
LEMMA ExpandOtherKeeps ==
  ASSUME TribbleInv, ExpandOther
  PROVE  TribbleInv'
<1>1. /\ phase = "minimum" /\ OpenHere /\ node # slot
      /\ UNCHANGED <<uncovered, target, slot, nextSlot>>
  BY DEF ExpandOther, OpenHere, pathVars
<1> DEFINE A == Level[node].symbol
<1>2. PICK j \in OtherCandidates(A, PrunedHere) : ExpandWith(Grammar[A][j])
  BY DEF ExpandOther
<1>3. /\ j \in DOMAIN Grammar[A]
      /\ j \in Cheapest(A) \/ Len(tree) < MaxDepths
  <2> DEFINE free == {k \in Cheapest(A) : Grammar[A][k].dn \notin PrunedHere}
  <2>1. Cheapest(A) \subseteq DOMAIN Grammar[A] /\ free \subseteq Cheapest(A)
    BY CandidatesAre
  <2>2. /\ free # {} => OtherCandidates(A, PrunedHere) = free
        /\ free = {} /\ Len(tree) < MaxDepths =>
             OtherCandidates(A, PrunedHere) = DOMAIN Grammar[A]
        /\ free = {} /\ ~ (Len(tree) < MaxDepths) =>
             OtherCandidates(A, PrunedHere) = Cheapest(A)
    <3>1. ~ (Len(tree) < MaxDepths) <=> Len(tree) >= MaxDepths
      BY TribbleFacts
    <3> QED BY <3>1 DEF OtherCandidates
  <2> HIDE DEF free, A
  <2> QED BY <1>2, <2>1, <2>2
<1>4. TreeInv' /\ MatchedExact' /\ PathInv' /\ SlotInv'
  BY <1>1, <1>2, <1>3, ExpandedPath
<1>5. TreeInv /\ node \in 1 .. Len(Level) /\ A \in Nonterminals
  <2>1. TreeInv
    BY DEF TribbleInv
  <2> QED BY <1>1, <2>1, OpenNode
<1> DEFINE alt  == Grammar[A][j]
           kids == Children(alt.exp, <<Len(tree), node>>)
<1>6. /\ alt \in Alternative /\ kids \in Seq(NodeType)
      /\ next' = next \o kids /\ next' \in Seq(NodeType) /\ Len(tree') = Len(tree)
  BY <1>1, <1>2, <1>3, <1>5, Expanded
<1>7. NextSlotInv'
  <2> HIDE DEF kids, alt
  <2>1. /\ DOMAIN next \subseteq DOMAIN next'
        /\ \A i \in DOMAIN next : next'[i] = next[i]
    BY <1>6, TribbleFacts
  <2>2. NextSlotInv /\ node' = node + 1
    BY <1>2 DEF TribbleInv, ExpandWith
  <2>3. slot # NoSlot => slot \in 1 .. Len(Level)
    BY <1>1, SlotOpen
  <2>4. slot # NoSlot => (node' <= slot <=> node <= slot) /\ (node' > slot <=> node > slot)
    BY <1>1, <1>5, <2>2, <2>3, TribbleFacts
  <2> QED BY <1>1, <1>6, <2>1, <2>2, <2>4 DEF NextSlotInv
<1>8. GuidedHeightInv'
  <2> SUFFICES ASSUME NEW k \in DOMAIN alt.exp, alt.exp[k] \in Nonterminals
               PROVE  Len(tree) + 1 + MinCost(alt.exp[k]) <= FreeLevels + CostBound
    BY <1>1, <1>2, <1>3, ExpandedHeight
  <2>1. MinCost(alt.exp[k]) \in Nat /\ MinCost(alt.exp[k]) <= CostBound
    BY CheapestExists, CostAssumption DEF CostAssumption
  <2>2. CASE Len(tree) < MaxDepths
    <3> HIDE DEF alt
    <3> QED BY <1>1, <2>1, <2>2, TribbleFacts
  <2>3. CASE j \in Cheapest(A)
    <3>1. MinCost(alt.exp[k]) < MinCost(A) /\ MinCost(A) \in Nat
      BY <1>3, <1>5, <2>3, CheapestExists, CostAssumption DEF CostAssumption, Cheapest
    <3>2. Len(tree) + MinCost(A) <= FreeLevels + CostBound
      BY <1>1, <1>5 DEF TribbleInv, GuidedHeightInv, Affordable, OpenHere
    <3> HIDE DEF alt, A
    <3>3. Len(tree) \in Nat /\ FreeLevels \in Nat /\ CostBound \in Nat
      BY <1>1, TribbleFacts
    <3> QED BY ONLY <2>1, <3>1, <3>2, <3>3
  <2> QED BY <1>3, <2>2, <2>3
<1> QED BY <1>4, <1>7, <1>8 DEF TribbleInv

\* The level is appended: its slot hangs from the slot before, or the target has
\* ended.
LEMMA EndGuidedLevelKeeps ==
  ASSUME TribbleInv, EndGuidedLevel
  PROVE  TribbleInv'
<1>1. /\ EndLevel /\ UNCHANGED <<uncovered, target>> /\ nextSlot' = NoSlot
      /\ slot' = IF depth' = LastGuided THEN NoSlot ELSE nextSlot
  BY DEF EndGuidedLevel, EndGuidedLevelAs
<1>2. /\ TreeInv /\ MatchedExact /\ PathInv /\ SlotInv /\ NextSlotInv /\ GuidedHeightInv
  BY DEF TribbleInv
<1>3. /\ node = Len(Level) + 1 /\ node' = 0 /\ next' = <<>> /\ tree' = Append(tree, next)
      /\ depth' = Len(tree) /\ phase' = phase
  BY <1>1, TribbleFacts DEF EndLevel, EndLevelAt
<1>4. node # 0 /\ phase = "minimum"
  <2>1. node # 0
    BY <1>3, TribbleFacts
  <2> QED BY <1>2, <2>1 DEF PathInv
<1>5. TreeInv' /\ MatchedExact' /\ Level' = next /\ Len(tree') = Len(tree) + 1
  BY <1>1, <1>2, AppendedBuilding, AppendedMatched
<1>6. /\ \A d \in 1 .. Len(tree) : tree'[d] = tree[d]
      /\ tree'[Len(tree) + 1] = next
  <2>1. Len(tree) \in Nat /\ tree \in Seq(Seq(NodeType)) /\ next \in Seq(NodeType)
    BY TribbleFacts
  <2> DEFINE S == Seq(NodeType)
  <2> HIDE DEF S
  <2> QED BY <1>3, <2>1 DEF S
<1>7. PathInv'
  BY <1>1, <1>2, <1>3, <1>4, <1>5 DEF TreeInv, NextInv, PathInv
<1>8. \A pos, n : n \in Nat /\ n <= Len(tree) /\ Spells(tree, pos, n) => Spells(tree, pos, n)'
  <2> SUFFICES ASSUME NEW pos, NEW n \in Nat, n <= Len(tree), Spells(tree, pos, n)
               PROVE  Spells(tree, pos, n)'
    OBVIOUS
  <2>1. \A k \in 1 .. n : k \in 1 .. Len(tree)
    BY TribbleFacts
  <2>2. \A k \in 1 .. n - 1 : k + 1 \in 1 .. n /\ k + 1 \in 1 .. Len(tree)
    BY TribbleFacts
  <2> QED BY <1>1, <1>6, <2>1, <2>2 DEF Spells
<1>9. SlotInv'
  <2>1. CASE Len(tree) + 1 <= Len(target)
    <3>1. PICK pos \in Seq(Nat) : Spells(tree, pos, Len(tree)) /\ slot = pos[Len(tree)]
      BY <1>2, <1>4, <2>1, TribbleFacts DEF SlotInv
    <3>2. slot # NoSlot /\ node > slot
      <4>1. Len(tree) \in 1 .. Len(tree)
        BY TribbleFacts
      <4>2. slot \in 1 .. Len(Level)
        BY <3>1, <4>1, TribbleFacts DEF Spells
      <4> QED BY <1>3, <4>2, TribbleFacts DEF NoSlot
    <3>3. /\ nextSlot \in DOMAIN next
          /\ next[nextSlot].symbol = target[Len(tree) + 1]
          /\ next[nextSlot].parent = <<Len(tree), slot>>
      BY <1>2, <1>4, <3>2 DEF NextSlotInv
    <3>4. PICK n \in Nat \ {0} : n = Len(tree)
      BY TribbleFacts
    <3>a. PICK new : new = [k \in 1 .. n + 1 |-> IF k = n + 1 THEN nextSlot ELSE pos[k]]
      OBVIOUS
    <3>5. /\ \A k \in 1 .. n : k \in 1 .. n + 1 /\ new[k] = pos[k] /\ tree'[k] = tree[k]
          /\ new[n + 1] = nextSlot /\ tree'[n + 1] = next
          /\ \A k \in 1 .. n + 1 : k \in 1 .. n \/ k = n + 1
          /\ \A k \in 1 .. n : k \in 1 .. n - 1 \/ k = n
          /\ n + 1 - 1 = n
      BY <1>6, <3>4, <3>a
    <3>6. new \in Seq(Nat)
      <4>1. \A k \in 1 .. n : pos[k] \in Nat
        <5>1. \A k \in 1 .. n : DOMAIN tree[k] \subseteq Nat
          BY <3>4, TribbleFacts
        <5> QED BY <3>1, <3>4, <5>1 DEF Spells
      <4>2. nextSlot \in Nat
        BY <3>3, TribbleFacts
      <4>3. new \in [1 .. n + 1 -> Nat]
        BY <3>a, <4>1, <4>2
      <4> QED BY <4>3
    <3>7. \A k \in 1 .. n + 1 :
            new[k] \in DOMAIN tree'[k] /\ tree'[k][new[k]].symbol = target[k]
      BY <3>1, <3>3, <3>4, <3>5 DEF Spells
    <3>8. \A k \in 1 .. n : tree'[k + 1][new[k + 1]].parent = <<k, new[k]>>
      <4> SUFFICES ASSUME NEW k \in 1 .. n
                   PROVE  tree'[k + 1][new[k + 1]].parent = <<k, new[k]>>
        OBVIOUS
      <4>1. CASE k = n
        <5>1. new[n] = slot /\ tree'[n + 1][new[n + 1]].parent = <<n, slot>>
          BY <3>1, <3>3, <3>4, <3>5, <4>1
        <5> QED BY <4>1, <5>1
      <4>2. CASE k \in 1 .. n - 1
        <5>1. k + 1 \in 1 .. n
          BY <4>2
        <5> QED BY <3>1, <3>4, <3>5, <4>2, <5>1 DEF Spells
      <4> QED BY <3>5, <4>1, <4>2
    <3>9. Spells(tree, new, n + 1)'
      <4>1. 1 .. (n + 1) - 1 = 1 .. n
        OBVIOUS
      <4> QED BY <1>1, <3>7, <3>8, <4>1 DEF Spells
    <3>10. Len(tree') = n + 1
      BY <1>5, <3>4
    <3>11. CASE Len(tree) + 1 = Len(target)
      <4>1. slot' = NoSlot
        BY <1>1, <1>3, <3>11, TribbleFacts DEF LastGuided
      <4>2. Spells(tree, new, Len(target))' /\ ~ (Len(tree') < Len(target'))
        BY <1>1, <3>4, <3>9, <3>10, <3>11 DEF Spells
      <4>3. \E q \in Seq(Nat) : Spells(tree, q, Len(target))'
        BY <3>6, <4>2
      <4> QED BY <4>1, <4>2, <4>3 DEF SlotInv
    <3>12. CASE Len(tree) + 1 < Len(target)
      <4>1. slot' = nextSlot
        BY <1>1, <1>3, <3>12, TribbleFacts DEF LastGuided
      <4>2. Spells(tree, new, Len(tree))' /\ ~ (Len(tree') >= Len(target'))
        <5>1. Len(target) \in Nat /\ target' = target
          BY <1>1, <1>4, TribbleFacts
        <5>2. ~ (n + 1 >= Len(target))
          BY <3>4, <3>12, <5>1
        <5> QED BY <3>9, <3>10, <5>1, <5>2 DEF Spells
      <4>3. slot' = new[Len(tree')] /\ slot' \in DOMAIN Level'
        BY <1>5, <3>3, <3>5, <3>10, <4>1
      <4>4. \E q \in Seq(Nat) : Spells(tree, q, Len(tree))' /\ slot' = q[Len(tree')]
        BY <3>6, <4>2, <4>3
      <4> QED BY <4>2, <4>3, <4>4 DEF SlotInv
    <3> QED BY <1>4, <2>1, <3>11, <3>12, TribbleFacts
  <2>2. CASE ~ (Len(tree) + 1 <= Len(target))
    <3>1. Len(tree) >= Len(target) /\ Len(tree') >= Len(target') /\ depth' # LastGuided
          /\ ~ (Len(tree') < Len(target'))
      BY <1>1, <1>3, <1>4, <1>5, <2>2, TribbleFacts DEF LastGuided
    <3>2. PICK pos \in Seq(Nat) : Spells(tree, pos, Len(target))
      BY <1>2, <1>4, <3>1 DEF SlotInv
    <3>3. slot' = NoSlot
      BY <1>1, <1>2, <1>4, <3>1 DEF SlotInv, NextSlotInv
    <3>4. PICK n \in Nat : n = Len(target) /\ n <= Len(tree)
      BY <1>4, <3>1, TribbleFacts
    <3>5. Spells(tree, pos, n)'
      BY <1>8, <3>2, <3>4
    <3>6. Spells(tree, pos, Len(target))'
      BY <1>1, <3>4, <3>5 DEF Spells
    <3> QED BY <3>1, <3>3, <3>6 DEF SlotInv
  <2> QED BY <2>1, <2>2
<1>10. NextSlotInv'
  <2>1. ~ (node' > slot')
    <3>1. slot' \in Nat
      BY <1>2, <1>1, TribbleFacts DEF NextSlotInv, NoSlot
    <3> QED BY <1>3, <3>1
  <2> QED BY <1>1, <2>1 DEF NextSlotInv
<1>11. GuidedHeightInv'
  <2>1. FreeLevels' = FreeLevels
    BY <1>1 DEF FreeLevels
  <2>2. Len(tree) <= FreeLevels + CostBound /\ Affordable(next, Len(tree) + 1)
    BY <1>2, <1>4, TribbleFacts DEF GuidedHeightInv
  <2>3. Len(tree') <= FreeLevels' + CostBound + 1
    BY <1>4, <1>5, <2>1, <2>2, TribbleFacts
  <2>4. Affordable(Level, Len(tree))'
    BY <1>5, <2>1, <2>2 DEF Affordable
  <2>5. Affordable(next, Len(tree) + 1)'
    BY <1>3 DEF Affordable
  <2> QED BY <1>3, <2>3, <2>4, <2>5 DEF GuidedHeightInv
<1> QED BY <1>5, <1>7, <1>9, <1>10, <1>11 DEF TribbleInv

\* Between two trees nothing is built.
LEMMA OtherStepKeeps ==
  ASSUME TribbleInv, WriteTree \/ CallAgain \/ Finished \/ UNCHANGED allVars
  PROVE  TribbleInv'
<1>1. UNCHANGED <<table, tree, node, next, tmpSubSeqs, depth, slot, nextSlot>>
  BY DEF WriteTree, CallAgain, Finished, allVars, vars, pathVars
<1>2. PathInv /\ SlotInv /\ NextSlotInv /\ GuidedHeightInv
  BY DEF TribbleInv
<1>3. TreeInv' /\ MatchedExact' /\ Level' = Level
  BY <1>1, SameTree, TribbleFacts
<1>4. CASE WriteTree
  <2>1. phase' = "path" /\ target' = <<>> /\ node = 0 /\ uncovered' \subseteq uncovered
    BY <1>4 DEF WriteTree
  <2>2. PathInv'
    BY <1>1, <1>2, <2>1 DEF PathInv
  <2> QED BY <1>1, <1>2, <1>3, <2>1, <2>2
          DEF TribbleInv, SlotInv, NextSlotInv, GuidedHeightInv
<1>5. CASE CallAgain
  <2>1. /\ phase = "path" /\ phase' \in {"path", "done"} /\ target' = target
        /\ uncovered' \in {uncovered, KPaths}
    BY <1>5 DEF CallAgain
  <2>2. PathInv'
    BY <1>1, <1>2, <2>1 DEF PathInv
  <2> QED BY <1>1, <1>2, <1>3, <2>1, <2>2
          DEF TribbleInv, SlotInv, NextSlotInv, GuidedHeightInv
<1>6. CASE Finished \/ UNCHANGED allVars
  <2>1. UNCHANGED <<phase, target, uncovered>>
    BY <1>6 DEF Finished, allVars, vars, pathVars
  <2>2. PathInv' /\ FreeLevels' = FreeLevels
    BY <1>1, <1>2, <1>3, <2>1 DEF PathInv, FreeLevels
  <2>3. SlotInv' /\ NextSlotInv'
    BY <1>1, <1>2, <1>3, <2>1 DEF SlotInv, NextSlotInv, Spells
  <2>4. GuidedHeightInv'
    BY <1>1, <1>2, <1>3, <2>1, <2>2 DEF GuidedHeightInv, Affordable
  <2> QED BY <1>3, <2>2, <2>3, <2>4 DEF TribbleInv
<1> QED BY <1>4, <1>5, <1>6

\* It is kept by every step.
LEMMA NextTribble == TribbleInv /\ [TribbleNext]_allVars => TribbleInv'
<1> SUFFICES ASSUME TribbleInv, [TribbleNext]_allVars PROVE TribbleInv'
  OBVIOUS
<1>1. CASE BeginPath
  BY <1>1, BeginPathKeeps
<1>2. CASE BeginLevel \/ Visit
  BY <1>2, VisitKeeps
<1>3. CASE ExpandSlot
  BY <1>3, ExpandSlotKeeps
<1>4. CASE ExpandOther
  BY <1>4, ExpandOtherKeeps
<1>5. CASE EndGuidedLevel
  BY <1>5, EndGuidedLevelKeeps
<1>6. CASE WriteTree \/ CallAgain \/ Finished \/ UNCHANGED allVars
  BY <1>6, OtherStepKeeps
<1> QED BY <1>1, <1>2, <1>3, <1>4, <1>5, <1>6 DEF TribbleNext

\* The path that the slots followed is the target, from the root of the tree.
LEMMA TargetIsReached ==
  ASSUME TribbleInv
  PROVE  TargetReached
<1> SUFFICES ASSUME phase = "minimum", node = 0, ~ AnyOpen(Level)
             PROVE  /\ Len(target) <= Len(tree)
                    /\ \E i \in DOMAIN tree[Len(target)] :
                         RootPath(Skeleton(tree, Len(target)), i) = target
  BY DEF TargetReached
<1>1. PathInv /\ SlotInv
  BY DEF TribbleInv
<1>2. Len(target) <= Len(tree)
  <2> SUFFICES ASSUME Len(tree) < Len(target) PROVE FALSE
    BY TribbleFacts
  <2>1. PICK pos \in Seq(Nat) : Spells(tree, pos, Len(tree)) /\ slot = pos[Len(tree)]
    BY <1>1 DEF SlotInv
  <2>2. slot \in 1 .. Len(Level)
    <3>1. Len(tree) \in 1 .. Len(tree)
      BY TribbleFacts
    <3> QED BY <2>1, <3>1, TribbleFacts DEF Spells
  <2>3. slot # NoSlot /\ node <= slot
    BY <2>2, TribbleFacts DEF NoSlot
  <2>4. Level[slot].status = "open"
    BY <2>3, SlotOpen
  <2> QED BY <2>2, <2>4, TribbleFacts DEF AnyOpen
<1>3. PICK pos \in Seq(Nat) : Spells(tree, pos, Len(target))
  BY <1>1, <1>2, TribbleFacts DEF SlotInv
<1>4. PICK n \in Nat \ {0} : n = Len(target)
  BY <1>1, TribbleFacts DEF PathInv
<1>5. RootPath(Skeleton(tree, n), pos[n]) = SymbolsAt(tree, pos, n)
  <2>1. Descends(tree, pos, n)
    BY <1>3, <1>4 DEF Spells, Descends
  <2> QED BY <2>1, RootPathIs
<1>6. SymbolsAt(tree, pos, n) = target
  <2>1. target \in [1 .. n -> Nonterminals]
    BY <1>1, <1>4 DEF PathInv
  <2> QED BY <1>3, <1>4, <2>1 DEF Spells, SymbolsAt
<1>7. pos[n] \in DOMAIN tree[n]
  BY <1>3, <1>4 DEF Spells
<1> QED BY <1>2, <1>4, <1>5, <1>6, <1>7

\* Theorem: every tree of the k-path generator is well formed, what is matched
\* in it is what it contains, and a finished one has its target path from the
\* root, although the slot is handed down as an offset into a level that is
\* still being built.
THEOREM TreesFollowTargets == TribbleSpec => []GuidedTrees
<1>1. TribbleInv => GuidedTrees
  <2> SUFFICES ASSUME TribbleInv PROVE GuidedTrees
    OBVIOUS
  <2>1. TribbleTypeOK
    BY DEF TribbleInv, TreeInv, Building, PathInv, SlotInv, NextSlotInv, TribbleTypeOK
  <2>2. TargetReached /\ MatchedExact
    BY TargetIsReached DEF TribbleInv
  <2> QED BY <2>1, <2>2 DEF GuidedTrees
<1> QED BY <1>1, InitTribble, NextTribble, PTL DEF TribbleSpec

\* Theorem: whatever the rules prune and wherever the target leads, a guided tree
\* closes within CostBound + 1 levels of the end of its target or of the depth
\* limit: its loop, which has no limit of its own, cannot run away.
THEOREM GuidedTreesBounded == TribbleSpec => []GuidedHeightBounded
<1>1. TribbleInv => GuidedHeightBounded
  BY DEF TribbleInv, GuidedHeightInv, GuidedHeightBounded, FreeLevels
<1> QED BY <1>1, InitTribble, NextTribble, PTL DEF TribbleSpec

\* One step of the k-path generator.
LEMMA NextOffTarget ==
  ASSUME TribbleInv, [TribbleNext]_allVars,
         NEW rule \in RuleSets, Completes(rule, tmpSubSeqs, tmpSubSeqs'),
         NEW id \in rule, rule \ tmpSubSeqs = {id}, node # slot
  PROVE  \A j \in Cheapest(Level[node].symbol) :
           Grammar[Level[node].symbol][j].dn \in PrunedHere
<1> DEFINE A == Level[node].symbol
           free == {k \in Cheapest(A) : Grammar[A][k].dn \notin PrunedHere}
<1>1. id \in tmpSubSeqs' /\ id \notin tmpSubSeqs
  BY DEF Completes
<1>2. ExpandOther
  BY <1>1 DEF TribbleNext, allVars, vars, BeginPath, BeginPathWith, BeginLevel,
              BeginMinimumLevel, Visit, VisitLeaf, ExpandSlot, EndGuidedLevel,
              EndGuidedLevelAs, EndLevel, EndLevelAt, WriteTree, CallAgain, Finished
<1>3. PICK j \in OtherCandidates(A, PrunedHere) : ExpandWith(Grammar[A][j])
  BY <1>2 DEF ExpandOther
<1>4. id \in NewlyMatched(A, Grammar[A][j].dn, Skeleton(tree, Len(tree)), node)
  BY <1>1, <1>3 DEF ExpandWith
<1>5. Grammar[A][j].dn \in PrunedHere
  BY <1>4, MissingIsPruned DEF TribbleInv
<1>6. free # {} => OtherCandidates(A, PrunedHere) = free
  BY DEF OtherCandidates
<1>7. free = {}
  BY <1>3, <1>5, <1>6
<1> QED BY <1>7

\* Theorem: off its target the k-path generator is cornered like the other one:
\* a step that completes a rule of which a single sub-sequence was missing found
\* every cheapest expansion pruned.
THEOREM CorneredOffTarget == TribbleSpec => OffTargetWhenCornered
<1> DEFINE B == \A rule \in RuleSets :
                  /\ Completes(rule, tmpSubSeqs, tmpSubSeqs')
                  /\ \E id \in rule : rule \ tmpSubSeqs = {id}
                  => \/ node = slot
                     \/ \A j \in Cheapest(Level[node].symbol) :
                          Grammar[Level[node].symbol][j].dn \in PrunedHere
<1>1. TribbleInv /\ [TribbleNext]_allVars => B
  BY NextOffTarget
<1>2. TribbleInv /\ [TribbleNext]_allVars => [B]_allVars
  BY <1>1
<1> HIDE DEF B
<1>3. TribbleSpec => [][B]_allVars
  BY <1>2, InitTribble, NextTribble, PTL DEF TribbleSpec
<1> QED BY <1>3 DEF OffTargetWhenCornered, B
-----------------------------------------------------------------------------
(* Folds over a sequence, which the library defines by a recursive function *)
(* on the sets of positions.                                                *)

\* A nonempty family of subsets of a finite set has a minimal member.
LEMMA MinimalSet ==
  ASSUME NEW S, IsFiniteSet(S), NEW Family \in SUBSET (SUBSET S), Family # {}
  PROVE  \E T \in Family : \A U \in Family : U \subseteq T => U = T
<1> DEFINE Cards == {Cardinality(T) : T \in Family}
<1>1. \A T \in Family : IsFiniteSet(T) /\ Cardinality(T) \in Nat
  BY FS_Subset, FS_CardinalityType
<1>2. Cards \subseteq Nat /\ Cards # {}
  BY <1>1
<1>3. PICK n \in Cards : \A m \in Cards : n <= m
  <2> HIDE DEF Cards
  <2> QED BY <1>2, LeastNat
<1>4. PICK T \in Family : n = Cardinality(T)
  BY DEF Cards
<1>5. ASSUME NEW U \in Family, U \subseteq T PROVE U = T
  <2>1. Cardinality(U) <= Cardinality(T) /\ (Cardinality(T) = Cardinality(U) => T = U)
    BY <1>1, <1>5, FS_Subset
  <2>2. Cardinality(T) <= Cardinality(U)
    BY <1>3, <1>4
  <2> QED BY <1>1, <2>1, <2>2
<1> QED BY <1>4, <1>5

\* A finite set of positions, with a greatest in each of its nonempty subsets.
Positions(D) == IsFiniteSet(D) /\ \A s \in SUBSET D : s # {} => Max(s) \in s

\* The positions of a sequence.
LEMMA PositionsAre ==
  ASSUME NEW n \in Nat
  PROVE  Positions(1 .. n)
<1> SUFFICES ASSUME NEW s \in SUBSET (1 .. n), s # {} PROVE Max(s) \in s
  BY FS_Interval DEF Positions
<1> DEFINE Rest == {n - i : i \in s}
<1>1. Rest \subseteq Nat /\ Rest # {}
  <2>1. \A i \in s : n - i \in Nat
    OBVIOUS
  <2>2. PICK i \in s : TRUE
    OBVIOUS
  <2>3. n - i \in Rest
    OBVIOUS
  <2> QED BY <2>1, <2>3
<1>2. PICK d \in Rest : \A e \in Rest : d <= e
  <2> HIDE DEF Rest
  <2> QED BY <1>1, LeastNat
<1>3. PICK m \in s : d = n - m
  OBVIOUS
<1>4. ASSUME NEW i \in s PROVE m >= i
  <2>1. n - i \in Rest
    OBVIOUS
  <2>2. d <= n - i
    BY <1>2, <2>1
  <2>3. m \in Int /\ i \in Int
    OBVIOUS
  <2> QED BY <1>3, <2>2, <2>3
<1> QED BY <1>4 DEF Max

LEMMA MinimalPositions ==
  ASSUME NEW D, Positions(D), NEW Family, Family \subseteq SUBSET D, Family # {}
  PROVE  \E T \in Family : /\ \A U \in Family : U \subseteq T => U = T
                           /\ T # {} => /\ Max(T) \in T
                                        /\ T \ {Max(T)} \subseteq T /\ T \ {Max(T)} \notin Family
<1>1. IsFiniteSet(D) /\ Family \in SUBSET (SUBSET D)
  BY DEF Positions
<1>2. PICK T \in Family : \A U \in Family : U \subseteq T => U = T
  BY <1>1, MinimalSet
<1>3. T # {} => Max(T) \in T
  BY DEF Positions
<1> QED BY <1>2, <1>3

\* g folds Op over the elements of seq at each set of positions within T.
Folded(Op, base, seq, T, g) ==
  \A s \in SUBSET T :
    g[s] = IF s = {} THEN base ELSE Op[g[s \ {Max(s)}], seq[Max(s)]]

LEMMA FoldsAgree ==
  ASSUME NEW T, Positions(T), NEW U \in SUBSET T,
         NEW Op, NEW base, NEW seq, NEW g, NEW h,
         Folded(Op, base, seq, T, g), Folded(Op, base, seq, U, h)
  PROVE  \A s \in SUBSET U : g[s] = h[s]
<1> DEFINE Differ == {s \in SUBSET U : g[s] # h[s]}
<1> SUFFICES ASSUME Differ # {} PROVE FALSE
  OBVIOUS
<1>1. PICK s \in Differ : s # {} => Max(s) \in s /\ s \ {Max(s)} \subseteq s /\ s \ {Max(s)} \notin Differ
  <2>1. Differ \subseteq SUBSET T
    OBVIOUS
  <2> HIDE DEF Differ
  <2> QED BY <2>1, MinimalPositions
<1>2. s \in SUBSET U /\ s \in SUBSET T /\ g[s] # h[s]
  OBVIOUS
<1>3. s # {}
  BY <1>2 DEF Folded
<1>4. g[s \ {Max(s)}] = h[s \ {Max(s)}]
  BY <1>1, <1>2, <1>3
<1> QED BY <1>2, <1>3, <1>4 DEF Folded

\* A function that keeps a set can be folded within it.
LEMMA FoldExists ==
  ASSUME NEW Acc, NEW Elems, NEW Op \in [Acc \X Elems -> Acc], NEW base \in Acc,
         NEW seq \in Seq(Elems)
  PROVE  \E g \in [SUBSET DOMAIN seq -> Acc] : Folded(Op, base, seq, DOMAIN seq, g)
<1> DEFINE D == DOMAIN seq
           n == Len(seq)
           Part(T, g) == Folded(Op, base, seq, T, g)
           Good(T) == \E g \in [SUBSET T -> Acc] : Part(T, g)
           Bad == {T \in SUBSET D : ~ Good(T)}
<1>1. Positions(D) /\ \A i \in D : seq[i] \in Elems
  <2>1. n \in Nat /\ D = 1 .. n
    OBVIOUS
  <2>2. Positions(1 .. n)
    BY <2>1, PositionsAre
  <2> QED BY <2>1, <2>2
<1> HIDE DEF D
<1>0. ASSUME NEW s \in SUBSET D, s # {} PROVE Max(s) \in s
  BY <1>1, <1>0 DEF Positions
<1>2. ASSUME NEW T \in SUBSET D, \A U \in SUBSET T : U # T => Good(U)
      PROVE  Good(T)
  <2> DEFINE G(U) == CHOOSE g \in [SUBSET U -> Acc] : Part(U, g)
             Below(s) == s \ {Max(s)}
             h == [s \in SUBSET T |-> IF s = {} THEN base
                                      ELSE Op[G(Below(s))[Below(s)], seq[Max(s)]]]
  <2>1. ASSUME NEW U \in SUBSET T, U # T
        PROVE  G(U) \in [SUBSET U -> Acc] /\ Part(U, G(U))
    BY <1>2, <2>1
  <2>2. ASSUME NEW s \in SUBSET T, s # {}
        PROVE  Max(s) \in s /\ Below(s) \in SUBSET T /\ Below(s) # T /\ Below(s) \subseteq s
    BY <1>0, <2>2
  <2> HIDE DEF G, Below, Part
  <2>3. h \in [SUBSET T -> Acc]
    <3> SUFFICES ASSUME NEW s \in SUBSET T, s # {}
                 PROVE  Op[G(Below(s))[Below(s)], seq[Max(s)]] \in Acc
      OBVIOUS
    <3>1. G(Below(s)) \in [SUBSET Below(s) -> Acc]
      BY <2>1, <2>2
    <3>2. G(Below(s))[Below(s)] \in Acc
      BY <3>1
    <3>3. seq[Max(s)] \in Elems
      BY <1>1, <2>2
    <3> QED BY <3>2, <3>3
  <2>4. ASSUME NEW s \in SUBSET T, s # {}
        PROVE  h[Below(s)] = G(Below(s))[Below(s)]
    <3> DEFINE U == Below(s)
    <3>1. U \in SUBSET T /\ U # T /\ U \in SUBSET D
      BY <2>2, <2>4
    <3>2. G(U) \in [SUBSET U -> Acc] /\ Part(U, G(U))
      BY <2>1, <3>1
    <3> HIDE DEF U
    <3>3. h[U] = IF U = {} THEN base ELSE Op[G(Below(U))[Below(U)], seq[Max(U)]]
      BY <3>1
    <3>4. G(U)[U] = IF U = {} THEN base ELSE Op[G(U)[Below(U)], seq[Max(U)]]
      BY <3>2 DEF Part, Folded, Below
    <3>5. CASE U = {}
      BY <3>3, <3>4, <3>5 DEF U
    <3>6. CASE U # {}
      <4>1. Below(U) \in SUBSET U /\ Below(U) \in SUBSET T /\ Below(U) # T
        BY <2>2, <3>1, <3>6
      <4>2. G(Below(U)) \in [SUBSET Below(U) -> Acc] /\ Part(Below(U), G(Below(U)))
        BY <2>1, <4>1
      <4>3. \A t \in SUBSET Below(U) : G(U)[t] = G(Below(U))[t]
        <5> DEFINE V == Below(U)
                   g == G(U)
                   k == G(Below(U))
        <5>1. U \in SUBSET D /\ Part(U, g)
          BY <3>1, <3>2
        <5>2. V \in SUBSET U /\ Part(V, k)
          BY <4>1, <4>2
        <5> HIDE DEF V, g, k
        <5>3. \A t \in SUBSET V : g[t] = k[t]
          <6>1. Positions(U)
            BY <1>1, <5>1, FS_Subset DEF Positions
          <6> QED BY <5>1, <5>2, <6>1, FoldsAgree DEF Part
        <5> QED BY <5>3 DEF V, g, k
      <4> QED BY <3>3, <3>4, <3>6, <4>3 DEF U
    <3> QED BY <3>5, <3>6
  <2>5. \A s \in SUBSET T :
          h[s] = IF s = {} THEN base ELSE Op[h[Below(s)], seq[Max(s)]]
    <3>1. \A s \in SUBSET T :
            h[s] = IF s = {} THEN base ELSE Op[G(Below(s))[Below(s)], seq[Max(s)]]
      OBVIOUS
    <3> HIDE DEF h
    <3> QED BY <2>4, <3>1
  <2>6. Part(T, h)
    <3> HIDE DEF h
    <3> QED BY <2>5 DEF Part, Folded, Below
  <2> HIDE DEF h
  <2> QED BY <2>3, <2>6
<1>3. Bad = {}
  <2> SUFFICES ASSUME Bad # {} PROVE FALSE
    OBVIOUS
  <2>1. PICK T \in Bad : \A U \in Bad : U \subseteq T => U = T
    <3>1. Bad \subseteq SUBSET D
      OBVIOUS
    <3>2. Positions(D)
      BY <1>1
    <3> HIDE DEF Bad
    <3>3. \E T \in Bad : /\ \A U \in Bad : U \subseteq T => U = T
                         /\ T # {} => /\ Max(T) \in T
                                      /\ T \ {Max(T)} \subseteq T /\ T \ {Max(T)} \notin Bad
      BY <3>1, <3>2, MinimalPositions
    <3> QED BY <3>3
  <2> HIDE DEF Good
  <2>2. T \in SUBSET D /\ \A U \in SUBSET T : U # T => Good(U)
    BY <2>1
  <2> QED BY <1>2, <2>1, <2>2
<1>4. Good(D)
  <2> HIDE DEF Good
  <2> QED BY <1>3
<1>5. PICK g \in [SUBSET D -> Acc] : Part(D, g)
  BY <1>4
<1> QED BY <1>5 DEF D

\* What a fold keeps at each step holds at its end.
LEMMA FoldKeeps ==
  ASSUME NEW D, Positions(D), NEW g, NEW Rel, <<{}, g[{}]>> \in Rel,
         \A s \in SUBSET D :
           s # {} /\ <<s \ {Max(s)}, g[s \ {Max(s)}]>> \in Rel => <<s, g[s]>> \in Rel
  PROVE  <<D, g[D]>> \in Rel
<1> DEFINE Bad == {s \in SUBSET D : <<s, g[s]>> \notin Rel}
<1> SUFFICES ASSUME Bad # {} PROVE FALSE
  OBVIOUS
<1>1. PICK s \in Bad : s # {} => s \ {Max(s)} \subseteq s /\ s \ {Max(s)} \notin Bad
  <2>1. Bad \subseteq SUBSET D
    OBVIOUS
  <2> HIDE DEF Bad
  <2> QED BY <2>1, MinimalPositions
<1>2. s # {}
  OBVIOUS
<1>3. <<s \ {Max(s)}, g[s \ {Max(s)}]>> \in Rel
  BY <1>1, <1>2
<1> QED BY <1>2, <1>3
-----------------------------------------------------------------------------
(* The table that AddRule builds, for sub-sequences over any symbols and    *)
(* derivation numbers.                                                      *)

SubsOver(Syms, Dns) == [path : Seq(Syms) \ {<<>>}, dn : Dns]
KeysOver(Syms, Dns) == {Key(sub) : sub \in SubsOver(Syms, Dns)}

PartialFunctions(A, B) == UNION {[C -> B] : C \in SUBSET A}

\* Ids are numbered from 0 without gaps, distinct, and lead to their paths.
Numbered(t) ==
  /\ IsFiniteSet(DOMAIN t.subs)
  /\ DOMAIN t.paths = 0 .. Cardinality(DOMAIN t.subs) - 1
  /\ \A k \in DOMAIN t.subs :
       /\ t.subs[k] \in DOMAIN t.paths
       /\ t.paths[t.subs[k]] = k[3]
       /\ \A m \in DOMAIN t.subs : t.subs[k] = t.subs[m] => k = m
  /\ \A i \in DOMAIN t.paths : \E k \in DOMAIN t.subs : t.subs[k] = i

TablesOver(Syms, Dns) ==
  {t \in [subs  : PartialFunctions(KeysOver(Syms, Dns), Nat),
          paths : PartialFunctions(Nat, Seq(Syms)),
          rules : PartialFunctions(Syms, SUBSET (Dns \X SUBSET Nat))] : Numbered(t)}

\* A key and its sub-sequence stand for one another.
LEMMA KeyIs ==
  ASSUME NEW Syms, NEW Dns, NEW sub \in SubsOver(Syms, Dns)
  PROVE  /\ Key(sub) \in KeysOver(Syms, Dns)
         /\ Key(sub)[1] = LastSymbol(sub) /\ Key(sub)[2] = sub.dn /\ Key(sub)[3] = sub.path
         /\ SubSequence(Key(sub)[3], Key(sub)[2]) = sub
         /\ LastSymbol(sub) \in Syms /\ sub.dn \in Dns /\ sub.path \in Seq(Syms)
<1>1. sub.path \in Seq(Syms) /\ sub.path # <<>> /\ sub.dn \in Dns
      /\ sub = [path |-> sub.path, dn |-> sub.dn]
  BY DEF SubsOver
<1>2. Len(sub.path) \in DOMAIN sub.path
  BY <1>1
<1> QED BY <1>1, <1>2 DEF KeysOver, Key, LastSymbol, SubSequence

\* A key determines its sub-sequence.
LEMMA KeysAre ==
  ASSUME NEW Syms, NEW Dns, NEW k \in KeysOver(Syms, Dns)
  PROVE  /\ SubSequence(k[3], k[2]) \in SubsOver(Syms, Dns)
         /\ k = Key(SubSequence(k[3], k[2]))
         /\ k[1] = k[3][Len(k[3])]
<1>1. PICK sub \in SubsOver(Syms, Dns) : k = Key(sub)
  BY DEF KeysOver
<1>2. SubSequence(k[3], k[2]) = sub
  BY <1>1, KeyIs
<1>3. k[1] = LastSymbol(sub) /\ k[3] = sub.path
  BY <1>1, KeyIs
<1> QED BY <1>1, <1>2, <1>3 DEF LastSymbol

\* A partial function with one more value.
LEMMA WithIs ==
  ASSUME NEW A, NEW B, NEW f \in PartialFunctions(A, B), NEW x \in A, NEW v \in B
  PROVE  /\ With(f, x, v) \in PartialFunctions(A, B)
         /\ DOMAIN With(f, x, v) = DOMAIN f \cup {x}
         /\ With(f, x, v)[x] = v
         /\ \A y \in DOMAIN f \ {x} : With(f, x, v)[y] = f[y]
<1>1. PICK C \in SUBSET A : f \in [C -> B]
  BY DEF PartialFunctions
<1>2. With(f, x, v) \in [C \cup {x} -> B]
  BY <1>1 DEF With
<1>3. C \cup {x} \in SUBSET A
  OBVIOUS
<1>4. With(f, x, v) \in PartialFunctions(A, B)
  BY <1>2, <1>3 DEF PartialFunctions
<1> QED BY <1>1, <1>4 DEF With

\* The table u has all keys that t has, and lists the same rules.
Keeps(t, u) == \A k \in DOMAIN t.subs : k \in DOMAIN u.subs /\ u.subs[k] = t.subs[k]
Extends(t, u) == u.rules = t.rules /\ Keeps(t, u)

LEMMA NumberedOnce ==
  ASSUME NEW Syms, NEW Dns, NEW t \in TablesOver(Syms, Dns), NEW sub \in SubsOver(Syms, Dns)
  PROVE  /\ AddSubSequence(t, sub) \in TablesOver(Syms, Dns)
         /\ Extends(t, AddSubSequence(t, sub))
         /\ Key(sub) \in DOMAIN AddSubSequence(t, sub).subs
<1> DEFINE u == AddSubSequence(t, sub)
           id == Cardinality(DOMAIN t.subs)
           k == Key(sub)
<1>1. /\ t \in [subs  : PartialFunctions(KeysOver(Syms, Dns), Nat),
                paths : PartialFunctions(Nat, Seq(Syms)),
                rules : PartialFunctions(Syms, SUBSET (Dns \X SUBSET Nat))]
      /\ Numbered(t)
  BY DEF TablesOver
<1>2. CASE k \in DOMAIN t.subs
  BY <1>2 DEF AddSubSequence, Extends, Keeps
<1>3. CASE k \notin DOMAIN t.subs
  <2>1. u = [t EXCEPT !.subs = With(@, k, id), !.paths = With(@, id, sub.path)]
    BY <1>3 DEF AddSubSequence
  <2>2. id \in Nat /\ IsFiniteSet(DOMAIN t.subs) /\ DOMAIN t.paths = 0 .. id - 1
    BY <1>1, FS_CardinalityType DEF Numbered
  <2>3. /\ k \in KeysOver(Syms, Dns) /\ sub.path \in Seq(Syms) /\ k[3] = sub.path
    BY KeyIs
  <2>4. /\ t.subs \in PartialFunctions(KeysOver(Syms, Dns), Nat)
        /\ t.paths \in PartialFunctions(Nat, Seq(Syms))
    BY <1>1
  <2>5. u.subs = With(t.subs, k, id) /\ u.paths = With(t.paths, id, sub.path)
        /\ u.rules = t.rules
    BY <1>1, <2>1
  <2> HIDE DEF k, id, u
  <2>6. /\ u.subs \in PartialFunctions(KeysOver(Syms, Dns), Nat)
        /\ DOMAIN u.subs = DOMAIN t.subs \cup {k} /\ u.subs[k] = id
        /\ \A m \in DOMAIN t.subs : u.subs[m] = t.subs[m]
    <3> DEFINE K == KeysOver(Syms, Dns)
               N == Nat
               f == t.subs
               g == u.subs
    <3>1. f \in PartialFunctions(K, N) /\ k \in K /\ id \in N /\ g = With(f, k, id)
      BY <2>2, <2>3, <2>4, <2>5
    <3>2. k \notin DOMAIN f
      BY <1>3 DEF k
    <3> HIDE DEF K, N, f, g
    <3>3. /\ g \in PartialFunctions(K, N) /\ DOMAIN g = DOMAIN f \cup {k}
          /\ g[k] = id /\ \A m \in DOMAIN f \ {k} : g[m] = f[m]
      <4>1. f \in PartialFunctions(K, N) /\ k \in K /\ id \in N
        BY <3>1
      <4> DEFINE w == With(f, k, id)
      <4>2. /\ w \in PartialFunctions(K, N) /\ DOMAIN w = DOMAIN f \cup {k}
            /\ w[k] = id /\ \A m \in DOMAIN f \ {k} : w[m] = f[m]
        BY <4>1, WithIs
      <4>3. g = w
        BY <3>1
      <4> HIDE DEF w
      <4> QED BY <4>2, <4>3
    <3>4. \A m \in DOMAIN f : g[m] = f[m]
      BY <3>2, <3>3
    <3> QED BY <3>3, <3>4 DEF K, N, f, g
  <2>7. /\ u.paths \in PartialFunctions(Nat, Seq(Syms))
        /\ DOMAIN u.paths = (0 .. id - 1) \cup {id} /\ u.paths[id] = sub.path
        /\ \A i \in 0 .. id - 1 : u.paths[i] = t.paths[i]
    <3>1. /\ u.paths \in PartialFunctions(Nat, Seq(Syms))
          /\ DOMAIN u.paths = DOMAIN t.paths \cup {id} /\ u.paths[id] = sub.path
          /\ \A i \in DOMAIN t.paths \ {id} : u.paths[i] = t.paths[i]
      <4> DEFINE P == Seq(Syms)
                 N == Nat
                 f == t.paths
                 g == u.paths
                 v == sub.path
      <4>1. f \in PartialFunctions(N, P) /\ id \in N /\ v \in P /\ g = With(f, id, v)
        BY <2>2, <2>3, <2>4, <2>5
      <4> HIDE DEF P, N, f, g, v
      <4>2. /\ g \in PartialFunctions(N, P) /\ DOMAIN g = DOMAIN f \cup {id}
            /\ g[id] = v /\ \A m \in DOMAIN f \ {id} : g[m] = f[m]
        BY <4>1, WithIs
      <4> QED BY <4>2 DEF P, N, f, g, v
    <3>2. (0 .. id - 1) \ {id} = 0 .. id - 1
      BY <2>2
    <3> QED BY <2>2, <3>1, <3>2
  <2>8. IsFiniteSet(DOMAIN u.subs) /\ Cardinality(DOMAIN u.subs) = id + 1
    <3> DEFINE S == DOMAIN t.subs
    <3>1. IsFiniteSet(S) /\ k \notin S /\ DOMAIN u.subs = S \cup {k} /\ Cardinality(S) = id
      BY <1>3, <2>2, <2>6 DEF k, id
    <3> HIDE DEF S
    <3>2. IsFiniteSet(S \cup {k}) /\ Cardinality(S \cup {k}) = Cardinality(S) + 1
      BY <3>1, FS_AddElement
    <3> QED BY <3>1, <3>2
  <2>9. DOMAIN u.paths = 0 .. id
    BY <2>2, <2>7
  <2>10. Numbered(u)
    <3>1. DOMAIN u.paths = 0 .. Cardinality(DOMAIN u.subs) - 1
      BY <2>2, <2>8, <2>9
    <3>2. ASSUME NEW m \in DOMAIN t.subs
          PROVE  u.subs[m] \in 0 .. id - 1 /\ u.paths[u.subs[m]] = m[3] /\ u.subs[m] # id
      <4>1. t.subs[m] \in 0 .. id - 1 /\ t.paths[t.subs[m]] = m[3]
        BY <1>1, <2>2 DEF Numbered
      <4> QED BY <2>2, <2>6, <2>7, <4>1
    <3>3. ASSUME NEW m \in DOMAIN u.subs
          PROVE  u.subs[m] \in DOMAIN u.paths /\ u.paths[u.subs[m]] = m[3]
      BY <2>2, <2>3, <2>6, <2>7, <3>2
    <3>4. ASSUME NEW m \in DOMAIN u.subs, NEW l \in DOMAIN u.subs, u.subs[m] = u.subs[l]
          PROVE  m = l
      <4>1. \A a, b \in DOMAIN t.subs : t.subs[a] = t.subs[b] => a = b
        BY <1>1 DEF Numbered
      <4> QED BY <2>6, <3>2, <3>4, <4>1
    <3>5. ASSUME NEW i \in DOMAIN u.paths PROVE \E m \in DOMAIN u.subs : u.subs[m] = i
      <4>1. CASE i = id
        BY <2>6, <4>1
      <4>2. CASE i # id
        <5>1. i \in DOMAIN t.paths
          BY <2>2, <2>7, <4>2
        <5>2. PICK m \in DOMAIN t.subs : t.subs[m] = i
          BY <1>1, <5>1 DEF Numbered
        <5> QED BY <2>6, <5>2
      <4> QED BY <4>1, <4>2
    <3> QED BY <2>8, <3>1, <3>3, <3>4, <3>5 DEF Numbered
  <2>11. u \in TablesOver(Syms, Dns)
    <3>1. u \in [subs  : PartialFunctions(KeysOver(Syms, Dns), Nat),
                 paths : PartialFunctions(Nat, Seq(Syms)),
                 rules : PartialFunctions(Syms, SUBSET (Dns \X SUBSET Nat))]
      BY <1>1, <2>1, <2>5, <2>6, <2>7
    <3> QED BY <2>10, <3>1 DEF TablesOver
  <2> QED BY <2>5, <2>6, <2>11 DEF Extends, Keeps, u, k
<1> QED BY <1>2, <1>3

\* The two loops of AddRule, and the ids between them.
NumberMembers(t, members) == FoldLeft(AddSubSequence, t, members)
ListMembers(t, ids, members) == FoldLeft(LAMBDA v, sub : ListRule(v, ids, sub), t, members)
RuleIds(t, rule) == {t.subs[Key(sub)] : sub \in rule}

\* Numbering the members of a rule one after the other numbers all of them.
LEMMA NumberedAll ==
  ASSUME NEW Syms, NEW Dns, NEW t \in TablesOver(Syms, Dns),
         NEW members \in Seq(SubsOver(Syms, Dns))
  PROVE  LET u == NumberMembers(t, members)
         IN  /\ u \in TablesOver(Syms, Dns) /\ Extends(t, u)
             /\ \A i \in DOMAIN members : Key(members[i]) \in DOMAIN u.subs
<1> DEFINE S == SubsOver(Syms, Dns)
           D == DOMAIN members
           Acc == {u \in TablesOver(Syms, Dns) : Extends(t, u)}
           Op == [x \in Acc \X S |-> AddSubSequence(x[1], x[2])]
           Step(g) == [s \in SUBSET D |-> IF s = {} THEN t
                         ELSE AddSubSequence(g[s \ {Max(s)}], members[Max(s)])]
           h == CHOOSE g : g = Step(g)
           Rel == {r \in (SUBSET D) \X Acc :
                     \A i \in r[1] : Key(members[i]) \in DOMAIN r[2].subs}
<1>1. NumberMembers(t, members) = h[D]
  BY DEF NumberMembers, FoldLeft, MapThenFoldSet
<1>2. ASSUME NEW u \in Acc, NEW sub \in S
      PROVE  AddSubSequence(u, sub) \in Acc /\ Extends(u, AddSubSequence(u, sub))
             /\ Key(sub) \in DOMAIN AddSubSequence(u, sub).subs
  <2>1. /\ AddSubSequence(u, sub) \in TablesOver(Syms, Dns)
        /\ Extends(u, AddSubSequence(u, sub))
        /\ Key(sub) \in DOMAIN AddSubSequence(u, sub).subs
    BY NumberedOnce
  <2> QED BY <2>1 DEF Extends, Keeps
<1>3. t \in Acc
  BY DEF Extends, Keeps
<1>4. Positions(D) /\ \A i \in D : members[i] \in S
  <2>1. D = 1 .. Len(members) /\ Len(members) \in Nat /\ \A i \in D : members[i] \in S
    OBVIOUS
  <2> QED BY <2>1, PositionsAre
<1>5. \A s \in SUBSET D : s # {} => Max(s) \in s /\ members[Max(s)] \in S
  BY <1>4 DEF Positions
<1>6. members \in Seq(S)
  OBVIOUS
<1> HIDE DEF S, D, Acc
<1>7. h = Step(h)
  <2>1. Op \in [Acc \X S -> Acc]
    BY <1>2
  <2>2. \A u \in Acc, sub \in S : Op[u, sub] = AddSubSequence(u, sub)
    OBVIOUS
  <2> HIDE DEF Op
  <2>3. PICK g \in [SUBSET D -> Acc] : Folded(Op, t, members, D, g)
    BY <1>3, <1>6, <2>1, FoldExists DEF D
  <2>4. \A s \in SUBSET D :
          g[s] = IF s = {} THEN t ELSE AddSubSequence(g[s \ {Max(s)}], members[Max(s)])
    <3> SUFFICES ASSUME NEW s \in SUBSET D, s # {}
                 PROVE  g[s] = AddSubSequence(g[s \ {Max(s)}], members[Max(s)])
      BY <2>3 DEF Folded
    <3>1. g[s] = Op[g[s \ {Max(s)}], members[Max(s)]]
      BY <2>3 DEF Folded
    <3>2. g[s \ {Max(s)}] \in Acc /\ members[Max(s)] \in S
      BY <1>5, <2>3
    <3> QED BY <2>2, <3>1, <3>2
  <2>5. g = Step(g)
    BY <2>3, <2>4
  <2> HIDE DEF Step
  <2> QED BY <2>5
<1> HIDE DEF h
<1>8. <<{}, h[{}]>> \in Rel
  BY <1>3, <1>7
<1>9. ASSUME NEW s \in SUBSET D, s # {}, <<s \ {Max(s)}, h[s \ {Max(s)}]>> \in Rel
      PROVE  <<s, h[s]>> \in Rel
  <2> DEFINE u == h[s \ {Max(s)}]
             m == Max(s)
  <2>1. u \in Acc /\ \A i \in s \ {m} : Key(members[i]) \in DOMAIN u.subs
    BY <1>9
  <2>2. m \in s /\ members[m] \in S
    BY <1>5, <1>9
  <2>3. h[s] = AddSubSequence(u, members[m])
    BY <1>7, <1>9
  <2> HIDE DEF u, m
  <2>4. h[s] \in Acc /\ Extends(u, h[s]) /\ Key(members[m]) \in DOMAIN h[s].subs
    BY <1>2, <2>1, <2>2, <2>3
  <2>5. \A i \in s : Key(members[i]) \in DOMAIN h[s].subs
    BY <2>1, <2>4 DEF Extends, Keeps
  <2> QED BY <2>4, <2>5
<1>10. <<D, h[D]>> \in Rel
  <2> HIDE DEF Rel
  <2> QED BY <1>4, <1>8, <1>9, FoldKeeps
<1> QED BY <1>1, <1>10 DEF Acc, D

\* The table lists the entry r, a derivation number and ids, under a symbol.
Lists(t, symbol, r) == r \in Lookup(t.rules, symbol, {})

LEMMA ListedOnce ==
  ASSUME NEW Syms, NEW Dns, NEW t \in TablesOver(Syms, Dns),
         NEW sub \in SubsOver(Syms, Dns), NEW ids \in SUBSET Nat
  PROVE  LET u == ListRule(t, ids, sub)
         IN  /\ u \in TablesOver(Syms, Dns) /\ u.subs = t.subs /\ u.paths = t.paths
             /\ \A A, r : Lists(u, A, r) <=>
                  Lists(t, A, r) \/ (A = LastSymbol(sub) /\ r = <<sub.dn, ids>>)
<1> DEFINE u == ListRule(t, ids, sub)
           B == SUBSET (Dns \X SUBSET Nat)
           symbol == LastSymbol(sub)
           old == Lookup(t.rules, symbol, {})
           new == old \cup {<<sub.dn, ids>>}
           f == t.rules
           g == u.rules
<1>1. /\ t \in [subs  : PartialFunctions(KeysOver(Syms, Dns), Nat),
                paths : PartialFunctions(Nat, Seq(Syms)),
                rules : PartialFunctions(Syms, B)]
      /\ Numbered(t)
  BY DEF TablesOver
<1>2. u = [t EXCEPT !.rules = With(@, symbol, Lookup(@, symbol, {}) \cup {<<sub.dn, ids>>})]
  BY DEF ListRule
<1>3. u.subs = t.subs /\ u.paths = t.paths /\ g = With(f, symbol, new)
  BY <1>1, <1>2
<1>4. symbol \in Syms /\ sub.dn \in Dns
  BY KeyIs
<1>5. f \in PartialFunctions(Syms, B)
  BY <1>1
<1>6. new \in B
  <2>1. old \in B
    BY <1>5 DEF Lookup, PartialFunctions
  <2>2. <<sub.dn, ids>> \in Dns \X SUBSET Nat
    BY <1>4
  <2> QED BY <2>1, <2>2
<1> HIDE DEF B, symbol, new
<1>7. /\ g \in PartialFunctions(Syms, B) /\ DOMAIN g = DOMAIN f \cup {symbol}
      /\ g[symbol] = new /\ \A y \in DOMAIN f \ {symbol} : g[y] = f[y]
  <2> DEFINE w == With(f, symbol, new)
  <2>1. /\ w \in PartialFunctions(Syms, B) /\ DOMAIN w = DOMAIN f \cup {symbol}
        /\ w[symbol] = new /\ \A y \in DOMAIN f \ {symbol} : w[y] = f[y]
    <3>1. f \in PartialFunctions(Syms, B) /\ symbol \in Syms /\ new \in B
      BY <1>4, <1>5, <1>6
    <3> HIDE DEF f
    <3>2. w \in PartialFunctions(Syms, B)
      BY <3>1, WithIs
    <3>3. /\ DOMAIN w = DOMAIN f \cup {symbol} /\ w[symbol] = new
          /\ \A y \in DOMAIN f \ {symbol} : w[y] = f[y]
      BY DEF With
    <3> QED BY <3>2, <3>3
  <2>2. g = w
    BY <1>3
  <2> HIDE DEF w, f, g
  <2> QED BY <2>1, <2>2
<1> HIDE DEF u
<1>8. u \in TablesOver(Syms, Dns)
  <2>1. Numbered(u)
    BY <1>1, <1>3 DEF Numbered
  <2>2. u \in [subs  : PartialFunctions(KeysOver(Syms, Dns), Nat),
               paths : PartialFunctions(Nat, Seq(Syms)),
               rules : PartialFunctions(Syms, B)]
    BY <1>1, <1>2, <1>3, <1>7
  <2> QED BY <2>1, <2>2 DEF TablesOver, B
<1>9. ASSUME NEW A, NEW r
      PROVE  Lists(u, A, r) <=> Lists(t, A, r) \/ (A = symbol /\ r = <<sub.dn, ids>>)
  <2>1. CASE A = symbol
    <3>1. Lookup(g, A, {}) = new
      BY <1>7, <2>1 DEF Lookup
    <3>2. Lookup(f, A, {}) = old
      BY <2>1
    <3> QED BY <2>1, <3>1, <3>2 DEF Lists, new
  <2>2. CASE A # symbol
    <3>1. Lookup(g, A, {}) = Lookup(f, A, {})
      BY <1>7, <2>2 DEF Lookup
    <3> QED BY <2>2, <3>1 DEF Lists
  <2> QED BY <2>1, <2>2
<1> QED BY <1>3, <1>8, <1>9 DEF u, symbol

\* A rule is listed under the last symbol of each of its members.
LEMMA ListedAll ==
  ASSUME NEW Syms, NEW Dns, NEW t \in TablesOver(Syms, Dns),
         NEW members \in Seq(SubsOver(Syms, Dns)), NEW ids \in SUBSET Nat
  PROVE  LET u == ListMembers(t, ids, members)
         IN  /\ u \in TablesOver(Syms, Dns) /\ u.subs = t.subs /\ u.paths = t.paths
             /\ \A A, r : Lists(u, A, r) <=>
                  \/ Lists(t, A, r)
                  \/ \E i \in DOMAIN members :
                       A = LastSymbol(members[i]) /\ r = <<members[i].dn, ids>>
<1> DEFINE S == SubsOver(Syms, Dns)
           D == DOMAIN members
           Acc == {u \in TablesOver(Syms, Dns) : u.subs = t.subs /\ u.paths = t.paths}
           Op == [x \in Acc \X S |-> ListRule(x[1], ids, x[2])]
           Step(g) == [s \in SUBSET D |-> IF s = {} THEN t
                         ELSE ListRule(g[s \ {Max(s)}], ids, members[Max(s)])]
           h == CHOOSE g : g = Step(g)
           Due(i, A, r) == A = LastSymbol(members[i]) /\ r = <<members[i].dn, ids>>
           Rel == {x \in (SUBSET D) \X Acc :
                     \A A, r : Lists(x[2], A, r) <=>
                                 Lists(t, A, r) \/ \E i \in x[1] : Due(i, A, r)}
           last == ListMembers(t, ids, members)
<1>1. last = h[D]
  BY DEF ListMembers, FoldLeft, MapThenFoldSet
<1> HIDE DEF last
<1>2. ASSUME NEW u \in Acc, NEW sub \in S
      PROVE  /\ ListRule(u, ids, sub) \in Acc
             /\ \A A, r : Lists(ListRule(u, ids, sub), A, r) <=>
                  Lists(u, A, r) \/ (A = LastSymbol(sub) /\ r = <<sub.dn, ids>>)
  BY ListedOnce
<1>3. t \in Acc
  OBVIOUS
<1>4. Positions(D) /\ \A i \in D : members[i] \in S
  <2>1. D = 1 .. Len(members) /\ Len(members) \in Nat /\ \A i \in D : members[i] \in S
    OBVIOUS
  <2> QED BY <2>1, PositionsAre
<1>5. \A s \in SUBSET D : s # {} => Max(s) \in s /\ members[Max(s)] \in S
  BY <1>4 DEF Positions
<1>6. members \in Seq(S)
  OBVIOUS
<1> HIDE DEF S, D, Acc
<1>7. h = Step(h)
  <2>1. Op \in [Acc \X S -> Acc]
    BY <1>2
  <2>2. \A u \in Acc, sub \in S : Op[u, sub] = ListRule(u, ids, sub)
    OBVIOUS
  <2> HIDE DEF Op
  <2>3. PICK g \in [SUBSET D -> Acc] : Folded(Op, t, members, D, g)
    BY <1>3, <1>6, <2>1, FoldExists DEF D
  <2>4. \A s \in SUBSET D :
          g[s] = IF s = {} THEN t ELSE ListRule(g[s \ {Max(s)}], ids, members[Max(s)])
    <3> SUFFICES ASSUME NEW s \in SUBSET D, s # {}
                 PROVE  g[s] = ListRule(g[s \ {Max(s)}], ids, members[Max(s)])
      BY <2>3 DEF Folded
    <3>1. g[s] = Op[g[s \ {Max(s)}], members[Max(s)]]
      BY <2>3 DEF Folded
    <3>2. g[s \ {Max(s)}] \in Acc /\ members[Max(s)] \in S
      BY <1>5, <2>3
    <3> QED BY <2>2, <3>1, <3>2
  <2>5. g = Step(g)
    BY <2>3, <2>4
  <2> HIDE DEF Step
  <2> QED BY <2>5
<1> HIDE DEF h
<1>8. <<{}, h[{}]>> \in Rel
  <2>1. h[{}] = t
    BY <1>7
  <2> QED BY <1>3, <2>1
<1>9. ASSUME NEW s \in SUBSET D, s # {}, <<s \ {Max(s)}, h[s \ {Max(s)}]>> \in Rel
      PROVE  <<s, h[s]>> \in Rel
  <2> DEFINE u == h[s \ {Max(s)}]
             m == Max(s)
  <2> HIDE DEF Due
  <2>1. u \in Acc /\ \A A, r : Lists(u, A, r) <=>
                                 Lists(t, A, r) \/ \E i \in s \ {m} : Due(i, A, r)
    BY <1>9
  <2>2. m \in s /\ members[m] \in S
    BY <1>5, <1>9
  <2>3. h[s] = ListRule(u, ids, members[m])
    BY <1>7, <1>9
  <2> HIDE DEF u, m
  <2>4. h[s] \in Acc /\ \A A, r : Lists(h[s], A, r) <=> Lists(u, A, r) \/ Due(m, A, r)
    BY <1>2, <2>1, <2>2, <2>3 DEF Due
  <2>5. \A A, r : Lists(h[s], A, r) <=> Lists(t, A, r) \/ \E i \in s : Due(i, A, r)
    BY <2>1, <2>2, <2>4
  <2> QED BY <2>4, <2>5
<1>10. <<D, h[D]>> \in Rel
  <2> HIDE DEF Rel
  <2> QED BY <1>4, <1>8, <1>9, FoldKeeps
<1>11. /\ last \in TablesOver(Syms, Dns) /\ last.subs = t.subs /\ last.paths = t.paths
       /\ \A A, r : Lists(last, A, r) <=> Lists(t, A, r) \/ \E i \in D : Due(i, A, r)
  <2> HIDE DEF Due
  <2> QED BY <1>1, <1>10 DEF Acc
<1> QED BY <1>11 DEF last, D

\* What an entry listed under a symbol says.
Entry(t, symbol, r) ==
  /\ r[2] # {} /\ r[2] \subseteq DOMAIN t.paths
  /\ \E sub \in Decode(t, r[2]) : LastSymbol(sub) = symbol /\ sub.dn = r[1]
  /\ \A sub \in Decode(t, r[2]) : Lists(t, LastSymbol(sub), <<sub.dn, r[2]>>)

\* WellFormed, in terms of what is listed.
LEMMA WellFormedIs ==
  ASSUME NEW Syms, NEW Dns, NEW t \in TablesOver(Syms, Dns)
  PROVE  /\ WellFormed(t) <=> \A A, r : Lists(t, A, r) => Entry(t, A, r)
         /\ \A R : R \in RulesOf(t) <=> \E A, r : Lists(t, A, r) /\ R = Decode(t, r[2])
<1>1. Numbered(t) /\ DOMAIN t.subs \subseteq KeysOver(Syms, Dns)
  BY DEF TablesOver, PartialFunctions
<1>2. \A A, r : Lists(t, A, r) <=> A \in DOMAIN t.rules /\ r \in t.rules[A]
  BY DEF Lists, Lookup
<1>3. \A k \in DOMAIN t.subs : k[1] = k[3][Len(k[3])]
  BY <1>1, KeysAre
<1>4. WellFormed(t) <=> \A A \in DOMAIN t.rules : \A r \in t.rules[A] : Entry(t, A, r)
  BY <1>1, <1>3 DEF WellFormed, Entry, Lists, Numbered
<1>5. \A R : R \in RulesOf(t) <=> \E A, r : Lists(t, A, r) /\ R = Decode(t, r[2])
  BY <1>2 DEF RulesOf
<1> QED BY <1>2, <1>4, <1>5

\* The ids of a rule stand for it, also in a table with more keys.
LEMMA DecodeIs ==
  ASSUME NEW Syms, NEW Dns, NEW t \in TablesOver(Syms, Dns),
         NEW rule \in SUBSET SubsOver(Syms, Dns),
         \A sub \in rule : Key(sub) \in DOMAIN t.subs
  PROVE  LET ids == RuleIds(t, rule)
         IN  Decode(t, ids) = rule /\ ids \subseteq DOMAIN t.paths /\ ids \subseteq Nat
<1> DEFINE ids == RuleIds(t, rule)
<1> USE DEF RuleIds
<1>1. Numbered(t) /\ DOMAIN t.subs \subseteq KeysOver(Syms, Dns) /\ DOMAIN t.paths \subseteq Nat
  BY DEF TablesOver, PartialFunctions
<1>2. ids \subseteq DOMAIN t.paths
  BY <1>1 DEF Numbered
<1>3. ASSUME NEW sub \in rule PROVE sub \in Decode(t, ids)
  <2>1. Key(sub) \in DOMAIN t.subs /\ t.subs[Key(sub)] \in ids
    OBVIOUS
  <2>2. SubSequence(Key(sub)[3], Key(sub)[2]) = sub
    BY KeyIs
  <2> HIDE DEF ids, RuleIds
  <2> QED BY <2>1, <2>2 DEF Decode
<1>4. ASSUME NEW sub \in Decode(t, ids) PROVE sub \in rule
  <2>1. PICK k \in DOMAIN t.subs : t.subs[k] \in ids /\ sub = SubSequence(k[3], k[2])
    BY DEF Decode
  <2>2. PICK member \in rule : t.subs[k] = t.subs[Key(member)]
    BY <2>1
  <2>3. k = Key(member)
    BY <1>1, <2>2 DEF Numbered
  <2> QED BY <2>1, <2>3, KeyIs
<1> QED BY <1>1, <1>2, <1>3, <1>4

\* An extension decodes what was decoded before alike.
LEMMA DecodeStays ==
  ASSUME NEW Syms, NEW Dns, NEW t \in TablesOver(Syms, Dns), NEW u \in TablesOver(Syms, Dns),
         Keeps(t, u), NEW ids \in SUBSET DOMAIN t.paths
  PROVE  Decode(u, ids) = Decode(t, ids) /\ ids \subseteq DOMAIN u.paths
<1>1. Numbered(t) /\ Numbered(u)
  BY DEF TablesOver
<1>2. \A i \in ids : \E k \in DOMAIN t.subs : t.subs[k] = i /\ u.subs[k] = i
  BY <1>1 DEF Numbered, Keeps
<1>3. ids \subseteq DOMAIN u.paths
  BY <1>1, <1>2 DEF Numbered, Keeps
<1>4. ASSUME NEW k \in DOMAIN u.subs, u.subs[k] \in ids
      PROVE  k \in DOMAIN t.subs /\ t.subs[k] = u.subs[k]
  <2>1. PICK m \in DOMAIN t.subs : t.subs[m] = u.subs[k] /\ u.subs[m] = u.subs[k]
    BY <1>2, <1>4
  <2>2. m \in DOMAIN u.subs
    BY DEF Keeps
  <2>3. k = m
    BY <1>1, <2>1, <2>2 DEF Numbered
  <2> QED BY <2>1, <2>3
<1>5. {k \in DOMAIN u.subs : u.subs[k] \in ids} = {k \in DOMAIN t.subs : t.subs[k] \in ids}
  BY <1>4 DEF Keeps
<1> QED BY <1>3, <1>5 DEF Decode

\* The members of a rule in some order.
LEMMA MembersAre ==
  ASSUME NEW S, NEW rule \in SUBSET S, IsFiniteSet(rule)
  PROVE  /\ SetToSeq(rule) \in Seq(S)
         /\ \A x : x \in rule <=> \E i \in DOMAIN SetToSeq(rule) : x = SetToSeq(rule)[i]
<1> DEFINE n == Cardinality(rule)
           m == SetToSeq(rule)
<1>1. n \in Nat /\ ExistsBijection(1 .. n, rule)
  BY FS_CardinalityType
<1>2. m \in [1 .. n -> rule] /\ IsInjective(m)
  <2>1. PICK f : f \in Bijection(1 .. n, rule)
    BY <1>1 DEF ExistsBijection
  <2>2. f \in [1 .. n -> rule] /\ IsInjective(f)
    BY <2>1 DEF Bijection, Injection, IsInjective
  <2> QED BY <2>2 DEF SetToSeq
<1> HIDE DEF n, m
<1>3. m \in Surjection(1 .. n, rule)
  <2>1. m \in Injection(1 .. n, rule)
    BY <1>2 DEF Injection, IsInjective
  <2>2. Cardinality(1 .. n) = n
    BY <1>1, FS_Interval
  <2> QED BY <2>1, <2>2, FS_Injection DEF n
<1>4. \A x \in rule : \E i \in 1 .. n : x = m[i]
  BY <1>3 DEF Surjection
<1>5. DOMAIN m = 1 .. n /\ m \in Seq(S)
  BY <1>1, <1>2
<1> QED BY <1>2, <1>4, <1>5 DEF m

\* A table with one more rule.
LEMMA AddRuleIs ==
  ASSUME NEW Syms, NEW Dns, NEW t \in TablesOver(Syms, Dns), WellFormed(t),
         NEW rule \in SUBSET SubsOver(Syms, Dns), IsFiniteSet(rule), rule # {}
  PROVE  LET u == AddRule(t, rule)
         IN  /\ u \in TablesOver(Syms, Dns) /\ WellFormed(u)
             /\ RulesOf(u) = RulesOf(t) \cup {rule}
<1> DEFINE S == SubsOver(Syms, Dns)
           members == SetToSeq(rule)
           numbered == NumberMembers(t, members)
           ids == RuleIds(numbered, rule)
           u == AddRule(t, rule)
<1>1. /\ members \in Seq(S)
      /\ \A x : x \in rule <=> \E i \in DOMAIN members : x = members[i]
  BY MembersAre
<1>2. /\ numbered \in TablesOver(Syms, Dns) /\ Extends(t, numbered)
      /\ \A i \in DOMAIN members : Key(members[i]) \in DOMAIN numbered.subs
  BY <1>1, NumberedAll
<1>3. u = ListMembers(numbered, ids, members)
  BY DEF AddRule, ListMembers, NumberMembers, RuleIds
<1> HIDE DEF members, numbered
<1>4. \A sub \in rule : Key(sub) \in DOMAIN numbered.subs
  BY <1>1, <1>2
<1>5. Decode(numbered, ids) = rule /\ ids \subseteq DOMAIN numbered.paths /\ ids \subseteq Nat
  BY <1>2, <1>4, DecodeIs
<1>6. ids # {}
  BY DEF RuleIds
<1> HIDE DEF ids
<1>7. /\ u \in TablesOver(Syms, Dns) /\ u.subs = numbered.subs /\ u.paths = numbered.paths
      /\ \A A, r : Lists(u, A, r) <=>
           \/ Lists(numbered, A, r)
           \/ \E i \in DOMAIN members :
                A = LastSymbol(members[i]) /\ r = <<members[i].dn, ids>>
  <2>1. ids \in SUBSET Nat
    BY <1>5
  <2> HIDE DEF u
  <2> QED BY <1>1, <1>2, <1>3, <2>1, ListedAll
<1> HIDE DEF u
<1>8. \A A, r : Lists(u, A, r) <=>
        Lists(t, A, r) \/ \E sub \in rule : A = LastSymbol(sub) /\ r = <<sub.dn, ids>>
  <2>1. \A A, r : Lists(numbered, A, r) <=> Lists(t, A, r)
    BY <1>2 DEF Extends, Lists
  <2>2. \A A, r : (\E i \in DOMAIN members :
                     A = LastSymbol(members[i]) /\ r = <<members[i].dn, ids>>)
                  <=> \E sub \in rule : A = LastSymbol(sub) /\ r = <<sub.dn, ids>>
    BY <1>1
  <2> QED BY <1>7, <2>1, <2>2
<1>9. Keeps(t, u) /\ Decode(u, ids) = rule /\ ids \subseteq DOMAIN u.paths
  BY <1>2, <1>5, <1>7 DEF Extends, Keeps, Decode
<1>10. ASSUME NEW A, NEW r, Lists(t, A, r)
       PROVE  Entry(t, A, r) /\ Decode(u, r[2]) = Decode(t, r[2]) /\ r[2] \subseteq DOMAIN u.paths
  <2>1. Entry(t, A, r)
    BY <1>10, WellFormedIs
  <2>2. r[2] \in SUBSET DOMAIN t.paths
    BY <2>1 DEF Entry
  <2> QED BY <1>7, <1>9, <2>1, <2>2, DecodeStays
<1>11. ASSUME NEW A, NEW r, Lists(u, A, r) PROVE Entry(u, A, r)
  <2>1. CASE Lists(t, A, r)
    <3>1. Entry(t, A, r) /\ Decode(u, r[2]) = Decode(t, r[2]) /\ r[2] \subseteq DOMAIN u.paths
      BY <1>10, <2>1
    <3> QED BY <1>8, <3>1 DEF Entry
  <2>2. CASE \E sub \in rule : A = LastSymbol(sub) /\ r = <<sub.dn, ids>>
    <3>1. PICK sub \in rule : A = LastSymbol(sub) /\ r = <<sub.dn, ids>>
      BY <2>2
    <3>2. r[1] = sub.dn /\ r[2] = ids
      BY <3>1
    <3>3. \A x \in rule : Lists(u, LastSymbol(x), <<x.dn, ids>>)
      BY <1>8
    <3> QED BY <1>6, <1>9, <3>1, <3>2, <3>3 DEF Entry
  <2> QED BY <1>8, <1>11, <2>1, <2>2
<1>12. WellFormed(u)
  BY <1>7, <1>11, WellFormedIs
<1>13. ASSUME NEW R PROVE R \in RulesOf(u) <=> R \in RulesOf(t) \/ R = rule
  <2>1. R \in RulesOf(u) <=> \E A, r : Lists(u, A, r) /\ R = Decode(u, r[2])
    BY <1>7, WellFormedIs
  <2>2. R \in RulesOf(t) <=> \E A, r : Lists(t, A, r) /\ R = Decode(t, r[2])
    BY WellFormedIs
  <2>3. ASSUME R \in RulesOf(u) PROVE R \in RulesOf(t) \/ R = rule
    <3>1. PICK A, r : Lists(u, A, r) /\ R = Decode(u, r[2])
      BY <2>1, <2>3
    <3>2. CASE Lists(t, A, r)
      BY <1>10, <2>2, <3>1, <3>2
    <3>3. CASE \E sub \in rule : A = LastSymbol(sub) /\ r = <<sub.dn, ids>>
      BY <1>9, <3>1, <3>3
    <3> QED BY <1>8, <3>1, <3>2, <3>3
  <2>4. ASSUME R \in RulesOf(t) PROVE R \in RulesOf(u)
    <3>1. PICK A, r : Lists(t, A, r) /\ R = Decode(t, r[2])
      BY <2>2, <2>4
    <3>2. Lists(u, A, r) /\ R = Decode(u, r[2])
      BY <1>8, <1>10, <3>1
    <3> QED BY <2>1, <3>2
  <2>5. ASSUME R = rule PROVE R \in RulesOf(u)
    <3>1. PICK sub \in rule : TRUE
      OBVIOUS
    <3>2. Lists(u, LastSymbol(sub), <<sub.dn, ids>>) /\ <<sub.dn, ids>>[2] = ids
      BY <1>8
    <3> QED BY <1>9, <2>1, <2>5, <3>2
  <2> QED BY <2>3, <2>4, <2>5
<1> QED BY <1>7, <1>12, <1>13 DEF u

RulesOver(Syms, Dns) == {R \in SUBSET SubsOver(Syms, Dns) : IsFiniteSet(R) /\ R # {}}

\* The table before the first rule.
LEMMA EmptyTableIs ==
  ASSUME NEW Syms, NEW Dns
  PROVE  EmptyTable \in TablesOver(Syms, Dns) /\ WellFormed(EmptyTable) /\ RulesOf(EmptyTable) = {}
<1>1. /\ EmptyTable.subs = <<>> /\ EmptyTable.paths = <<>> /\ EmptyTable.rules = <<>>
      /\ DOMAIN <<>> = {}
  BY DEF EmptyTable
<1>2. \A A, B : <<>> \in PartialFunctions(A, B)
  <2>1. \A B : <<>> \in [{} -> B]
    OBVIOUS
  <2> QED BY <2>1 DEF PartialFunctions
<1>3. IsFiniteSet({}) /\ Cardinality({}) = 0
  BY FS_EmptySet
<1>4. Numbered(EmptyTable)
  BY <1>1, <1>3 DEF Numbered
<1>5. EmptyTable \in TablesOver(Syms, Dns)
  BY <1>1, <1>2, <1>4 DEF TablesOver, EmptyTable
<1>6. \A A, r : ~ Lists(EmptyTable, A, r)
  BY <1>1 DEF Lists, Lookup
<1>7. WellFormed(EmptyTable)
  BY <1>5, <1>6, WellFormedIs
<1>8. \A R : R \notin RulesOf(EmptyTable)
  BY <1>5, <1>6, WellFormedIs
<1> QED BY <1>5, <1>7, <1>8

\* The dictionaries the generator gets (generateRS.py, "Make PL for generator"),
\* for every list of rules over any symbols: ids are dense and lead to the paths
\* they stand for, every rule is found at each node that could complete it, under
\* the derivation number that would, and the rules read back are those of the list.
THEOREM TableFaithful ==
  ASSUME NEW Syms, NEW Dns, NEW list \in Seq(RulesOver(Syms, Dns))
  PROVE  WellFormed(MakeTable(list)) /\ RulesOf(MakeTable(list)) = ToSet(list)
<1> DEFINE S == RulesOver(Syms, Dns)
           D == DOMAIN list
           Acc == {t \in TablesOver(Syms, Dns) : WellFormed(t)}
           Op == [x \in Acc \X S |-> AddRule(x[1], x[2])]
           Step(g) == [s \in SUBSET D |-> IF s = {} THEN EmptyTable
                         ELSE AddRule(g[s \ {Max(s)}], list[Max(s)])]
           h == CHOOSE g : g = Step(g)
           Rel == {x \in (SUBSET D) \X Acc : RulesOf(x[2]) = {list[i] : i \in x[1]}}
<1>1. MakeTable(list) = h[D]
  BY DEF MakeTable, FoldLeft, MapThenFoldSet
<1>2. ASSUME NEW t \in Acc, NEW rule \in S
      PROVE  AddRule(t, rule) \in Acc /\ RulesOf(AddRule(t, rule)) = RulesOf(t) \cup {rule}
  <2>1. /\ t \in TablesOver(Syms, Dns) /\ WellFormed(t)
        /\ rule \in SUBSET SubsOver(Syms, Dns) /\ IsFiniteSet(rule) /\ rule # {}
    BY DEF RulesOver
  <2>2. /\ AddRule(t, rule) \in TablesOver(Syms, Dns) /\ WellFormed(AddRule(t, rule))
        /\ RulesOf(AddRule(t, rule)) = RulesOf(t) \cup {rule}
    BY <2>1, AddRuleIs
  <2> QED BY <2>2
<1>3. EmptyTable \in Acc
  BY EmptyTableIs
<1>4. Positions(D) /\ \A i \in D : list[i] \in S
  <2>1. D = 1 .. Len(list) /\ Len(list) \in Nat /\ \A i \in D : list[i] \in S
    OBVIOUS
  <2> QED BY <2>1, PositionsAre
<1>5. \A s \in SUBSET D : s # {} => Max(s) \in s /\ list[Max(s)] \in S
  BY <1>4 DEF Positions
<1>6. list \in Seq(S)
  OBVIOUS
<1>7. {list[i] : i \in D} = ToSet(list)
  BY DEF ToSet
<1> HIDE DEF S, D, Acc
<1>8. h = Step(h)
  <2>1. Op \in [Acc \X S -> Acc]
    BY <1>2
  <2>2. \A t \in Acc, rule \in S : Op[t, rule] = AddRule(t, rule)
    OBVIOUS
  <2> HIDE DEF Op
  <2>3. PICK g \in [SUBSET D -> Acc] : Folded(Op, EmptyTable, list, D, g)
    BY <1>3, <1>6, <2>1, FoldExists DEF D
  <2>4. \A s \in SUBSET D :
          g[s] = IF s = {} THEN EmptyTable ELSE AddRule(g[s \ {Max(s)}], list[Max(s)])
    <3> SUFFICES ASSUME NEW s \in SUBSET D, s # {}
                 PROVE  g[s] = AddRule(g[s \ {Max(s)}], list[Max(s)])
      BY <2>3 DEF Folded
    <3>1. g[s] = Op[g[s \ {Max(s)}], list[Max(s)]]
      BY <2>3 DEF Folded
    <3>2. g[s \ {Max(s)}] \in Acc /\ list[Max(s)] \in S
      BY <1>5, <2>3
    <3> QED BY <2>2, <3>1, <3>2
  <2>5. g = Step(g)
    BY <2>3, <2>4
  <2> HIDE DEF Step
  <2> QED BY <2>5
<1> HIDE DEF h
<1>9. <<{}, h[{}]>> \in Rel
  <2>1. h[{}] = EmptyTable
    BY <1>8
  <2> QED BY <1>3, <2>1, EmptyTableIs
<1>10. ASSUME NEW s \in SUBSET D, s # {}, <<s \ {Max(s)}, h[s \ {Max(s)}]>> \in Rel
       PROVE  <<s, h[s]>> \in Rel
  <2> DEFINE t == h[s \ {Max(s)}]
             m == Max(s)
  <2>1. t \in Acc /\ RulesOf(t) = {list[i] : i \in s \ {m}}
    BY <1>10
  <2>2. m \in s /\ list[m] \in S
    BY <1>5, <1>10
  <2>3. h[s] = AddRule(t, list[m])
    BY <1>8, <1>10
  <2> HIDE DEF t, m
  <2>4. h[s] \in Acc /\ RulesOf(h[s]) = RulesOf(t) \cup {list[m]}
    BY <1>2, <2>1, <2>2, <2>3
  <2>5. RulesOf(h[s]) = {list[i] : i \in s}
    BY <2>1, <2>2, <2>4
  <2> QED BY <2>4, <2>5
<1>11. <<D, h[D]>> \in Rel
  <2> HIDE DEF Rel
  <2> QED BY <1>4, <1>9, <1>10, FoldKeeps
<1> QED BY <1>1, <1>7, <1>11 DEF Acc
-----------------------------------------------------------------------------
(* Sub-sequences of a path, and the greedy search that finds them.          *)

\* at leads each position of part to one of whole, in order.
Places(at, part, whole) ==
  /\ at \in [DOMAIN part -> DOMAIN whole]
  /\ \A m \in DOMAIN part : whole[at[m]] = part[m]
  /\ \A m, n \in DOMAIN part : m < n => at[m] < at[n]

PartOf(part, whole) == \E at \in [DOMAIN part -> DOMAIN whole] : Places(at, part, whole)

\* The positions up to k, without the last of them.
LEMMA LastPosition ==
  ASSUME NEW k \in Nat \ {0}
  PROVE  /\ Max(1 .. k) = k /\ (1 .. k) \ {k} = 1 .. k - 1
         /\ 1 .. k # {} /\ 1 .. 0 = {}
<1>1. (1 .. k) \ {k} = 1 .. k - 1 /\ k \in 1 .. k /\ 1 .. 0 = {}
  OBVIOUS
<1>2. k \in 1 .. k /\ \A j \in 1 .. k : k >= j
  OBVIOUS
<1>3. \A x \in 1 .. k : (\A j \in 1 .. k : x >= j) => x = k
  <2> SUFFICES ASSUME NEW x \in 1 .. k, \A j \in 1 .. k : x >= j PROVE x = k
    OBVIOUS
  <2>1. x >= k
    BY <1>2
  <2> QED BY <2>1
<1>4. Max(1 .. k) = CHOOSE x \in 1 .. k : \A j \in 1 .. k : x >= j
  BY DEF Max
<1>5. Max(1 .. k) = k
  <2> DEFINE P(x) == x \in 1 .. k /\ \A j \in 1 .. k : x >= j
  <2>1. P(k) /\ \A x : P(x) => x = k
    BY <1>2, <1>3
  <2>2. Max(1 .. k) = CHOOSE x : P(x)
    BY <1>4
  <2> HIDE DEF P
  <2> QED BY <2>1, <2>2
<1> QED BY <1>1, <1>5

\* What a fold keeps from one position to the next holds at its end.
LEMMA FoldRuns ==
  ASSUME NEW n \in Nat, NEW h, NEW Rel, <<0, h[{}]>> \in Rel,
         \A k \in 1 .. n : <<k - 1, h[1 .. k - 1]>> \in Rel => <<k, h[1 .. k]>> \in Rel
  PROVE  <<n, h[1 .. n]>> \in Rel
<1> DEFINE Bad == {k \in 0 .. n : <<k, h[1 .. k]>> \notin Rel}
<1> SUFFICES ASSUME Bad # {} PROVE FALSE
  OBVIOUS
<1>1. PICK k \in Bad : \A j \in Bad : k <= j
  <2>1. Bad \subseteq Nat
    OBVIOUS
  <2> HIDE DEF Bad
  <2> QED BY <2>1, LeastNat
<1>2. k \in 0 .. n /\ <<k, h[1 .. k]>> \notin Rel
  OBVIOUS
<1>3. k # 0
  BY <1>2, 1 .. 0 = {}
<1>4. k \in 1 .. n /\ k - 1 \in 0 .. n /\ ~ (k <= k - 1)
  BY <1>2, <1>3
<1>5. <<k - 1, h[1 .. k - 1]>> \in Rel
  BY <1>1, <1>4
<1> QED BY <1>2, <1>4, <1>5

\* The step of Embeds.
Greedy(seq, j, x) == IF j < Len(seq) /\ seq[j + 1] = x THEN j + 1 ELSE j

\* Greedy matching finds whatever is there.
LEMMA EmbedsPart ==
  ASSUME NEW S, NEW seq \in Seq(S), NEW path \in Seq(S), PartOf(seq, path)
  PROVE  Embeds(seq, path)
<1> DEFINE D == DOMAIN path
           n == Len(path)
           Acc == 0 .. Len(seq)
           Op == [x \in Acc \X S |-> Greedy(seq, x[1], x[2])]
           Step(g) == [s \in SUBSET D |-> IF s = {} THEN 0
                         ELSE Greedy(seq, g[s \ {Max(s)}], path[Max(s)])]
           h == CHOOSE g : g = Step(g)
<1>1. Embeds(seq, path) <=> Len(seq) = h[D]
  BY DEF Embeds, FoldLeft, MapThenFoldSet, Greedy
<1>2. ASSUME NEW j \in Acc, NEW x \in S
      PROVE  Greedy(seq, j, x) \in Acc
  BY DEF Greedy
<1>3. 0 \in Acc /\ n \in Nat /\ D = 1 .. n /\ \A i \in D : path[i] \in S
  OBVIOUS
<1>4. Positions(D)
  BY <1>3, PositionsAre
<1>5. \A s \in SUBSET D : s # {} => Max(s) \in s /\ path[Max(s)] \in S
  BY <1>3, <1>4 DEF Positions
<1>6. PICK at \in [DOMAIN seq -> DOMAIN path] : Places(at, seq, path)
  BY DEF PartOf
<1> DEFINE Rel == {r \in Nat \X Acc : \A m \in DOMAIN seq : at[m] <= r[1] => m <= r[2]}
<1>7. h = Step(h)
  <2>1. Op \in [Acc \X S -> Acc]
    <3> HIDE DEF Acc
    <3> QED BY <1>2
  <2>2. \A j \in Acc, x \in S : Op[j, x] = Greedy(seq, j, x)
    OBVIOUS
  <2> HIDE DEF Op, Acc
  <2>3. PICK g \in [SUBSET D -> Acc] : Folded(Op, 0, path, D, g)
    BY <1>3, <2>1, FoldExists DEF D
  <2> HIDE DEF D
  <2>4. \A s \in SUBSET D :
          g[s] = IF s = {} THEN 0 ELSE Greedy(seq, g[s \ {Max(s)}], path[Max(s)])
    <3> SUFFICES ASSUME NEW s \in SUBSET D, s # {}
                 PROVE  g[s] = Greedy(seq, g[s \ {Max(s)}], path[Max(s)])
      BY <2>3 DEF Folded
    <3>1. g[s] = Op[g[s \ {Max(s)}], path[Max(s)]]
      BY <2>3 DEF Folded
    <3>2. g[s \ {Max(s)}] \in Acc /\ path[Max(s)] \in S
      BY <1>5, <2>3
    <3> QED BY <2>2, <3>1, <3>2
  <2>5. g = Step(g)
    BY <2>3, <2>4
  <2> HIDE DEF Step
  <2> QED BY <2>5
<1> HIDE DEF h, D
<1>8. h[{}] = 0 /\ \A k \in 1 .. n : h[1 .. k] = Greedy(seq, h[1 .. k - 1], path[k])
  <2>1. h[{}] = 0
    BY <1>7
  <2>2. ASSUME NEW k \in 1 .. n PROVE h[1 .. k] = Greedy(seq, h[1 .. k - 1], path[k])
    <3>1. 1 .. k \in SUBSET D /\ k \in Nat \ {0}
      BY <1>3
    <3>2. Max(1 .. k) = k /\ (1 .. k) \ {k} = 1 .. k - 1 /\ 1 .. k # {}
      BY <3>1, LastPosition
    <3> HIDE DEF n
    <3> QED BY <1>7, <3>1, <3>2
  <2> QED BY <2>1, <2>2
<1>9. <<0, h[{}]>> \in Rel
  <2>1. \A m \in DOMAIN seq : at[m] \in Nat \ {0}
    BY <1>3, <1>6 DEF D
  <2> QED BY <1>8, <1>3, <2>1
<1>10. ASSUME NEW k \in 1 .. n, <<k - 1, h[1 .. k - 1]>> \in Rel
       PROVE  <<k, h[1 .. k]>> \in Rel
  <2> DEFINE j == h[1 .. k - 1]
             i == h[1 .. k]
  <2>1. j \in Acc /\ \A m \in DOMAIN seq : at[m] <= k - 1 => m <= j
    BY <1>10
  <2>2. i = Greedy(seq, j, path[k]) /\ path[k] \in S
    BY <1>3, <1>8
  <2> HIDE DEF i, j
  <2>3. i \in Acc /\ j <= i
    BY <2>1, <2>2 DEF Greedy
  <2>4. ASSUME NEW m \in DOMAIN seq, at[m] <= k, ~ (m <= j)
        PROVE  m <= i
    <3>1. at[m] \in Nat /\ k \in Nat /\ m \in 1 .. Len(seq) /\ Len(seq) \in Nat
      BY <1>3, <1>6 DEF D
    <3>2. at[m] = k
      BY <2>1, <2>4, <3>1
    <3>3. m - 1 <= j
      <4>1. CASE m = 1
        BY <2>1, <4>1
      <4>2. CASE m # 1
        <5>1. m - 1 \in DOMAIN seq /\ m - 1 < m
          BY <3>1, <4>2
        <5>2. at[m - 1] < at[m] /\ at[m - 1] \in Nat
          BY <1>3, <1>6, <5>1 DEF Places, D
        <5>3. at[m - 1] <= k - 1
          BY <3>1, <3>2, <5>2
        <5> QED BY <2>1, <5>1, <5>3
      <4> QED BY <4>1, <4>2
    <3>4. m = j + 1 /\ j < Len(seq)
      BY <2>1, <2>4, <3>1, <3>3
    <3>5. seq[j + 1] = path[k]
      BY <1>6, <3>2, <3>4 DEF Places
    <3> QED BY <2>2, <3>4, <3>5 DEF Greedy
  <2>5. \A m \in DOMAIN seq : at[m] <= k => m <= i
    <3> SUFFICES ASSUME NEW m \in DOMAIN seq, at[m] <= k, m <= j PROVE m <= i
      BY <2>4
    <3> QED BY <2>1, <2>3
  <2> QED BY <2>3, <2>5 DEF i
<1>11. <<n, h[1 .. n]>> \in Rel
  <2> HIDE DEF Rel
  <2> QED BY <1>3, <1>9, <1>10, FoldRuns
<1>12. Len(seq) <= h[D]
  <2>1. h[D] \in Acc /\ \A m \in DOMAIN seq : at[m] <= n => m <= h[D]
    BY <1>3, <1>11
  <2>2. CASE seq = <<>>
    BY <2>1, <2>2
  <2>3. CASE seq # <<>>
    <3>1. Len(seq) \in DOMAIN seq
      BY <2>3
    <3>2. at[Len(seq)] \in 1 .. n
      BY <1>3, <1>6, <3>1 DEF D
    <3> QED BY <2>1, <3>1, <3>2
  <2> QED BY <2>2, <2>3
<1>13. h[D] \in Acc
  BY <1>3, <1>11
<1>14. Len(seq) = h[D]
  BY <1>12, <1>13
<1> QED BY <1>1, <1>14

\* A part of a part is a part.
LEMMA PartOfPart ==
  ASSUME NEW S, NEW p \in Seq(S), NEW q \in Seq(S), NEW r \in Seq(S),
         PartOf(p, q), PartOf(q, r)
  PROVE  PartOf(p, r)
<1>1. PICK f \in [DOMAIN p -> DOMAIN q] : Places(f, p, q)
  BY DEF PartOf
<1>2. PICK g \in [DOMAIN q -> DOMAIN r] : Places(g, q, r)
  BY DEF PartOf
<1> DEFINE at == [m \in DOMAIN p |-> g[f[m]]]
<1>3. at \in [DOMAIN p -> DOMAIN r]
  OBVIOUS
<1>4. \A m \in DOMAIN p : r[at[m]] = p[m]
  BY <1>1, <1>2 DEF Places
<1>5. ASSUME NEW m \in DOMAIN p, NEW n \in DOMAIN p, m < n PROVE at[m] < at[n]
  <2>1. f[m] \in DOMAIN q /\ f[n] \in DOMAIN q /\ f[m] < f[n]
    BY <1>1, <1>5 DEF Places
  <2>2. g[f[m]] < g[f[n]]
    BY <1>2, <2>1 DEF Places
  <2> QED BY <2>2
<1> HIDE DEF at
<1>6. Places(at, p, r)
  BY <1>3, <1>4, <1>5 DEF Places
<1> QED BY <1>3, <1>6 DEF PartOf

\* A path is a part of itself.
LEMMA PartOfItself ==
  ASSUME NEW S, NEW p \in Seq(S)
  PROVE  PartOf(p, p)
<1> DEFINE at == [m \in DOMAIN p |-> m]
<1>1. at \in [DOMAIN p -> DOMAIN p] /\ Places(at, p, p)
  BY DEF Places
<1> QED BY <1>1 DEF PartOf

\* What SubSeq returns.
LEMMA SubSeqIs ==
  ASSUME NEW S, NEW s \in Seq(S), NEW a \in Nat \ {0}, NEW b \in Nat, a <= b, b <= Len(s)
  PROVE  /\ SubSeq(s, a, b) \in Seq(S) /\ Len(SubSeq(s, a, b)) = b - a + 1
         /\ \A i \in 1 .. b - a + 1 : SubSeq(s, a, b)[i] = s[a + i - 1]
OBVIOUS

\* The step of WithoutRepeats.
Move(path, stride, st, i) ==
  IF i < st.tmpIdx THEN st
  ELSE IF RepeatsAt(path, stride, st.kept, i) THEN [st EXCEPT !.tmpIdx = i + stride]
  ELSE [kept |-> Append(st.kept, path[i]), tmpIdx |-> i + 1]

Moves(S) == [kept : Seq(S), tmpIdx : Nat]

\* Symbols that follow one another in part do so in whole.
NeighboursKept(part, whole) ==
  \A m \in 1 .. Len(part) - 1 : \E k \in 1 .. Len(whole) - 1 :
    whole[k] = part[m] /\ whole[k + 1] = part[m + 1]

\* What is kept of the symbols before tmp_idx, the next of which comes after k:
\* some of them, the last one among them, and each next to one it was next to.
Keeping(path, stride, st, k) ==
  /\ k < st.tmpIdx /\ st.tmpIdx - 1 \in DOMAIN path
  /\ stride <= Len(st.kept)
  /\ st.kept[Len(st.kept)] = path[st.tmpIdx - 1]
  /\ NeighboursKept(st.kept, path)
  /\ \E at \in [DOMAIN st.kept -> DOMAIN path] :
       /\ Places(at, st.kept, path)
       /\ \A m \in DOMAIN st.kept : at[m] < st.tmpIdx

\* One step of WithoutRepeats keeps what was kept.
LEMMA MoveKeeps ==
  ASSUME NEW S, NEW path \in Seq(S), NEW stride \in 1 .. Len(path),
         NEW k \in DOMAIN path, NEW st \in Moves(S), Keeping(path, stride, st, k - 1)
  PROVE  /\ Move(path, stride, st, k) \in Moves(S)
         /\ Keeping(path, stride, Move(path, stride, st, k), k)
<1> DEFINE kept == st.kept
           t == st.tmpIdx
           n == Len(path)
           l == Len(kept)
           u == Move(path, stride, st, k)
<1>1. /\ k \in 1 .. n /\ n \in Nat /\ stride \in Nat \ {0} /\ path[k] \in S
      /\ kept \in Seq(S) /\ t \in Nat /\ l \in Nat /\ DOMAIN kept = 1 .. l
  BY DEF Moves
<1>2. /\ k - 1 < t /\ t - 1 \in DOMAIN path /\ stride <= l /\ kept[l] = path[t - 1]
      /\ NeighboursKept(kept, path)
  BY DEF Keeping
<1>3. PICK at \in [DOMAIN kept -> DOMAIN path] :
        Places(at, kept, path) /\ \A m \in DOMAIN kept : at[m] < t
  BY DEF Keeping
<1>4. CASE k < t
  <2>1. u = st
    BY <1>4 DEF Move
  <2>2. Keeping(path, stride, st, k)
    BY <1>2, <1>3, <1>4 DEF Keeping
  <2> QED BY <2>1, <2>2
<1>5. CASE ~ (k < t) /\ RepeatsAt(path, stride, kept, k)
  <2>1. u = [kept |-> kept, tmpIdx |-> k + stride]
    BY <1>5 DEF Move, Moves
  <2>2. u \in Moves(S) /\ u.kept = kept /\ u.tmpIdx = k + stride
    BY <1>1, <2>1 DEF Moves
  <2>3. k + stride - 1 <= n
        /\ SubSeq(path, k, k + stride - 1) = SubSeq(kept, l - stride + 1, l)
    BY <1>5 DEF RepeatsAt
  <2>4. kept[l] = path[k + stride - 1]
    <3>1. SubSeq(path, k, k + stride - 1)[stride] = path[k + stride - 1]
      <4> DEFINE b == k + stride - 1
      <4>1. b \in Nat /\ k \in Nat \ {0} /\ k <= b /\ b <= Len(path) /\ b - k + 1 = stride
            /\ stride \in 1 .. stride
        <5>1. k + stride - 1 <= Len(path)
          BY <2>3
        <5> QED BY <1>1, <5>1
      <4>2. path \in Seq(S)
        OBVIOUS
      <4> HIDE DEF b, n
      <4>3. \A i \in 1 .. b - k + 1 : SubSeq(path, k, b)[i] = path[k + i - 1]
        BY <4>1, <4>2, SubSeqIs
      <4>4. SubSeq(path, k, b)[stride] = path[k + stride - 1]
        BY <4>1, <4>3
      <4> QED BY <4>4 DEF b
    <3>2. SubSeq(kept, l - stride + 1, l)[stride] = kept[l]
      <4> DEFINE a == l - stride + 1
      <4>1. a \in Nat \ {0} /\ a <= l /\ l - a + 1 = stride /\ a + stride - 1 = l
            /\ stride \in 1 .. stride /\ l <= Len(kept) /\ l \in Nat
        BY <1>1, <1>2
      <4>2. kept \in Seq(S)
        BY <1>1
      <4> HIDE DEF a, l, kept
      <4>3. SubSeq(kept, a, l)[stride] = kept[a + stride - 1]
        BY <4>1, <4>2, SubSeqIs
      <4> QED BY <4>1, <4>3 DEF a
    <3> HIDE DEF kept, l
    <3> QED BY <2>3, <3>1, <3>2
  <2>5. k < u.tmpIdx /\ u.tmpIdx - 1 \in DOMAIN path
    <3>1. k < k + stride /\ k + stride - 1 \in DOMAIN path
      BY <1>1, <2>3
    <3> HIDE DEF u
    <3> QED BY <2>2, <3>1
  <2>6. \A m \in DOMAIN kept : at[m] < u.tmpIdx
    <3> SUFFICES ASSUME NEW m \in DOMAIN kept PROVE at[m] < u.tmpIdx
      OBVIOUS
    <3>1. at[m] \in DOMAIN path /\ at[m] < t /\ k = t
      BY <1>1, <1>2, <1>3, <1>5
    <3>2. at[m] \in Nat
      BY <3>1
    <3> HIDE DEF u, t
    <3> QED BY <1>1, <2>2, <3>1, <3>2
  <2>7. u.kept[Len(u.kept)] = path[u.tmpIdx - 1] /\ stride <= Len(u.kept)
    BY <1>2, <2>2, <2>4
  <2> HIDE DEF u
  <2>8. Keeping(path, stride, u, k)
    BY <1>2, <1>3, <2>2, <2>5, <2>6, <2>7 DEF Keeping
  <2> QED BY <2>2, <2>8 DEF u
<1>6. CASE ~ (k < t) /\ ~ RepeatsAt(path, stride, kept, k)
  <2> DEFINE more == Append(kept, path[k])
             at2 == [m \in DOMAIN more |-> IF m = l + 1 THEN k ELSE at[m]]
  <2>1. u = [kept |-> more, tmpIdx |-> k + 1]
    BY <1>6 DEF Move
  <2>2. /\ more \in Seq(S) /\ Len(more) = l + 1 /\ DOMAIN more = 1 .. l + 1
        /\ more[l + 1] = path[k]
        /\ \A m \in 1 .. l : more[m] = kept[m]
    BY <1>1
  <2> HIDE DEF more
  <2>3. u \in Moves(S) /\ u.kept = more /\ u.tmpIdx = k + 1
    BY <1>1, <2>1, <2>2 DEF Moves
  <2>4. k = t
    BY <1>1, <1>2, <1>6
  <2>5. \A m \in 1 .. l : at[m] \in 1 .. n /\ at[m] < k /\ path[at[m]] = kept[m]
    BY <1>1, <1>3, <2>4 DEF Places
  <2>6. \A m \in DOMAIN more : m # l + 1 => m \in 1 .. l
    BY <1>1, <2>2
  <2>7. /\ at2 \in [DOMAIN more -> DOMAIN path]
        /\ at2[l + 1] = k
        /\ \A m \in 1 .. l : at2[m] = at[m]
    <3>1. \A m \in 1 .. l : m # l + 1 /\ m \in DOMAIN more
      BY <1>1, <2>2
    <3> QED BY <1>1, <2>2, <2>5, <2>6, <3>1
  <2> HIDE DEF at2, l, t, n
  <2>8. \A m \in DOMAIN more : path[at2[m]] = more[m]
    BY <2>2, <2>5, <2>6, <2>7
  <2>9. ASSUME NEW i \in DOMAIN more, NEW j \in DOMAIN more, i < j
        PROVE  at2[i] < at2[j]
    <3>1. i \in 1 .. l /\ l \in Nat
      BY <1>1, <2>2, <2>9
    <3>2. CASE j = l + 1
      BY <2>5, <2>7, <3>1, <3>2
    <3>3. CASE j # l + 1
      <4>1. j \in 1 .. l
        BY <2>6, <3>3
      <4>2. at[i] < at[j]
        BY <1>1, <1>3, <2>9, <3>1, <4>1 DEF Places
      <4> QED BY <2>7, <3>1, <4>1, <4>2
    <3> QED BY <3>2, <3>3
  <2>10. Places(at2, more, path)
    BY <2>7, <2>8, <2>9 DEF Places
  <2>11. \A m \in DOMAIN more : at2[m] < k + 1
    <3> SUFFICES ASSUME NEW m \in DOMAIN more PROVE at2[m] < k + 1
      OBVIOUS
    <3>1. k \in Nat /\ \A i \in 1 .. l : at[i] \in Nat /\ at[i] < k
      BY <1>1, <2>5
    <3>2. CASE m = l + 1
      BY <2>7, <3>1, <3>2
    <3>3. CASE m # l + 1
      <4>1. at2[m] \in Nat /\ at2[m] < k
        BY <2>6, <2>7, <3>1, <3>3
      <4> QED BY <3>1, <4>1
    <3> QED BY <3>2, <3>3
  <2>12. k < k + 1 /\ k + 1 - 1 = k /\ k \in DOMAIN path /\ stride <= l + 1
    BY <1>1, <1>2
  <2>13. NeighboursKept(more, path)
    <3> SUFFICES ASSUME NEW m \in 1 .. l
                 PROVE  \E j \in 1 .. Len(path) - 1 :
                          path[j] = more[m] /\ path[j + 1] = more[m + 1]
      <4>1. Len(more) - 1 = l
        BY <1>1, <2>2
      <4> QED BY <4>1 DEF NeighboursKept
    <3>1. l \in Nat /\ more[m] = kept[m] /\ Len(kept) = l
      BY <1>1, <2>2 DEF l
    <3>2. CASE m = l
      <4>1. t - 1 \in 1 .. Len(path) - 1 /\ (t - 1) + 1 = k
        <5>1. Len(path) \in Nat /\ t \in 1 .. Len(path) /\ t - 1 \in 1 .. Len(path)
          BY <1>1, <1>2, <2>4 DEF n
        <5> QED BY <2>4, <5>1
      <4>2. path[t - 1] = more[m] /\ path[k] = more[m + 1]
        BY <1>2, <2>2, <3>1, <3>2
      <4> QED BY <4>1, <4>2
    <3>3. CASE m # l
      <4>1. m \in 1 .. l - 1 /\ m + 1 \in 1 .. l
        BY <3>1, <3>3
      <4>2. PICK j \in 1 .. Len(path) - 1 : path[j] = kept[m] /\ path[j + 1] = kept[m + 1]
        BY <1>2, <3>1, <4>1 DEF NeighboursKept
      <4>3. more[m + 1] = kept[m + 1]
        BY <2>2, <4>1
      <4> QED BY <3>1, <4>2, <4>3
    <3> QED BY <3>2, <3>3
  <2> HIDE DEF u
  <2>14. Keeping(path, stride, u, k)
    <3>1. k < u.tmpIdx /\ u.tmpIdx - 1 \in DOMAIN path /\ stride <= Len(u.kept)
      BY <2>2, <2>3, <2>12
    <3>2. u.kept[Len(u.kept)] = path[u.tmpIdx - 1]
      BY <2>2, <2>3, <2>12
    <3> QED BY <2>3, <2>7, <2>10, <2>11, <2>13, <3>1, <3>2 DEF Keeping
  <2> QED BY <2>3, <2>14 DEF u
<1> QED BY <1>4, <1>5, <1>6

\* Dropping repeated blocks of one length leaves some symbols of the path, the
\* last one among them, and puts no two next to each other that were not.
LEMMA WithoutRepeatsPart ==
  ASSUME NEW S, NEW path \in Seq(S), NEW stride \in 1 .. Len(path)
  PROVE  LET left == WithoutRepeats(path, stride)
         IN  /\ left \in Seq(S) \ {<<>>} /\ PartOf(left, path)
             /\ left[Len(left)] = path[Len(path)] /\ NeighboursKept(left, path)
<1> DEFINE n == Len(path)
           ids == [i \in DOMAIN path |-> i]
           D == DOMAIN ids
           Acc == Moves(S)
           base == [kept |-> SubSeq(path, 1, stride), tmpIdx |-> stride + 1]
           Op == [x \in Acc \X D |-> Move(path, stride, x[1], x[2])]
           Step(g) == [s \in SUBSET D |-> IF s = {} THEN base
                         ELSE Move(path, stride, g[s \ {Max(s)}], ids[Max(s)])]
           h == CHOOSE g : g = Step(g)
           Rel == {r \in Nat \X Acc : Keeping(path, stride, r[2], r[1])}
<1>1. WithoutRepeats(path, stride) = h[D].kept
  BY DEF WithoutRepeats, FoldLeftDomain, FoldLeft, MapThenFoldSet, Move
<1>2. /\ n \in Nat \ {0} /\ D = DOMAIN path /\ D = 1 .. n /\ ids \in Seq(D)
      /\ \A i \in D : ids[i] = i
      /\ stride \in Nat \ {0} /\ stride <= n
  OBVIOUS
<1>3. ASSUME NEW st \in Acc, NEW i \in D PROVE Move(path, stride, st, i) \in Acc
  <2>1. st.kept \in Seq(S) /\ st.tmpIdx \in Nat /\ i \in Nat /\ path[i] \in S
    BY <1>2 DEF Moves
  <2>2. Append(st.kept, path[i]) \in Seq(S) /\ i + 1 \in Nat /\ i + stride \in Nat
    BY <1>2, <2>1
  <2>3. [st EXCEPT !.tmpIdx = i + stride] \in Acc
    BY <2>2 DEF Moves
  <2>4. [kept |-> Append(st.kept, path[i]), tmpIdx |-> i + 1] \in Acc
    BY <2>2 DEF Moves
  <2> QED BY <2>3, <2>4 DEF Move
<1>4. base \in Acc /\ Keeping(path, stride, base, 0)
  <2> DEFINE first == SubSeq(path, 1, stride)
             at == [m \in DOMAIN first |-> m]
  <2>1. /\ first \in Seq(S) /\ Len(first) = stride - 1 + 1
        /\ \A i \in 1 .. stride - 1 + 1 : first[i] = path[1 + i - 1]
    BY <1>2, SubSeqIs
  <2> HIDE DEF first
  <2>2. /\ Len(first) = stride /\ DOMAIN first = 1 .. stride
        /\ \A i \in 1 .. stride : first[i] = path[i] /\ i \in DOMAIN path
    BY <1>2, <2>1
  <2>3. at \in [DOMAIN first -> DOMAIN path] /\ Places(at, first, path)
    BY <2>2 DEF Places
  <2>4. \A m \in DOMAIN first : at[m] < stride + 1
    BY <1>2, <2>2
  <2>5. base = [kept |-> first, tmpIdx |-> stride + 1]
    BY DEF first
  <2> HIDE DEF base, at
  <2>6. base \in Acc /\ base.kept = first /\ base.tmpIdx = stride + 1
    BY <1>2, <2>1, <2>5 DEF Moves
  <2>7. 0 < base.tmpIdx /\ base.tmpIdx - 1 \in DOMAIN path /\ stride <= Len(base.kept)
    BY <1>2, <2>2, <2>6
  <2>8. base.kept[Len(base.kept)] = path[base.tmpIdx - 1]
    BY <1>2, <2>2, <2>6
  <2>9. NeighboursKept(first, path)
    <3> SUFFICES ASSUME NEW m \in 1 .. Len(first) - 1
                 PROVE  \E j \in 1 .. Len(path) - 1 :
                          path[j] = first[m] /\ path[j + 1] = first[m + 1]
      BY DEF NeighboursKept
    <3>1. m \in 1 .. Len(path) - 1 /\ m \in 1 .. stride /\ m + 1 \in 1 .. stride
      BY <1>2, <2>2 DEF n
    <3> QED BY <2>2, <3>1
  <2> QED BY <2>3, <2>4, <2>6, <2>7, <2>8, <2>9 DEF Keeping
<1> HIDE DEF ids, base, Acc
<1>5. Positions(D)
  BY <1>2, PositionsAre
<1>6. \A s \in SUBSET D : s # {} => Max(s) \in s /\ ids[Max(s)] \in D
  BY <1>2, <1>5 DEF Positions
<1> HIDE DEF D
<1>7. h = Step(h)
  <2>1. Op \in [Acc \X D -> Acc]
    BY <1>3
  <2>2. \A st \in Acc, i \in D : Op[st, i] = Move(path, stride, st, i)
    OBVIOUS
  <2> HIDE DEF Op
  <2>3. PICK g \in [SUBSET D -> Acc] : Folded(Op, base, ids, D, g)
    BY <1>2, <1>4, <2>1, FoldExists DEF D
  <2>4. \A s \in SUBSET D :
          g[s] = IF s = {} THEN base ELSE Move(path, stride, g[s \ {Max(s)}], ids[Max(s)])
    <3> SUFFICES ASSUME NEW s \in SUBSET D, s # {}
                 PROVE  g[s] = Move(path, stride, g[s \ {Max(s)}], ids[Max(s)])
      BY <2>3 DEF Folded
    <3>1. g[s] = Op[g[s \ {Max(s)}], ids[Max(s)]]
      BY <2>3 DEF Folded
    <3>2. g[s \ {Max(s)}] \in Acc /\ ids[Max(s)] \in D
      BY <1>6, <2>3
    <3> QED BY <2>2, <3>1, <3>2
  <2>5. g = Step(g)
    BY <2>3, <2>4
  <2> HIDE DEF Step
  <2> QED BY <2>5
<1> HIDE DEF h
<1>8. h[{}] = base
  BY <1>7
<1>9. ASSUME NEW k \in 1 .. n
      PROVE  h[1 .. k] = Move(path, stride, h[1 .. k - 1], k)
  <2>1. 1 .. k \in SUBSET D /\ k \in Nat \ {0} /\ k \in D
    BY <1>2
  <2>2. Max(1 .. k) = k /\ (1 .. k) \ {k} = 1 .. k - 1 /\ 1 .. k # {}
    BY <2>1, LastPosition
  <2>3. ids[k] = k
    BY <1>2, <2>1
  <2> HIDE DEF n
  <2>4. h[1 .. k] = Move(path, stride, h[(1 .. k) \ {Max(1 .. k)}], ids[Max(1 .. k)])
    BY <1>7, <2>1, <2>2
  <2> QED BY <2>2, <2>3, <2>4
<1>10. <<0, h[{}]>> \in Rel
  BY <1>4, <1>8
<1>11. ASSUME NEW k \in 1 .. n, <<k - 1, h[1 .. k - 1]>> \in Rel
       PROVE  <<k, h[1 .. k]>> \in Rel
  <2> DEFINE st == h[1 .. k - 1]
  <2>1. st \in Moves(S) /\ Keeping(path, stride, st, k - 1)
    BY <1>11 DEF Acc
  <2>2. k \in DOMAIN path /\ k \in Nat
    BY <1>2
  <2>3. h[1 .. k] = Move(path, stride, st, k)
    BY <1>9
  <2> HIDE DEF st
  <2>4. h[1 .. k] \in Acc /\ Keeping(path, stride, h[1 .. k], k)
    BY <2>1, <2>2, <2>3, MoveKeeps DEF Acc
  <2> QED BY <2>2, <2>4
<1>12. <<n, h[1 .. n]>> \in Rel
  <2> HIDE DEF Rel, n
  <2> QED BY <1>2, <1>10, <1>11, FoldRuns
<1> DEFINE last == h[D]
           left == last.kept
<1>13. last \in Moves(S) /\ Keeping(path, stride, last, n)
  BY <1>2, <1>12 DEF Acc
<1> HIDE DEF last
<1>14. left \in Seq(S) /\ left # <<>>
  <2>1. left \in Seq(S) /\ stride <= Len(left)
    BY <1>13 DEF Moves, Keeping
  <2> HIDE DEF left
  <2>2. left # <<>>
    BY <1>2, <2>1
  <2> QED BY <2>1, <2>2
<1>15. left[Len(left)] = path[Len(path)]
  <2>1. /\ n < last.tmpIdx /\ last.tmpIdx - 1 \in DOMAIN path
        /\ left[Len(left)] = path[last.tmpIdx - 1] /\ last.tmpIdx \in Nat
    BY <1>13 DEF Keeping, Moves
  <2>2. last.tmpIdx - 1 = n
    BY <1>2, <2>1
  <2> QED BY <2>1, <2>2
<1>16. PartOf(left, path) /\ NeighboursKept(left, path)
  BY <1>13 DEF Keeping, PartOf
<1> QED BY <1>1, <1>14, <1>15, <1>16 DEF last

\* So does dropping them for one length after the other.
LEMMA RefinedPathPart ==
  ASSUME NEW S, NEW path \in Seq(S) \ {<<>>}
  PROVE  LET left == RefinedPath(path)
         IN  /\ left \in Seq(S) \ {<<>>} /\ PartOf(left, path)
             /\ left[Len(left)] = path[Len(path)] /\ NeighboursKept(left, path)
<1> DEFINE ids == [i \in DOMAIN path |-> i]
           D == DOMAIN ids
           Acc == {p \in Seq(S) \ {<<>>} : /\ PartOf(p, path) /\ p[Len(p)] = path[Len(path)]
                                           /\ NeighboursKept(p, path)}
           Shorter(p, stride) == IF 2 * stride >= Len(p) + 1 THEN p
                                 ELSE WithoutRepeats(p, stride)
           Op == [x \in Acc \X D |-> Shorter(x[1], x[2])]
           Step(g) == [s \in SUBSET D |-> IF s = {} THEN path
                         ELSE Shorter(g[s \ {Max(s)}], ids[Max(s)])]
           h == CHOOSE g : g = Step(g)
           Rel == (SUBSET D) \X Acc
<1>1. RefinedPath(path) = h[D]
  BY DEF RefinedPath, FoldLeftDomain, FoldLeft, MapThenFoldSet
<1>2. /\ Len(path) \in Nat /\ D = DOMAIN path /\ D = 1 .. Len(path) /\ ids \in Seq(D)
      /\ \A i \in D : ids[i] = i
  OBVIOUS
<1>3. path \in Acc
  <2>1. NeighboursKept(path, path)
    BY DEF NeighboursKept
  <2> QED BY <2>1, PartOfItself
<1>4. ASSUME NEW p \in Acc, NEW stride \in D PROVE Shorter(p, stride) \in Acc
  <2>1. p \in Seq(S) /\ p # <<>> /\ PartOf(p, path) /\ p[Len(p)] = path[Len(path)]
        /\ path \in Seq(S) /\ NeighboursKept(p, path)
    OBVIOUS
  <2>2. stride \in Nat \ {0}
    BY <1>2
  <2>3. CASE 2 * stride >= Len(p) + 1
    BY <2>3
  <2>4. CASE ~ (2 * stride >= Len(p) + 1)
    <3> DEFINE q == WithoutRepeats(p, stride)
    <3>1. stride \in 1 .. Len(p)
      BY <2>1, <2>2, <2>4
    <3>2. /\ q \in Seq(S) \ {<<>>} /\ PartOf(q, p) /\ q[Len(q)] = p[Len(p)]
          /\ NeighboursKept(q, p)
      BY <2>1, <3>1, WithoutRepeatsPart
    <3> HIDE DEF q
    <3>3. PartOf(q, path)
      BY <2>1, <3>2, PartOfPart
    <3>4. NeighboursKept(q, path)
      <4> SUFFICES ASSUME NEW m \in 1 .. Len(q) - 1
                   PROVE  \E j \in 1 .. Len(path) - 1 : path[j] = q[m] /\ path[j + 1] = q[m + 1]
        BY DEF NeighboursKept
      <4>1. PICK k \in 1 .. Len(p) - 1 : p[k] = q[m] /\ p[k + 1] = q[m + 1]
        BY <3>2 DEF NeighboursKept
      <4>2. PICK j \in 1 .. Len(path) - 1 : path[j] = p[k] /\ path[j + 1] = p[k + 1]
        BY <2>1 DEF NeighboursKept
      <4> QED BY <4>1, <4>2
    <3>5. q \in Acc
      BY <2>1, <3>2, <3>3, <3>4
    <3> QED BY <2>4, <3>5 DEF q
  <2> QED BY <2>3, <2>4
<1> HIDE DEF ids, Acc, Shorter
<1>5. Positions(D)
  BY <1>2, PositionsAre
<1>6. \A s \in SUBSET D : s # {} => Max(s) \in s /\ ids[Max(s)] \in D
  BY <1>2, <1>5 DEF Positions
<1> HIDE DEF D
<1>7. h = Step(h)
  <2>1. Op \in [Acc \X D -> Acc]
    BY <1>4
  <2>2. \A p \in Acc, i \in D : Op[p, i] = Shorter(p, i)
    OBVIOUS
  <2> HIDE DEF Op
  <2>3. PICK g \in [SUBSET D -> Acc] : Folded(Op, path, ids, D, g)
    BY <1>2, <1>3, <2>1, FoldExists DEF D
  <2>4. \A s \in SUBSET D :
          g[s] = IF s = {} THEN path ELSE Shorter(g[s \ {Max(s)}], ids[Max(s)])
    <3> SUFFICES ASSUME NEW s \in SUBSET D, s # {}
                 PROVE  g[s] = Shorter(g[s \ {Max(s)}], ids[Max(s)])
      BY <2>3 DEF Folded
    <3>1. g[s] = Op[g[s \ {Max(s)}], ids[Max(s)]]
      BY <2>3 DEF Folded
    <3>2. g[s \ {Max(s)}] \in Acc /\ ids[Max(s)] \in D
      BY <1>6, <2>3
    <3> QED BY <2>2, <3>1, <3>2
  <2>5. g = Step(g)
    BY <2>3, <2>4
  <2> HIDE DEF Step
  <2> QED BY <2>5
<1> HIDE DEF h
<1>8. <<{}, h[{}]>> \in Rel
  BY <1>3, <1>7
<1>9. ASSUME NEW s \in SUBSET D, s # {}, <<s \ {Max(s)}, h[s \ {Max(s)}]>> \in Rel
      PROVE  <<s, h[s]>> \in Rel
  <2> DEFINE p == h[s \ {Max(s)}]
             i == ids[Max(s)]
  <2>1. p \in Acc /\ i \in D
    BY <1>6, <1>9
  <2>2. h[s] = Shorter(p, i)
    BY <1>7, <1>9
  <2> HIDE DEF p, i
  <2>3. h[s] \in Acc
    BY <1>4, <2>1, <2>2
  <2> QED BY <2>3
<1>10. <<D, h[D]>> \in Rel
  <2> HIDE DEF Rel
  <2> QED BY <1>5, <1>8, <1>9, FoldKeeps
<1> QED BY <1>1, <1>10 DEF Acc
-----------------------------------------------------------------------------
(* What dt_to_sequences reads off a finished tree.                          *)

\* The nodes of the lineage are those that descend from one another.
LEMMA LineageIs ==
  ASSUME NEW t, NEW d \in Nat \ {0}, NEW pos, Descends(t, pos, d)
  PROVE  Lineage(t, d, pos[d]) = [k \in 1 .. d |-> t[k][pos[k]]]
<1> DEFINE at == UpFrom(t, d, pos[d])
<1>1. Lineage(t, d, pos[d]) = [k \in 1 .. d |-> t[at[k][1]][at[k][2]]]
  BY DEF Lineage, UpFrom
<1>2. \A k \in 1 .. d : at[k] = <<k, pos[k]>>
  <2>1. Linked(t, pos, d)
    BY DEF Descends, Linked
  <2>2. UpAlong(t, pos, d)
    BY <2>1, UpFromIs
  <2> QED BY <2>2 DEF UpAlong
<1> HIDE DEF at
<1>3. \A k \in 1 .. d : t[at[k][1]][at[k][2]] = t[k][pos[k]]
  BY <1>2
<1> QED BY <1>1, <1>3

\* The parent of a node is an expanded one of level d.
HasParent(t, d, n) ==
  \E j \in DOMAIN t[d] : n.parent = <<d, j>> /\ t[d][j].status = "inner"

\* Every node below the root, of the next level too, has an expanded parent in the
\* level above; nothing is left open above the last level, or before the node that
\* is visited there; and an expanded node has a derivation number.
Traced(t, kids, at) ==
  /\ \A i \in DOMAIN t[1] : t[1][i].symbol \in Nonterminals
  /\ \A d \in 1 .. Len(t) - 1 : \A i \in DOMAIN t[d + 1] : HasParent(t, d, t[d + 1][i])
  /\ \A i \in DOMAIN kids : HasParent(t, Len(t), kids[i])
  /\ \A d \in 1 .. Len(t) - 1 : ~ AnyOpen(t[d])
  /\ \A i \in DOMAIN t[Len(t)] : i < at => t[Len(t)][i].status # "open"
  /\ \A d \in 1 .. Len(t) : \A i \in DOMAIN t[d] : t[d][i].status = "inner" => t[d][i].dn \in Nat

TracedInv == Traced(tree, next, node)

\* A tree of one node is traced.
LEMMA RootTraced == Traced(RootTree, <<>>, 0)
<1>1. /\ Len(RootTree) = 1 /\ Len(RootTree[1]) = 1 /\ RootTree[1] \in Seq(NodeType)
      /\ RootTree[1][1].status = "open" /\ RootTree[1][1].symbol = StartRule
  BY RootTreeType DEF RootTree, NewNode
<1>2. DOMAIN RootTree[1] = {1} /\ \A d \in 1 .. 1 : d = 1 /\ 1 .. 1 - 1 = {}
  BY <1>1
<1> QED BY <1>1, <1>2, SymbolAssumption DEF SymbolAssumption, Traced

\* Expanding a node leaves every node traced.
LEMMA ExpandedTraced ==
  ASSUME TreeInv, OpenHere, TracedInv,
         NEW j \in DOMAIN Grammar[Level[node].symbol],
         ExpandWith(Grammar[Level[node].symbol][j])
  PROVE  TracedInv'
<1> DEFINE alt  == Grammar[Level[node].symbol][j]
           kids == Children(alt.exp, <<Len(tree), node>>)
           L    == Len(tree)
<1>1. /\ alt \in Alternative /\ kids \in Seq(NodeType)
      /\ tree' \in Seq(Seq(NodeType)) /\ Len(tree') = L
      /\ \A d \in 1 .. L - 1 : tree'[d] = tree[d]
      /\ Level' \in Seq(NodeType) /\ Len(Level') = Len(Level)
      /\ \A i \in 1 .. Len(Level) : i # node => Level'[i] = Level[i]
      /\ Level'[node].status = "inner" /\ Level'[node].dn = alt.dn
      /\ Level'[node].symbol = Level[node].symbol
      /\ Level'[node].parent = Level[node].parent
      /\ next' = next \o kids
  BY Expanded
<1>2. /\ node \in 1 .. Len(Level) /\ L \in Nat \ {0} /\ Level \in Seq(NodeType)
      /\ next \in Seq(NodeType) /\ node' = node + 1
      /\ Level[node].status = "open"
  BY OpenNode DEF TreeInv, Building, ExpandWith, OpenHere
<1>3. \A k \in DOMAIN kids : kids[k].parent = <<L, node>>
  <2>1. <<L, node>> \in Nat \X Nat
    BY <1>2
  <2>2. kids = Children(alt.exp, <<L, node>>)
    OBVIOUS
  <2> HIDE DEF alt, kids, L
  <2> QED BY <1>1, <2>1, <2>2, ChildrenOf
<1>4. alt.dn \in Nat
  BY <1>1 DEF Alternative
<1> HIDE DEF alt, kids
<1>5. /\ Level = tree[L] /\ Level' = tree'[L]
      /\ DOMAIN Level = 1 .. Len(Level) /\ DOMAIN Level' = DOMAIN Level
  BY <1>1, <1>2 DEF Level
<1> HIDE DEF L
<1>6. Traced(tree, next, node)
  BY DEF TracedInv
<1>7. ASSUME NEW n, HasParent(tree, L, n) PROVE HasParent(tree', L, n)
  <2>1. PICK i \in DOMAIN Level : n.parent = <<L, i>> /\ Level[i].status = "inner"
    BY <1>5, <1>7 DEF HasParent
  <2>2. Level'[i].status = "inner"
    BY <1>1, <1>5, <2>1
  <2> QED BY <1>5, <2>1, <2>2 DEF HasParent
<1>8. \A d \in 1 .. L : \A i \in DOMAIN tree'[d] :
        /\ i \in DOMAIN tree[d]
        /\ tree'[d][i].symbol = tree[d][i].symbol /\ tree'[d][i].parent = tree[d][i].parent
        /\ tree'[d][i].status = "inner" /\ tree'[d][i].dn \notin Nat =>
             tree[d][i].status = "inner" /\ tree[d][i].dn \notin Nat
  <2> SUFFICES ASSUME NEW d \in 1 .. L, NEW i \in DOMAIN tree'[d]
               PROVE  /\ i \in DOMAIN tree[d]
                      /\ tree'[d][i].symbol = tree[d][i].symbol
                      /\ tree'[d][i].parent = tree[d][i].parent
                      /\ tree'[d][i].status = "inner" /\ tree'[d][i].dn \notin Nat =>
                           tree[d][i].status = "inner" /\ tree[d][i].dn \notin Nat
    OBVIOUS
  <2>1. CASE d = L
    <3>1. i \in DOMAIN Level /\ i \in 1 .. Len(Level)
      BY <1>5, <2>1
    <3>2. CASE i = node
      BY <1>1, <1>4, <1>5, <2>1, <3>1, <3>2
    <3>3. CASE i # node
      <4>1. Level'[i] = Level[i]
        BY <1>1, <3>1, <3>3
      <4> QED BY <1>5, <2>1, <3>1, <4>1
    <3> QED BY <3>2, <3>3
  <2>2. CASE d # L
    <3>1. d \in 1 .. L - 1
      BY <1>2, <2>2
    <3> QED BY <1>1, <3>1
  <2> QED BY <2>1, <2>2
<1>9. \A i \in DOMAIN tree'[1] : tree'[1][i].symbol \in Nonterminals
  <2>1. 1 \in 1 .. L
    BY <1>2
  <2> QED BY <1>6, <1>8, <2>1 DEF Traced
<1>10. ASSUME NEW d \in 1 .. L - 1, NEW i \in DOMAIN tree'[d + 1]
       PROVE  HasParent(tree', d, tree'[d + 1][i])
  <2>1. d + 1 \in 1 .. L /\ d \in 1 .. L
    BY <1>2
  <2>2. i \in DOMAIN tree[d + 1] /\ tree'[d + 1][i].parent = tree[d + 1][i].parent
    BY <1>8, <2>1
  <2>3. HasParent(tree, d, tree[d + 1][i])
    BY <1>6, <2>2 DEF Traced, L
  <2>4. tree'[d] = tree[d]
    BY <1>1
  <2> QED BY <2>2, <2>3, <2>4 DEF HasParent
<1>11. ASSUME NEW i \in DOMAIN next' PROVE HasParent(tree', L, next'[i])
  <2>1. \/ i \in DOMAIN next /\ next'[i] = next[i]
        \/ \E k \in DOMAIN kids : next'[i] = kids[k]
    BY <1>1, <1>2, Extended
  <2>2. CASE i \in DOMAIN next /\ next'[i] = next[i]
    BY <1>6, <1>7, <2>2 DEF Traced, L
  <2>3. CASE \E k \in DOMAIN kids : next'[i] = kids[k]
    <3>1. next'[i].parent = <<L, node>>
      BY <1>3, <2>3
    <3>2. node \in DOMAIN tree'[L] /\ tree'[L][node].status = "inner"
      BY <1>1, <1>2, <1>5
    <3> QED BY <3>1, <3>2 DEF HasParent
  <2> QED BY <2>1, <2>2, <2>3
<1>12. \A d \in 1 .. L - 1 : ~ AnyOpen(tree'[d])
  BY <1>1, <1>6 DEF Traced, L
<1>13. \A i \in DOMAIN tree'[L] : i < node + 1 => tree'[L][i].status # "open"
  <2> SUFFICES ASSUME NEW i \in DOMAIN Level, i < node + 1
               PROVE  Level'[i].status # "open"
    BY <1>5
  <2>1. CASE i = node
    BY <1>1, <2>1
  <2>2. CASE i # node
    <3>1. i \in 1 .. Len(Level) /\ i < node
      BY <1>2, <1>5, <2>2
    <3>2. Level[i].status # "open"
      BY <1>5, <1>6, <3>1 DEF Traced, L
    <3> QED BY <1>1, <2>2, <3>1, <3>2
  <2> QED BY <2>1, <2>2
<1>14. \A d \in 1 .. L : \A i \in DOMAIN tree'[d] :
         tree'[d][i].status = "inner" => tree'[d][i].dn \in Nat
  BY <1>6, <1>8 DEF Traced, L
<1>15. Len(tree') = L
  BY <1>1
<1>16. Traced(tree', next', node')
  BY <1>2, <1>9, <1>10, <1>11, <1>12, <1>13, <1>14, <1>15 DEF Traced
<1> QED BY <1>16 DEF TracedInv

\* So does appending a level.
LEMMA AppendedTraced ==
  ASSUME TreeInv, TracedInv, EndLevel
  PROVE  TracedInv'
<1> DEFINE L == Len(tree)
           t == Append(tree, next)
<1>1. tree \in Seq(Seq(NodeType)) /\ L \in Nat \ {0} /\ next \in Seq(NodeType)
  <2>1. tree \in Seq(Seq(NodeType)) /\ tree # <<>> /\ next \in Seq(NodeType)
    BY DEF TreeInv, Building
  <2> QED BY <2>1
<1>2. /\ tree' = t /\ next' = <<>> /\ node' = 0 /\ node = Len(Level) + 1
  BY DEF EndLevel, EndLevelAt
<1>3. Len(t) = L + 1 /\ t[L + 1] = next /\ \A d \in 1 .. L : t[d] = tree[d]
  <2> DEFINE S == Seq(NodeType)
  <2>1. tree \in Seq(S) /\ next \in S
    BY <1>1
  <2> HIDE DEF S
  <2> QED BY <2>1
<1> HIDE DEF t
<1>4. Traced(tree, next, node)
  BY DEF TracedInv
<1>5. \A d \in 1 .. L : ~ AnyOpen(tree[d])
  <2>1. ~ AnyOpen(tree[L])
    <3>1. Level = tree[L] /\ Level \in Seq(NodeType)
      BY <1>1 DEF Level
    <3>2. \A i \in DOMAIN Level : i < node
      BY <1>2, <3>1
    <3> QED BY <1>4, <3>1, <3>2 DEF Traced, AnyOpen
  <2>2. \A d \in 1 .. L : d # L => d \in 1 .. L - 1
    BY <1>1
  <2> QED BY <1>4, <2>1, <2>2 DEF Traced
<1>6. /\ \A d \in 1 .. L : d + 1 \in 1 .. L \/ d + 1 = L + 1
      /\ \A d \in 1 .. L : d + 1 \in 1 .. L => d \in 1 .. L - 1
      /\ \A d \in 1 .. L + 1 : d \in 1 .. L \/ d = L + 1
      /\ 1 \in 1 .. L /\ L \in 1 .. L
  BY <1>1
<1> HIDE DEF L
<1>7. ASSUME NEW d \in 1 .. L, NEW i \in DOMAIN t[d + 1]
      PROVE  HasParent(t, d, t[d + 1][i])
  <2>1. HasParent(tree, d, t[d + 1][i])
    <3>1. CASE d + 1 \in 1 .. L
      BY <1>3, <1>4, <1>6, <3>1 DEF Traced, L
    <3>2. CASE d + 1 = L + 1
      <4>1. d = L /\ i \in DOMAIN next /\ t[d + 1][i] = next[i]
        BY <1>1, <1>3, <3>2
      <4> QED BY <1>4, <4>1 DEF Traced, L
    <3> QED BY <1>6, <3>1, <3>2
  <2> QED BY <1>3, <2>1 DEF HasParent
<1>8. \A i \in DOMAIN next : next[i].status # "inner"
  BY DEF TreeInv, NextInv
<1>9. \A d \in 1 .. L + 1 : \A i \in DOMAIN t[d] : t[d][i].status = "inner" => t[d][i].dn \in Nat
  BY <1>3, <1>4, <1>6, <1>8 DEF Traced, L
<1>10. \A i \in DOMAIN t[1] : t[1][i].symbol \in Nonterminals
  BY <1>3, <1>4, <1>6 DEF Traced
<1>11. \A i \in DOMAIN t[L + 1] : ~ (i < 0)
  BY <1>1, <1>3
<1>12. Len(t) = L + 1 /\ L + 1 - 1 = L /\ DOMAIN <<>> = {}
  BY <1>1, <1>3
<1>13. \A d \in 1 .. L : ~ AnyOpen(t[d])
  BY <1>3, <1>5
<1>14. Traced(t, <<>>, 0)
  <2>1. \A d \in 1 .. Len(t) - 1 :
          /\ \A i \in DOMAIN t[d + 1] : HasParent(t, d, t[d + 1][i])
          /\ ~ AnyOpen(t[d])
    <3>1. Len(t) - 1 = L
      <4>1. L \in Nat /\ Len(t) = L + 1
        BY <1>1, <1>12
      <4> QED BY <4>1
    <3> QED BY <1>7, <1>13, <3>1
  <2>2. \A i \in DOMAIN t[Len(t)] : i < 0 => t[Len(t)][i].status # "open"
    BY <1>11, <1>12
  <2>3. \A d \in 1 .. Len(t) : \A i \in DOMAIN t[d] :
          t[d][i].status = "inner" => t[d][i].dn \in Nat
    BY <1>9, <1>12
  <2> QED BY <1>10, <1>12, <2>1, <2>2, <2>3 DEF Traced
<1> QED BY <1>2, <1>14 DEF TracedInv

\* So does every step of the generator.
LEMMA NextTraced == IInv /\ TracedInv /\ [Next]_vars => TracedInv'
<1> SUFFICES ASSUME IInv, TracedInv, [Next]_vars PROVE TracedInv'
  OBVIOUS
<1>0. TreeInv /\ TypeOK /\ NextInv
  BY InputTree DEF IInv
<1>1. CASE BeginRandomLevel \/ BeginMinimumLevel
  <2>1. UNCHANGED <<tree, next>> /\ node' = 1
    BY <1>1 DEF BeginRandomLevel, BeginMinimumLevel
  <2>2. \A i \in DOMAIN Level : ~ (i < 1)
    BY <1>0 DEF TypeOK, Level
  <2> QED BY <2>1, <2>2 DEF TracedInv, Traced, Level
<1>2. CASE LeaveRandom
  BY <1>2 DEF LeaveRandom, TracedInv
<1>3. CASE VisitLeaf
  <2>1. UNCHANGED <<tree, next>> /\ node' = node + 1 /\ node \in DOMAIN Level
        /\ Level[node].status # "open"
    BY <1>3 DEF VisitLeaf
  <2>2. \A i \in DOMAIN Level : i < node + 1 => i < node \/ i = node
    BY <1>0, <2>1 DEF TypeOK, Level
  <2>3. \A i \in DOMAIN Level : i < node + 1 => Level[i].status # "open"
    BY <2>1, <2>2 DEF TracedInv, Traced, Level
  <2> QED BY <2>1, <2>3 DEF TracedInv, Traced, Level
<1>4. ASSUME ExpandNode PROVE TracedInv'
  <2>1. PICK j \in Candidates(Level[node].symbol, PrunedHere) :
          ExpandWith(Grammar[Level[node].symbol][j])
    BY <1>4 DEF ExpandNode
  <2> QED BY <1>0, <1>4, <2>1, CandidatesAre, InputTree, ExpandedTraced
<1>5. CASE EndLevel
  BY <1>0, <1>5, AppendedTraced
<1>6. CASE WriteInput
  <2>1. tree' = RootTree /\ next' = <<>> /\ node' = 0
    BY <1>0, <1>6 DEF WriteInput, WriteInputAs, NextInv
  <2>2. Traced(RootTree, <<>>, 0)
    BY RootTraced
  <2> QED BY <2>1, <2>2 DEF TracedInv
<1>7. CASE UNCHANGED vars
  BY <1>7 DEF vars, TracedInv
<1> QED BY <1>1, <1>2, <1>3, <1>4, <1>5, <1>6, <1>7
        DEF Next, Done, ExpandNodeRandomly, ExpandMinimumNode

\* What is placed in a path is placed no further to the front than it was.
LEMMA PlacesRise ==
  ASSUME NEW S, NEW p \in Seq(S), NEW q \in Seq(S), NEW at, Places(at, p, q)
  PROVE  \A m \in DOMAIN p : at[m] >= m
<1> DEFINE Short == {m \in DOMAIN p : at[m] < m}
<1>1. at \in [DOMAIN p -> DOMAIN q] /\ Places(at, p, q)
  BY DEF Places
<1>2. /\ Len(p) \in Nat /\ DOMAIN p = 1 .. Len(p)
      /\ Len(q) \in Nat /\ DOMAIN q = 1 .. Len(q)
  OBVIOUS
<1>3. Short = {}
  <2> SUFFICES ASSUME Short # {} PROVE FALSE
    OBVIOUS
  <2>1. PICK m \in Short : \A k \in Short : m <= k
    <3>1. Short \subseteq Nat
      BY <1>2
    <3> HIDE DEF Short
    <3> QED BY <3>1, LeastNat
  <2>2. m \in 1 .. Len(p) /\ at[m] < m /\ at[m] \in 1 .. Len(q)
    BY <1>1, <1>2
  <2>3. m - 1 \in DOMAIN p /\ m - 1 < m /\ ~ (m <= m - 1)
    BY <1>2, <2>2
  <2>4. at[m - 1] < at[m] /\ at[m - 1] \in Nat /\ m - 1 \notin Short
    BY <1>1, <1>2, <2>1, <2>2, <2>3 DEF Places
  <2>5. ~ (at[m - 1] < m - 1)
    BY <2>3, <2>4
  <2> HIDE DEF Short
  <2> QED BY <2>2, <2>4, <2>5
<1> QED
  <2> SUFFICES ASSUME NEW m \in 1 .. Len(p) PROVE at[m] >= m
    BY <1>2
  <2>1. ~ (at[m] < m) /\ at[m] \in 1 .. Len(q)
    BY <1>1, <1>2, <1>3
  <2> QED BY <1>2, <2>1

\* A part of a path is no longer than the path.
LEMMA PartOfLength ==
  ASSUME NEW S, NEW p \in Seq(S), NEW q \in Seq(S), PartOf(p, q)
  PROVE  Len(p) <= Len(q)
<1>1. PICK at \in [DOMAIN p -> DOMAIN q] : Places(at, p, q)
  BY DEF PartOf
<1>2. /\ Len(p) \in Nat /\ DOMAIN p = 1 .. Len(p)
      /\ Len(q) \in Nat /\ DOMAIN q = 1 .. Len(q)
  OBVIOUS
<1>3. CASE Len(p) = 0
  BY <1>2, <1>3
<1>4. CASE Len(p) # 0
  <2>1. Len(p) \in DOMAIN p
    BY <1>2, <1>4
  <2>2. at[Len(p)] >= Len(p) /\ at[Len(p)] \in 1 .. Len(q)
    BY <1>1, <1>2, <2>1, PlacesRise
  <2> QED BY <1>2, <2>2
<1> QED BY <1>3, <1>4

\* A path that is a part of one no longer than itself is the same path.
LEMMA PartOfSame ==
  ASSUME NEW S, NEW p \in Seq(S), NEW q \in Seq(S), PartOf(p, q), Len(q) <= Len(p)
  PROVE  p = q
<1>1. PICK at \in [DOMAIN p -> DOMAIN q] : Places(at, p, q)
  BY DEF PartOf
<1> DEFINE n == Len(p)
           Long == {m \in DOMAIN p : at[m] > m}
           Rest == {n - m : m \in Long}
<1>2. n \in Nat /\ DOMAIN p = 1 .. n /\ Len(q) = n /\ DOMAIN q = 1 .. n
  <2>1. Len(p) \in Nat /\ DOMAIN p = 1 .. Len(p) /\ Len(q) \in Nat /\ DOMAIN q = 1 .. Len(q)
    OBVIOUS
  <2>2. Len(p) <= Len(q)
    BY PartOfLength
  <2>3. \A a, b \in Nat : a <= b /\ b <= a => b = a
    OBVIOUS
  <2>4. Len(q) = Len(p)
    BY <2>1, <2>2, <2>3
  <2> QED BY <2>1, <2>4
<1> HIDE DEF n
<1>3. \A m \in 1 .. n : at[m] \in 1 .. n /\ at[m] >= m /\ q[at[m]] = p[m]
  <2>1. \A m \in DOMAIN p : at[m] >= m
    BY <1>1, PlacesRise
  <2>2. \A m \in DOMAIN p : at[m] \in DOMAIN q /\ q[at[m]] = p[m]
    BY <1>1 DEF Places
  <2> QED BY <1>2, <2>1, <2>2
<1>4. Long = {}
  <2> SUFFICES ASSUME Long # {} PROVE FALSE
    OBVIOUS
  <2>1. Rest \subseteq Nat /\ Rest # {}
    <3>1. \A m \in Long : n - m \in Nat
      <4>1. Long \subseteq 1 .. n
        BY <1>2
      <4> HIDE DEF Long
      <4> QED BY <1>2, <4>1
    <3>2. PICK m \in Long : TRUE
      OBVIOUS
    <3>3. n - m \in Rest
      OBVIOUS
    <3> QED BY <3>1, <3>3
  <2>2. PICK d \in Rest : \A e \in Rest : d <= e
    <3> HIDE DEF Rest
    <3> QED BY <2>1, LeastNat
  <2>3. PICK m \in Long : d = n - m
    OBVIOUS
  <2>4. m \in 1 .. n /\ at[m] > m /\ at[m] \in 1 .. n
    BY <1>2, <1>3, <2>3
  <2>5. m + 1 \in 1 .. n /\ m < m + 1
    BY <1>2, <2>4
  <2>6. at[m] < at[m + 1] /\ at[m + 1] \in 1 .. n
    BY <1>1, <1>2, <1>3, <2>4, <2>5 DEF Places
  <2>7. at[m + 1] > m + 1
    BY <2>4, <2>6
  <2>8. m + 1 \in Long
    BY <1>2, <2>5, <2>7
  <2>9. n - (m + 1) \in Rest
    BY <2>8
  <2>10. n - m <= n - (m + 1)
    BY <2>2, <2>3, <2>9
  <2> QED BY <1>2, <2>4, <2>10
<1>5. ASSUME NEW m \in 1 .. n PROVE q[m] = p[m]
  <2>1. ~ (at[m] > m)
    BY <1>2, <1>4
  <2>2. at[m] = m
    BY <1>2, <1>3, <2>1
  <2> QED BY <1>3, <2>2
<1> QED BY <1>2, <1>5

\* The nodes at pos descend from one another, and all but the last are expanded.
Line(t, pos, d) ==
  /\ Descends(t, pos, d)
  /\ \A k \in 1 .. d - 1 : t[k][pos[k]].status = "inner"

\* Every node has a line above it.
LEMMA LineExists ==
  ASSUME NEW t, NEW kids, NEW at, Len(t) \in Nat, Traced(t, kids, at),
         NEW d \in 1 .. Len(t), NEW i \in DOMAIN t[d]
  PROVE  \E pos : Line(t, pos, d) /\ pos[d] = i
<1> DEFINE Reached(c) == \A j \in DOMAIN t[c] : \E pos : Line(t, pos, c) /\ pos[c] = j
           Bad == {c \in 1 .. Len(t) : ~ Reached(c)}
<1> SUFFICES ASSUME Bad # {} PROVE FALSE
  OBVIOUS
<1>1. PICK c \in Bad : \A b \in Bad : c <= b
  <2>1. Bad \subseteq Nat
    OBVIOUS
  <2> HIDE DEF Bad
  <2> QED BY <2>1, LeastNat
<1>2. c \in 1 .. Len(t) /\ ~ Reached(c)
  OBVIOUS
<1>3. PICK j \in DOMAIN t[c] : ~ \E pos : Line(t, pos, c) /\ pos[c] = j
  BY <1>2
<1>4. CASE c = 1
  <2> DEFINE pos == [k \in 1 .. 1 |-> j]
  <2>1. pos[c] = j /\ \A k \in 1 .. c : k = c /\ 1 .. c - 1 = {}
    BY <1>4
  <2> HIDE DEF pos
  <2>2. Line(t, pos, c)
    BY <1>3, <1>4, <2>1 DEF Line, Descends
  <2> QED BY <1>3, <2>1, <2>2
<1>5. CASE c # 1
  <2> DEFINE b == c - 1
  <2>1. b \in 1 .. Len(t) /\ b \in 1 .. Len(t) - 1 /\ ~ (c <= b) /\ b + 1 = c
    BY <1>2, <1>5
  <2> HIDE DEF b
  <2>2. PICK k \in DOMAIN t[b] : t[c][j].parent = <<b, k>> /\ t[b][k].status = "inner"
    BY <1>3, <2>1 DEF Traced, HasParent
  <2>3. Reached(b)
    <3> HIDE DEF Reached
    <3> QED BY <1>1, <2>1
  <2>4. PICK up : Line(t, up, b) /\ up[b] = k
    BY <2>2, <2>3
  <2> DEFINE pos == [e \in 1 .. c |-> IF e = c THEN j ELSE up[e]]
  <2>5. pos[c] = j /\ \A e \in 1 .. b : pos[e] = up[e]
    BY <1>2, <2>1
  <2> HIDE DEF pos
  <2>6. /\ \A e \in 1 .. c : e \in 1 .. b \/ e = c
        /\ \A e \in 1 .. c - 1 : e \in 1 .. b /\ (e \in 1 .. b - 1 \/ e = b)
        /\ \A e \in 1 .. b - 1 : e + 1 \in 1 .. b
    BY <1>2, <2>1
  <2>7. \A e \in 1 .. c : pos[e] \in DOMAIN t[e]
    BY <1>3, <2>4, <2>5, <2>6 DEF Line, Descends
  <2>8. \A e \in 1 .. c - 1 : t[e + 1][pos[e + 1]].parent = <<e, pos[e]>>
    BY <2>1, <2>2, <2>4, <2>5, <2>6 DEF Line, Descends
  <2>9. \A e \in 1 .. c - 1 : t[e][pos[e]].status = "inner"
    BY <2>2, <2>4, <2>5, <2>6 DEF Line
  <2>10. Line(t, pos, c)
    BY <2>7, <2>8, <2>9 DEF Line, Descends
  <2> QED BY <1>3, <2>5, <2>10
<1> QED BY <1>4, <1>5

\* What dt_to_sequences reads off a traced tree is found in it.
LEMMA FoundIs == IInv /\ TracedInv => SequencesFound
<1> SUFFICES ASSUME IInv, TracedInv, phase = "minimum", node = 0, ~ AnyOpen(Level),
                    NEW s \in DtToSequences(tree, OneChildSymbols)
             PROVE  TreeContains(Key(s))
  BY DEF SequencesFound
<1>1. PICK d \in DOMAIN tree : \E i \in DOMAIN tree[d] :
        tree[d][i].dn = -1 /\ s = Refined(LeafSequence(tree, d, i, OneChildSymbols))
  BY DEF DtToSequences
<1>2. PICK i \in DOMAIN tree[d] :
        tree[d][i].dn = -1 /\ s = Refined(LeafSequence(tree, d, i, OneChildSymbols))
  BY <1>1
<1>3. /\ tree \in Seq(Seq(NodeType)) /\ Len(tree) \in Nat \ {0} /\ d \in 1 .. Len(tree)
      /\ \A e \in 1 .. Len(tree) : tree[e] \in Seq(NodeType)
      /\ \A e \in 1 .. Len(tree) : \A k \in DOMAIN tree[e] : tree[e][k] \in NodeType
  <2> DEFINE S == Seq(NodeType)
  <2>1. tree \in Seq(S) /\ tree # <<>>
    BY DEF IInv, TypeOK
  <2>2. \A l \in S : \A k \in DOMAIN l : l[k] \in NodeType
    OBVIOUS
  <2> HIDE DEF S
  <2>3. Len(tree) \in Nat \ {0} /\ d \in 1 .. Len(tree) /\ \A e \in 1 .. Len(tree) : tree[e] \in S
    BY <2>1
  <2> QED BY <2>1, <2>2, <2>3 DEF S
<1>4. Traced(tree, next, node)
  BY DEF TracedInv
<1>5. tree[d][i].status = "leaf"
  <2>1. ~ AnyOpen(tree[d])
    <3>1. d = Len(tree) \/ d \in 1 .. Len(tree) - 1
      BY <1>3
    <3> QED BY <1>4, <3>1 DEF Traced, Level
  <2>2. tree[d][i].status # "open"
    BY <2>1 DEF AnyOpen
  <2>3. -1 \notin Nat
    OBVIOUS
  <2>4. tree[d][i].status # "inner"
    BY <1>2, <1>3, <1>4, <2>3 DEF Traced
  <2> QED BY <1>3, <2>2, <2>4 DEF NodeType
<1>6. d # 1
  <2>1. tree[d][i].symbol \notin Nonterminals
    BY <1>3, <1>5 DEF NodeType
  <2> QED BY <1>4, <2>1 DEF Traced
<1>7. PICK pos : Line(tree, pos, d) /\ pos[d] = i
  BY <1>3, <1>4, LineExists
<1> DEFINE up == Front(Lineage(tree, d, i))
           Choosing == {k \in DOMAIN up : up[k].symbol \notin OneChildSymbols}
           last == Max({1} \cup Choosing)
           path == [k \in 1 .. last |-> up[k].symbol]
           left == RefinedPath(path)
<1>8. s = SubSequence(left, up[last].dn)
  BY <1>2 DEF Refined, LeafSequence, SubSequence
<1>9. up = [k \in 1 .. d - 1 |-> tree[k][pos[k]]]
  <2> DEFINE line == [k \in 1 .. d |-> tree[k][pos[k]]]
  <2>1. Lineage(tree, d, i) = line
    <3>1. d \in Nat \ {0} /\ Descends(tree, pos, d)
      BY <1>3, <1>7 DEF Line
    <3> HIDE DEF line
    <3>2. Lineage(tree, d, pos[d]) = [k \in 1 .. d |-> tree[k][pos[k]]]
      BY <3>1, LineageIs
    <3> QED BY <1>7, <3>2 DEF line
  <2>2. line \in Seq(NodeType) /\ Len(line) = d
    <3>1. \A k \in 1 .. d : tree[k][pos[k]] \in NodeType
      BY <1>3, <1>7 DEF Line, Descends
    <3>2. d \in Nat
      BY <1>3
    <3> QED BY <3>1, <3>2
  <2>3. d - 1 \in Nat \ {0} /\ \A k \in 1 .. d - 1 : k \in 1 .. d /\ line[k] = tree[k][pos[k]]
    BY <1>3, <1>6
  <2> HIDE DEF line
  <2>4. Front(line) = SubSeq(line, 1, d - 1)
    BY <2>2 DEF Front
  <2>5. SubSeq(line, 1, d - 1) = [k \in 1 .. d - 1 |-> line[k]]
    BY <2>2, <2>3
  <2> QED BY <2>1, <2>3, <2>4, <2>5
<1>10. last \in 1 .. d - 1 /\ d - 1 \in Nat \ {0}
  <2>1. d - 1 \in Nat \ {0}
    BY <1>3, <1>6
  <2>2. Choosing \subseteq 1 .. d - 1
    BY <1>9
  <2>3. Positions(1 .. d - 1)
    BY <2>1, PositionsAre
  <2>4. {1} \cup Choosing \in SUBSET (1 .. d - 1) /\ {1} \cup Choosing # {}
    <3> HIDE DEF Choosing
    <3>1. 1 \in 1 .. d - 1
      BY <1>3, <2>1
    <3> QED BY <2>2, <3>1
  <2> HIDE DEF Choosing
  <2>5. last \in {1} \cup Choosing
    BY <2>3, <2>4 DEF Positions
  <2> QED BY <2>1, <2>4, <2>5
<1> HIDE DEF last
<1>11. /\ \A k \in 1 .. last : k \in 1 .. d /\ k \in 1 .. d - 1 /\ k \in 1 .. Len(tree)
       /\ \A k \in 1 .. last - 1 : k \in 1 .. d - 1
       /\ last \in Nat \ {0} /\ last \in 1 .. last
  <2> DEFINE e == d - 1
  <2>1. last \in 1 .. e /\ e \in Nat /\ e + 1 = d /\ d \in 1 .. Len(tree) /\ Len(tree) \in Nat
    BY <1>3, <1>10
  <2> HIDE DEF e
  <2>2. \A k \in 1 .. last : k \in 1 .. d /\ k \in 1 .. e /\ k \in 1 .. Len(tree)
    BY <2>1
  <2>3. \A k \in 1 .. last - 1 : k \in 1 .. e
    BY <2>1
  <2>4. last \in Nat \ {0} /\ last \in 1 .. last
    BY <2>1
  <2> QED BY <2>2, <2>3, <2>4 DEF e
<1>12. up[last] = tree[last][pos[last]] /\ path = SymbolsAt(tree, pos, last)
  <2>1. \A k \in 1 .. last : up[k] = tree[k][pos[k]]
    BY <1>9, <1>11
  <2> HIDE DEF up
  <2> QED BY <1>11, <2>1 DEF SymbolsAt
<1>13. /\ pos[last] \in DOMAIN tree[last] /\ last \in DOMAIN tree
       /\ tree[last][pos[last]].status = "inner"
  BY <1>3, <1>7, <1>10, <1>11 DEF Line, Descends
<1>14. Descends(tree, pos, last)
  BY <1>7, <1>11 DEF Line, Descends
<1> HIDE DEF up
<1>15. path \in Seq(Symbols) \ {<<>>} /\ Len(path) = last
       /\ path[Len(path)] = tree[last][pos[last]].symbol
  <2>1. \A k \in 1 .. last : tree[k][pos[k]].symbol \in Symbols
    BY <1>3, <1>11, <1>14 DEF Descends, NodeType
  <2>2. path = [k \in 1 .. last |-> tree[k][pos[k]].symbol]
    BY <1>12 DEF SymbolsAt
  <2> HIDE DEF path
  <2>3. path \in Seq(Symbols) /\ Len(path) = last
    BY <1>11, <2>1, <2>2
  <2>4. path # <<>>
    BY <1>11, <2>3
  <2> QED BY <1>11, <2>2, <2>3, <2>4
<1> HIDE DEF path
<1>16. left \in Seq(Symbols) \ {<<>>} /\ PartOf(left, path) /\ left[Len(left)] = path[Len(path)]
  BY <1>15, RefinedPathPart
<1> HIDE DEF left
<1> DEFINE sk == Skeleton(tree, last)
<1>17. Len(sk) = last /\ sk[last][pos[last]].symbol = tree[last][pos[last]].symbol
  <2> DEFINE C == {sk[k] : k \in 1 .. last}
  <2>1. sk = [k \in 1 .. last |-> [j \in DOMAIN tree[k] |->
               [symbol |-> tree[k][j].symbol, parent |-> tree[k][j].parent]]]
    BY DEF Skeleton
  <2>2. sk \in [1 .. last -> C]
    BY <2>1
  <2>3. sk[last][pos[last]].symbol = tree[last][pos[last]].symbol
    BY <1>11, <1>13, <2>1
  <2> HIDE DEF C, sk
  <2> QED BY <1>11, <2>2, <2>3
<1>18. RootPath(sk, pos[last]) = path
  BY <1>11, <1>12, <1>14, RootPathIs
<1> HIDE DEF sk
<1>19. SatisfyPreSeq(sk, left, pos[last])
  <2>1. Len(left) <= Len(path)
    BY <1>15, <1>16, PartOfLength
  <2>2. Embeds(left, path)
    BY <1>15, <1>16, EmbedsPart
  <2>3. Len(sk) >= Len(left)
    BY <1>11, <1>15, <1>16, <1>17, <2>1
  <2> QED BY <1>15, <1>16, <1>17, <1>18, <2>2, <2>3 DEF SatisfyPreSeq
<1>20. Key(s) = <<tree[last][pos[last]].symbol, tree[last][pos[last]].dn, left>>
  BY <1>8, <1>12, <1>15, <1>16 DEF Key, LastSymbol, SubSequence
<1>21. TreeContains(Key(s))
  BY <1>13, <1>19, <1>20 DEF TreeContains, sk
<1> QED BY <1>21

\* What the capture phase reads off a finished tree (dt_to_sequences of
\* generateRS.py) is found in it by the generator (satisfy_pre_seq), for every
\* grammar: by TracedInv, parent pointers lead from each token through expanded
\* nodes to the root, and what is left of a path without repeated blocks is a
\* part of it that greedy matching finds.
THEOREM ExtractedFound == Spec => []SequencesFound
<1>1. Init => IInv /\ TracedInv
  <2>1. Init => TracedInv
    BY RootTraced DEF Init, TracedInv
  <2> QED BY <2>1, InitIInv
<1>2. IInv /\ TracedInv /\ [Next]_vars => (IInv /\ TracedInv)'
  BY NextIInv, NextTraced
<1>3. IInv /\ TracedInv => SequencesFound
  BY FoundIs
<1> QED BY <1>1, <1>2, <1>3, PTL DEF Spec
-----------------------------------------------------------------------------
(* What the capture phase makes of lists of sub-sequences.                  *)

\* The image of a finite set is finite.
LEMMA FiniteImage ==
  ASSUME NEW S, IsFiniteSet(S), NEW f
  PROVE  IsFiniteSet({f[x] : x \in S})
<1> DEFINE T == {f[x] : x \in S}
           g == [x \in S |-> f[x]]
<1>1. g \in Surjection(S, T)
  BY DEF Surjection
<1> QED BY <1>1, FS_Surjection

\* What concatenation returns.
LEMMA ConcatIs ==
  ASSUME NEW S, NEW p \in Seq(S), NEW q \in Seq(S)
  PROVE  /\ p \o q \in Seq(S) /\ Len(p \o q) = Len(p) + Len(q)
         /\ \A i \in 1 .. Len(p) : (p \o q)[i] = p[i]
         /\ \A i \in Len(p) + 1 .. Len(p) + Len(q) : (p \o q)[i] = q[i - Len(p)]
OBVIOUS

\* A sequence with an element more, at position k.
LEMMA InsertedIs ==
  ASSUME NEW S, NEW o \in Seq(S), NEW x \in S, NEW k \in 1 .. Len(o) + 1
  PROVE  LET u == InsertAt(o, k, x)
         IN  /\ u \in Seq(S) /\ ToSet(u) = ToSet(o) \cup {x}
             /\ Len(u) = Len(o) + 1 /\ u[k] = x
             /\ \A i \in 1 .. k - 1 : u[i] = o[i]
             /\ \A i \in k + 1 .. Len(o) + 1 : u[i] = o[i - 1]
<1> DEFINE n == Len(o)
           a == SubSeq(o, 1, k - 1)
           b == SubSeq(o, k, n)
           u == a \o <<x>> \o b
<1>1. n \in Nat /\ k \in 1 .. n + 1 /\ \A i \in 1 .. n : o[i] \in S
  OBVIOUS
<1>2. /\ a \in Seq(S) /\ Len(a) = k - 1
      /\ \A i \in 1 .. k - 1 : a[i] = o[i]
  BY <1>1
<1>3. /\ b \in Seq(S) /\ Len(b) = n - k + 1
      /\ \A i \in 1 .. n - k + 1 : b[i] = o[k + i - 1]
  BY <1>1
<1> HIDE DEF a, b, n
<1>4. /\ u \in Seq(S) /\ Len(u) = n + 1
      /\ \A i \in 1 .. k - 1 : u[i] = a[i]
      /\ u[k] = x
      /\ \A i \in k + 1 .. n + 1 : u[i] = b[i - k]
  <2> DEFINE w == a \o <<x>>
  <2>1. /\ w \in Seq(S) /\ Len(w) = k /\ w[k] = x
        /\ \A i \in 1 .. k - 1 : w[i] = a[i]
    BY <1>1, <1>2
  <2> HIDE DEF w
  <2>2. /\ w \o b \in Seq(S) /\ Len(w \o b) = k + (n - k + 1)
        /\ \A i \in 1 .. k : (w \o b)[i] = w[i]
        /\ \A i \in k + 1 .. k + (n - k + 1) : (w \o b)[i] = b[i - k]
    <3>1. w \in Seq(S) /\ b \in Seq(S) /\ Len(w) = k /\ Len(b) = n - k + 1
      BY <1>3, <2>1
    <3>2. /\ w \o b \in Seq(S) /\ Len(w \o b) = Len(w) + Len(b)
          /\ \A i \in 1 .. Len(w) : (w \o b)[i] = w[i]
          /\ \A i \in Len(w) + 1 .. Len(w) + Len(b) : (w \o b)[i] = b[i - Len(w)]
      BY <3>1, ConcatIs
    <3> QED BY <3>1, <3>2
  <2>3. k + (n - k + 1) = n + 1 /\ k \in 1 .. k /\ \A i \in 1 .. k - 1 : i \in 1 .. k
    BY <1>1
  <2>4. u = w \o b
    BY DEF w
  <2> HIDE DEF u
  <2> QED BY <2>1, <2>2, <2>3, <2>4
<1> HIDE DEF u
<1>5. ASSUME NEW i \in 1 .. n + 1 PROVE u[i] = x \/ \E j \in 1 .. n : u[i] = o[j]
  <2>1. CASE i < k
    <3>1. i \in 1 .. k - 1 /\ i \in 1 .. n
      BY <1>1, <2>1
    <3> QED BY <1>2, <1>4, <3>1
  <2>2. CASE i = k
    BY <1>4, <2>2
  <2>3. CASE i > k
    <3>1. i \in k + 1 .. n + 1 /\ i - k \in 1 .. n - k + 1 /\ k + (i - k) - 1 \in 1 .. n
      BY <1>1, <2>3
    <3> QED BY <1>3, <1>4, <3>1
  <2>4. i < k \/ i = k \/ i > k
    BY <1>1
  <2> QED BY <2>1, <2>2, <2>3, <2>4
<1>6. ASSUME NEW j \in 1 .. n PROVE \E i \in 1 .. n + 1 : u[i] = o[j]
  <2>1. CASE j < k
    <3>1. j \in 1 .. k - 1 /\ j \in 1 .. n + 1
      BY <1>1, <2>1
    <3> QED BY <1>2, <1>4, <3>1
  <2>2. CASE ~ (j < k)
    <3>1. /\ j + 1 \in k + 1 .. n + 1 /\ j + 1 - k \in 1 .. n - k + 1
          /\ k + (j + 1 - k) - 1 = j /\ j + 1 \in 1 .. n + 1
      BY <1>1, <2>2
    <3>2. u[j + 1] = b[j + 1 - k] /\ b[j + 1 - k] = o[j]
      BY <1>3, <1>4, <3>1
    <3> QED BY <3>1, <3>2
  <2> QED BY <2>1, <2>2
<1>7. DOMAIN u = 1 .. n + 1 /\ DOMAIN o = 1 .. n /\ k \in 1 .. n + 1
  BY <1>1, <1>4 DEF n
<1>8. ToSet(u) = ToSet(o) \cup {x}
  <2>1. ToSet(u) = {u[i] : i \in 1 .. n + 1} /\ ToSet(o) = {o[i] : i \in 1 .. n}
    BY <1>7 DEF ToSet
  <2>2. ASSUME NEW y \in ToSet(u) PROVE y \in ToSet(o) \cup {x}
    BY <1>5, <2>1
  <2>3. ASSUME NEW y \in ToSet(o) \cup {x} PROVE y \in ToSet(u)
    BY <1>4, <1>6, <1>7, <2>1
  <2> QED BY <2>2, <2>3
<1>9. InsertAt(o, k, x) = u
  BY DEF InsertAt, u, a, b, n
<1>10. \A i \in 1 .. k - 1 : u[i] = o[i]
  BY <1>2, <1>4
<1>11. \A i \in k + 1 .. n + 1 : u[i] = o[i - 1]
  <2> SUFFICES ASSUME NEW i \in k + 1 .. n + 1 PROVE u[i] = o[i - 1]
    OBVIOUS
  <2>1. i - k \in 1 .. n - k + 1 /\ k + (i - k) - 1 = i - 1
    BY <1>1
  <2> QED BY <1>3, <1>4, <2>1
<1> QED BY <1>4, <1>8, <1>9, <1>10, <1>11 DEF n

\* No element is larger than one after it.
SortedBy(o, size) == \A i, j \in 1 .. Len(o) : i < j => size[o[i]] <= size[o[j]]

\* Inserting an element where it belongs leaves a sorted sequence.
LEMMA InsertedSorted ==
  ASSUME NEW S, NEW size, NEW o \in Seq(S), NEW x \in S, NEW k \in 1 .. Len(o) + 1,
         SortedBy(o, size),
         \A j \in 1 .. k - 1 : size[o[j]] <= size[x],
         \A j \in k .. Len(o) : size[x] <= size[o[j]]
  PROVE  SortedBy(InsertAt(o, k, x), size)
<1> DEFINE u == InsertAt(o, k, x)
           n == Len(o)
<1>1. /\ Len(u) = n + 1 /\ u[k] = x
      /\ \A i \in 1 .. k - 1 : u[i] = o[i]
      /\ \A i \in k + 1 .. n + 1 : u[i] = o[i - 1]
  BY InsertedIs
<1>2. n \in Nat /\ k \in 1 .. n + 1
  OBVIOUS
<1> HIDE DEF u
<1> SUFFICES ASSUME NEW i \in 1 .. n + 1, NEW j \in 1 .. n + 1, i < j
             PROVE  size[u[i]] <= size[u[j]]
  BY <1>1 DEF SortedBy, u
<1>3. \A a, b \in 1 .. n : a < b => size[o[a]] <= size[o[b]]
  BY DEF SortedBy
<1>4. /\ \A a \in 1 .. k - 1 : size[o[a]] <= size[x]
      /\ \A a \in k .. n : size[x] <= size[o[a]]
  OBVIOUS
<1> HIDE DEF n
<1>5. CASE j < k
  <2>1. i \in 1 .. k - 1 /\ j \in 1 .. k - 1 /\ i \in 1 .. n /\ j \in 1 .. n
    BY <1>2, <1>5
  <2> QED BY <1>1, <1>3, <2>1
<1>6. CASE j = k
  <2>1. i \in 1 .. k - 1
    BY <1>2, <1>6
  <2> QED BY <1>1, <1>4, <1>6, <2>1
<1>7. CASE j > k
  <2>1. j \in k + 1 .. n + 1 /\ j - 1 \in k .. n /\ j - 1 \in 1 .. n
    BY <1>2, <1>7
  <2>2. CASE i < k
    <3>1. i \in 1 .. k - 1 /\ i \in 1 .. n /\ i < j - 1
      BY <1>2, <1>7, <2>2
    <3> QED BY <1>1, <1>3, <2>1, <3>1
  <2>3. CASE i = k
    BY <1>1, <1>4, <2>1, <2>3
  <2>4. CASE i > k
    <3>1. i \in k + 1 .. n + 1 /\ i - 1 \in 1 .. n /\ i - 1 < j - 1
      BY <1>2, <2>4
    <3> QED BY <1>1, <1>3, <2>1, <3>1
  <2> QED BY <1>2, <2>2, <2>3, <2>4
<1> QED BY <1>2, <1>5, <1>6, <1>7

\* Sorting orders what it is given, by its size.
LEMMA OrdersAre ==
  ASSUME NEW S, IsFiniteSet(S), NEW size, NEW order \in Orders(S, size)
  PROVE  order \in Seq(S) /\ ToSet(order) = S /\ SortedBy(order, size)
<1> DEFINE m == SetToSeq(S)
           D == DOMAIN m
           n == Len(m)
           Acc == SUBSET Seq(S)
           Into(o, x) == {InsertAt(o, k, x) : k \in
                            {i \in 1 .. Len(o) + 1 :
                               /\ \A j \in 1 .. i - 1 : size[o[j]] <= size[x]
                               /\ \A j \in i .. Len(o) : size[x] <= size[o[j]]}}
           All(orders, x) == UNION {Into(o, x) : o \in orders}
           Op == [p \in Acc \X S |-> All(p[1], p[2])]
           Step(g) == [s \in SUBSET D |-> IF s = {} THEN {<<>>}
                         ELSE All(g[s \ {Max(s)}], m[Max(s)])]
           h == CHOOSE g : g = Step(g)
           Rel == {p \in Nat \X Acc : \A o \in p[2] : /\ ToSet(o) = {m[i] : i \in 1 .. p[1]}
                                                  /\ SortedBy(o, size)}
           OneMore(u, o, x) == /\ ToSet(u) = ToSet(o) \cup {x}
                               /\ SortedBy(o, size) => SortedBy(u, size)
<1>1. Orders(S, size) = h[D]
  BY DEF Orders, FoldLeft, MapThenFoldSet
<1>2. /\ m \in Seq(S) /\ n \in Nat /\ D = 1 .. n /\ \A i \in D : m[i] \in S
      /\ {m[i] : i \in D} = S
  BY MembersAre
<1>3. ASSUME NEW o \in Seq(S), NEW x \in S, NEW u \in Into(o, x)
      PROVE  u \in Seq(S) /\ OneMore(u, o, x)
  <2>1. PICK k \in 1 .. Len(o) + 1 : /\ u = InsertAt(o, k, x)
                                      /\ \A j \in 1 .. k - 1 : size[o[j]] <= size[x]
                                      /\ \A i \in k .. Len(o) : size[x] <= size[o[i]]
    OBVIOUS
  <2>2. u \in Seq(S) /\ ToSet(u) = ToSet(o) \cup {x}
    BY <2>1, InsertedIs
  <2>3. SortedBy(o, size) => SortedBy(u, size)
    BY <2>1, InsertedSorted
  <2> QED BY <2>2, <2>3
<1> HIDE DEF Into
<1>4. ASSUME NEW orders \in Acc, NEW x \in S
      PROVE  /\ All(orders, x) \in Acc
             /\ \A u \in All(orders, x) : \E o \in orders : OneMore(u, o, x)
  <2>1. \A u \in All(orders, x) : \E o \in orders : u \in Into(o, x)
    OBVIOUS
  <2>2. \A o \in orders : o \in Seq(S)
    OBVIOUS
  <2> HIDE DEF All, OneMore
  <2> QED BY <1>3, <2>1, <2>2
<1>5. {<<>>} \in Acc
  OBVIOUS
<1> HIDE DEF m, Acc, All
<1>6. Positions(D) /\ n \in Nat
  BY <1>2, PositionsAre
<1>7. \A s \in SUBSET D : s # {} => Max(s) \in s /\ m[Max(s)] \in S
  BY <1>2, <1>6 DEF Positions
<1> HIDE DEF D
<1>8. h = Step(h)
  <2>1. Op \in [Acc \X S -> Acc]
    BY <1>4
  <2>2. \A orders \in Acc, x \in S : Op[orders, x] = All(orders, x)
    OBVIOUS
  <2> HIDE DEF Op
  <2>3. PICK g \in [SUBSET D -> Acc] : Folded(Op, {<<>>}, m, D, g)
    BY <1>2, <1>5, <2>1, FoldExists DEF D
  <2>4. \A s \in SUBSET D :
          g[s] = IF s = {} THEN {<<>>} ELSE All(g[s \ {Max(s)}], m[Max(s)])
    <3> SUFFICES ASSUME NEW s \in SUBSET D, s # {}
                 PROVE  g[s] = All(g[s \ {Max(s)}], m[Max(s)])
      BY <2>3 DEF Folded
    <3>1. g[s] = Op[g[s \ {Max(s)}], m[Max(s)]]
      BY <2>3 DEF Folded
    <3>2. g[s \ {Max(s)}] \in Acc /\ m[Max(s)] \in S
      BY <1>7, <2>3
    <3> QED BY <2>2, <3>1, <3>2
  <2>5. g = Step(g)
    BY <2>3, <2>4
  <2> HIDE DEF Step
  <2> QED BY <2>5
<1> HIDE DEF h
<1>9. <<0, h[{}]>> \in Rel
  <2>1. h[{}] = {<<>>}
    BY <1>8
  <2>2. \A o \in {<<>>} : ToSet(o) = {m[i] : i \in 1 .. 0} /\ SortedBy(o, size)
    BY DEF ToSet, SortedBy
  <2> QED BY <1>5, <2>1, <2>2
<1>10. ASSUME NEW k \in 1 .. n, <<k - 1, h[1 .. k - 1]>> \in Rel
       PROVE  <<k, h[1 .. k]>> \in Rel
  <2> DEFINE orders == h[1 .. k - 1]
  <2>1. 1 .. k \in SUBSET D /\ k \in Nat \ {0} /\ k \in D
    BY <1>2, <1>6
  <2>2. Max(1 .. k) = k /\ (1 .. k) \ {k} = 1 .. k - 1 /\ 1 .. k # {}
    BY <2>1, LastPosition
  <2>3. h[1 .. k] = All(h[(1 .. k) \ {Max(1 .. k)}], m[Max(1 .. k)])
    BY <1>8, <2>1, <2>2
  <2>4. h[1 .. k] = All(orders, m[k])
    BY <2>2, <2>3
  <2>5. /\ orders \in Acc
        /\ \A o \in orders : ToSet(o) = {m[i] : i \in 1 .. k - 1} /\ SortedBy(o, size)
    BY <1>10
  <2> HIDE DEF orders
  <2>6. h[1 .. k] \in Acc /\ \A u \in h[1 .. k] : \E o \in orders : OneMore(u, o, m[k])
    <3> HIDE DEF OneMore
    <3>1. m[k] \in S
      BY <1>2, <2>1
    <3>2. /\ All(orders, m[k]) \in Acc
          /\ \A u \in All(orders, m[k]) : \E o \in orders : OneMore(u, o, m[k])
      BY <1>4, <2>5, <3>1
    <3> QED BY <2>4, <3>2
  <2>7. {m[i] : i \in 1 .. k} = {m[i] : i \in 1 .. k - 1} \cup {m[k]}
    <3>1. \A i : i \in 1 .. k <=> i \in 1 .. k - 1 \/ i = k
      BY <2>1
    <3> QED BY <3>1
  <2>8. \A u \in h[1 .. k] : ToSet(u) = {m[i] : i \in 1 .. k} /\ SortedBy(u, size)
    <3> SUFFICES ASSUME NEW u \in h[1 .. k]
                 PROVE  ToSet(u) = {m[i] : i \in 1 .. k} /\ SortedBy(u, size)
      OBVIOUS
    <3>1. PICK o \in orders : OneMore(u, o, m[k])
      BY <2>6
    <3>2. ToSet(o) = {m[i] : i \in 1 .. k - 1} /\ SortedBy(o, size)
      BY <2>5
    <3>3. ToSet(u) = ToSet(o) \cup {m[k]} /\ SortedBy(u, size)
      BY <3>1, <3>2
    <3> QED BY <2>7, <3>2, <3>3
  <2>9. k \in Nat
    BY <2>1
  <2> QED BY <2>6, <2>8, <2>9
<1>11. <<n, h[1 .. n]>> \in Rel
  <2> HIDE DEF Rel, n
  <2> QED BY <1>6, <1>9, <1>10, FoldRuns
<1> QED BY <1>1, <1>2, <1>11 DEF Acc

\* y comes after x in the list, and does not compare with it.
KeptAfter(sorted, y, x) ==
  \E i, j \in DOMAIN sorted :
    i < j /\ sorted[i] = x /\ sorted[j] = y /\ ~ CompareSubpaths(y, x)

\* simplify_subpaths keeps one of the sub-sequences for each, and of two that it
\* keeps the later does not compare with the earlier.
LEMMA RemainingAre ==
  ASSUME NEW S, NEW sorted \in Seq(S)
  PROVE  LET left == RemainingSeqs(sorted)
         IN  /\ left \subseteq ToSet(sorted)
             /\ \A x \in ToSet(sorted) : \E k \in left : CompareSubpaths(x, k)
             /\ \A x, y \in left :
                  x = y \/ KeptAfter(sorted, y, x) \/ KeptAfter(sorted, x, y)
<1> DEFINE D == DOMAIN sorted
           n == Len(sorted)
           Acc == SUBSET ToSet(sorted)
           E == ToSet(sorted)
           More(kept, l) == IF \E s \in kept : CompareSubpaths(l, s) THEN kept ELSE kept \cup {l}
           Op == [p \in Acc \X E |-> More(p[1], p[2])]
           Step(g) == [s \in SUBSET D |-> IF s = {} THEN {}
                         ELSE More(g[s \ {Max(s)}], sorted[Max(s)])]
           h == CHOOSE g : g = Step(g)
           Kept(s, left) ==
             /\ \A x \in left : \E i \in s : x = sorted[i]
             /\ \A i \in s : \E k \in left : CompareSubpaths(sorted[i], k)
             /\ \A x, y \in left :
                  x = y \/ KeptAfter(sorted, y, x) \/ KeptAfter(sorted, x, y)
           Rel == {p \in Nat \X Acc : Kept(1 .. p[1], p[2])}
<1>1. RemainingSeqs(sorted) = h[D]
  BY DEF RemainingSeqs, FoldLeft, MapThenFoldSet
<1>2. n \in Nat /\ D = 1 .. n /\ sorted \in Seq(E) /\ \A i \in D : sorted[i] \in E
  BY DEF ToSet
<1>3. \A kept \in Acc, l \in E : More(kept, l) \in Acc
  OBVIOUS
<1>4. {} \in Acc
  OBVIOUS
<1>11. E = {sorted[i] : i \in D}
  BY DEF ToSet
<1>12. ASSUME NEW s \in SUBSET D, NEW i \in s, \A j \in s \ {i} : j < i,
              NEW left \in Acc, Kept(s \ {i}, left)
       PROVE  Kept(s, More(left, sorted[i]))
  <2> DEFINE l == sorted[i]
  <2>1. i \in D /\ \A j \in s : j \in D
    OBVIOUS
  <2> HIDE DEF D
  <2>2. CASE \E k \in left : CompareSubpaths(l, k)
    <3>1. More(left, l) = left
      BY <2>2
    <3> HIDE DEF More
    <3>2. \A j \in s : \E k \in left : CompareSubpaths(sorted[j], k)
      <4> SUFFICES ASSUME NEW j \in s
                   PROVE  \E k \in left : CompareSubpaths(sorted[j], k)
        OBVIOUS
      <4> QED BY <1>12, <2>2
    <3>3. \A x \in left : \E j \in s : x = sorted[j]
      BY <1>12
    <3> QED BY <1>12, <3>1, <3>2, <3>3
  <2>3. CASE ~ \E k \in left : CompareSubpaths(l, k)
    <3>1. More(left, l) = left \cup {l}
      BY <2>3
    <3> HIDE DEF More, l
    <3>2. CompareSubpaths(l, l) /\ l = sorted[i]
      BY DEF CompareSubpaths, l
    <3>3. \A j \in s : \E k \in left \cup {l} : CompareSubpaths(sorted[j], k)
      <4> SUFFICES ASSUME NEW j \in s
                   PROVE  \E k \in left \cup {l} : CompareSubpaths(sorted[j], k)
        OBVIOUS
      <4>1. CASE j = i
        BY <3>2, <4>1
      <4>2. CASE j # i
        BY <1>12, <4>2
      <4> QED BY <4>1, <4>2
    <3>4. \A x \in left \cup {l} : \E j \in s : x = sorted[j]
      BY <1>12, <3>2
    <3>5. \A x \in left : KeptAfter(sorted, l, x)
      <4> SUFFICES ASSUME NEW x \in left PROVE KeptAfter(sorted, l, x)
        OBVIOUS
      <4>1. PICK j \in s \ {i} : x = sorted[j]
        BY <1>12
      <4>2. j < i /\ j \in D /\ ~ CompareSubpaths(l, x)
        BY <1>12, <2>1, <2>3, <4>1
      <4> QED BY <2>1, <3>2, <4>1, <4>2 DEF KeptAfter, D
    <3>6. \A x, y \in left \cup {l} :
            x = y \/ KeptAfter(sorted, y, x) \/ KeptAfter(sorted, x, y)
      BY <1>12, <3>5
    <3> HIDE DEF KeptAfter
    <3> QED BY <3>1, <3>2, <3>3, <3>4, <3>6
  <2> QED BY <2>2, <2>3
<1> HIDE DEF More, E, Acc, Kept
<1>5. Positions(D)
  BY <1>2, PositionsAre
<1>6. \A s \in SUBSET D : s # {} => Max(s) \in s /\ sorted[Max(s)] \in E
  BY <1>2, <1>5 DEF Positions
<1> HIDE DEF D
<1>7. h = Step(h)
  <2>1. Op \in [Acc \X E -> Acc]
    BY <1>3
  <2>2. \A kept \in Acc, l \in E : Op[kept, l] = More(kept, l)
    OBVIOUS
  <2> HIDE DEF Op
  <2>3. PICK g \in [SUBSET D -> Acc] : Folded(Op, {}, sorted, D, g)
    BY <1>2, <1>4, <2>1, FoldExists DEF D
  <2>4. \A s \in SUBSET D :
          g[s] = IF s = {} THEN {} ELSE More(g[s \ {Max(s)}], sorted[Max(s)])
    <3> SUFFICES ASSUME NEW s \in SUBSET D, s # {}
                 PROVE  g[s] = More(g[s \ {Max(s)}], sorted[Max(s)])
      BY <2>3 DEF Folded
    <3>1. g[s] = Op[g[s \ {Max(s)}], sorted[Max(s)]]
      BY <2>3 DEF Folded
    <3>2. g[s \ {Max(s)}] \in Acc /\ sorted[Max(s)] \in E
      BY <1>6, <2>3
    <3> QED BY <2>2, <3>1, <3>2
  <2>5. g = Step(g)
    BY <2>3, <2>4
  <2> HIDE DEF Step
  <2> QED BY <2>5
<1> HIDE DEF h
<1>8. <<0, h[{}]>> \in Rel
  <2>1. h[{}] = {} /\ 1 .. 0 = {}
    BY <1>7
  <2>2. Kept({}, {})
    BY DEF Kept
  <2> QED BY <1>4, <2>1, <2>2
<1>9. ASSUME NEW k \in 1 .. n, <<k - 1, h[1 .. k - 1]>> \in Rel
      PROVE  <<k, h[1 .. k]>> \in Rel
  <2> DEFINE left == h[1 .. k - 1]
  <2>1. 1 .. k \in SUBSET D /\ k \in Nat \ {0} /\ k \in D /\ k \in 1 .. k
    BY <1>2
  <2>2. Max(1 .. k) = k /\ (1 .. k) \ {k} = 1 .. k - 1 /\ 1 .. k # {}
    BY <2>1, LastPosition
  <2>3. h[1 .. k] = More(h[(1 .. k) \ {Max(1 .. k)}], sorted[Max(1 .. k)])
    BY <1>7, <2>1, <2>2
  <2>4. h[1 .. k] = More(left, sorted[k])
    BY <2>2, <2>3
  <2>5. left \in Acc /\ Kept(1 .. k - 1, left)
    BY <1>9
  <2> HIDE DEF left
  <2>6. \A j \in (1 .. k) \ {k} : j < k
    BY <2>1
  <2>7. Kept(1 .. k, More(left, sorted[k]))
    BY <1>12, <2>1, <2>2, <2>5, <2>6
  <2>8. h[1 .. k] \in Acc
    BY <1>2, <1>3, <2>1, <2>4, <2>5
  <2> QED BY <2>1, <2>4, <2>7, <2>8
<1>10. <<n, h[1 .. n]>> \in Rel
  <2> HIDE DEF Rel, n
  <2> QED BY <1>2, <1>8, <1>9, FoldRuns
<1>13. h[D] \in Acc /\ Kept(D, h[D])
  BY <1>2, <1>10
<1> QED BY <1>1, <1>11, <1>13 DEF Acc, Kept, E

\* The path of a sub-sequence without its last symbol.
LEMMA BeforeIs ==
  ASSUME NEW A, NEW s \in SubsOver(A, Nat)
  PROVE  /\ s.path \in Seq(A) /\ Len(s.path) \in Nat \ {0}
         /\ Before(s) \in Seq(A) /\ Len(Before(s)) = Len(s.path) - 1
         /\ \A k \in 1 .. Len(s.path) - 1 : Before(s)[k] = s.path[k]
         /\ LastSymbol(s) = s.path[Len(s.path)]
<1> DEFINE p == s.path
           n == Len(p)
<1>1. p \in Seq(A) /\ p # <<>>
  BY DEF SubsOver
<1> HIDE DEF p
<1>2. n \in Nat \ {0}
  BY <1>1
<1>3. Before(s) = SubSeq(p, 1, n - 1)
  BY DEF Before, Front, p
<1>4. LastSymbol(s) = p[n]
  BY DEF LastSymbol, p
<1>5. CASE n = 1
  <2>1. SubSeq(p, 1, n - 1) = <<>>
    BY <1>1, <1>5
  <2> QED BY <1>1, <1>2, <1>3, <1>4, <1>5, <2>1 DEF p
<1>6. CASE n # 1
  <2>1. /\ 1 \in Nat \ {0} /\ n - 1 \in Nat /\ 1 <= n - 1 /\ n - 1 <= n
        /\ (n - 1) - 1 + 1 = n - 1
    <3> HIDE DEF n
    <3>1. n \in Nat /\ n >= 2
      BY <1>2, <1>6
    <3> QED BY <3>1
  <2>2. /\ SubSeq(p, 1, n - 1) \in Seq(A) /\ Len(SubSeq(p, 1, n - 1)) = (n - 1) - 1 + 1
        /\ \A i \in 1 .. (n - 1) - 1 + 1 : SubSeq(p, 1, n - 1)[i] = p[1 + i - 1]
    BY <1>1, <2>1, SubSeqIs
  <2>3. \A i \in 1 .. n - 1 : 1 + i - 1 = i
    OBVIOUS
  <2> QED BY <1>1, <1>2, <1>3, <1>4, <2>1, <2>2, <2>3 DEF p
<1> QED BY <1>5, <1>6

\* The least of a nonempty set of numbers.
LEMMA MinIs ==
  ASSUME NEW T, T \subseteq Nat, T # {}
  PROVE  Min(T) \in T /\ \A y \in T : Min(T) <= y
BY LeastNat DEF Min

\* m is a part of s: it ends alike, and its path is a part of that of s.
LEMMA IsPartIs ==
  ASSUME NEW m, NEW s
  PROVE  IsPart(m, s) <=> Ending(m) = Ending(s) /\ PartOf(m.path, s.path)
BY DEF IsPart, PartOf, Places

\* The scan of compare_subpaths for x from idx on.
Scan(long, idx, x) ==
  IF \E k \in DOMAIN Before(long) : k >= idx /\ Before(long)[k] = x
  THEN Min({k \in DOMAIN long.path : long.path[k] = x})
  ELSE Len(long.path) + 1

\* compare_subpaths finds every part, although its scan goes backwards.
LEMMA PartCompares ==
  ASSUME NEW A, NEW s \in SubsOver(A, Nat), NEW t \in SubsOver(A, Nat), IsPart(t, s)
  PROVE  CompareSubpaths(s, t)
<1> DEFINE p == s.path
           q == t.path
           u == Before(t)
           n == Len(u)
           D == DOMAIN u
           Acc == 1 .. Len(p) + 1
           Op == [x \in Acc \X A |-> Scan(s, x[1], x[2])]
           Step(g) == [d \in SUBSET D |-> IF d = {} THEN 1
                         ELSE Scan(s, g[d \ {Max(d)}], u[Max(d)])]
           h == CHOOSE g : g = Step(g)
<1>1. Ending(s) = Ending(t) /\ h[D] <= Len(p) => CompareSubpaths(s, t)
  BY DEF CompareSubpaths, FoldLeft, MapThenFoldSet, Scan
<1>2. Ending(s) = Ending(t) /\ PartOf(q, p)
  BY IsPartIs
<1>3. PICK at \in [DOMAIN q -> DOMAIN p] : Places(at, q, p)
  BY <1>2 DEF PartOf
<1>4. /\ p \in Seq(A) /\ Len(p) \in Nat \ {0} /\ Before(s) \in Seq(A)
      /\ Len(Before(s)) = Len(p) - 1 /\ \A k \in 1 .. Len(p) - 1 : Before(s)[k] = p[k]
  BY BeforeIs
<1>5. /\ q \in Seq(A) /\ Len(q) \in Nat \ {0} /\ u \in Seq(A)
      /\ Len(u) = Len(q) - 1 /\ \A k \in 1 .. Len(q) - 1 : u[k] = q[k]
  BY BeforeIs
<1>6. /\ DOMAIN p = 1 .. Len(p) /\ DOMAIN q = 1 .. Len(q) /\ D = 1 .. n /\ n \in Nat
      /\ n = Len(q) - 1 /\ DOMAIN Before(s) = 1 .. Len(p) - 1
      /\ \A i \in D : u[i] \in A
  BY <1>4, <1>5
<1> HIDE DEF p, q, u, n
<1>7. ASSUME NEW idx \in Acc, NEW x \in A
      PROVE  Scan(s, idx, x) \in Acc
  <2> DEFINE T == {k \in DOMAIN p : p[k] = x}
             found == \E k \in DOMAIN Before(s) : k >= idx /\ Before(s)[k] = x
  <2>1. CASE found
    <3>1. Scan(s, idx, x) = Min(T)
      BY <2>1 DEF Scan, p
    <3>2. PICK k \in 1 .. Len(p) - 1 : Before(s)[k] = x
      BY <1>6, <2>1
    <3>3. T \subseteq Nat /\ k \in T
      BY <1>4, <1>6, <3>2
    <3> HIDE DEF T
    <3>4. Min(T) \in T
      BY <3>3, MinIs
    <3> QED BY <1>4, <1>6, <3>1, <3>4 DEF T
  <2>2. CASE ~ found
    <3>1. Scan(s, idx, x) = Len(p) + 1
      BY <2>2 DEF Scan, p
    <3> QED BY <1>4, <3>1
  <2> QED BY <2>1, <2>2
<1>8. 1 \in Acc
  BY <1>4
<1>9. Positions(D)
  BY <1>6, PositionsAre
<1>10. \A d \in SUBSET D : d # {} => Max(d) \in d /\ u[Max(d)] \in A
  BY <1>6, <1>9 DEF Positions
<1>11. h = Step(h)
  <2>1. Op \in [Acc \X A -> Acc]
    <3> HIDE DEF Acc
    <3> QED BY <1>7
  <2>2. \A idx \in Acc, x \in A : Op[idx, x] = Scan(s, idx, x)
    OBVIOUS
  <2> HIDE DEF Op, Acc
  <2>3. PICK g \in [SUBSET D -> Acc] : Folded(Op, 1, u, D, g)
    BY <1>5, <1>8, <2>1, FoldExists DEF D
  <2> HIDE DEF D
  <2>4. \A d \in SUBSET D :
          g[d] = IF d = {} THEN 1 ELSE Scan(s, g[d \ {Max(d)}], u[Max(d)])
    <3> SUFFICES ASSUME NEW d \in SUBSET D, d # {}
                 PROVE  g[d] = Scan(s, g[d \ {Max(d)}], u[Max(d)])
      BY <2>3 DEF Folded
    <3>1. g[d] = Op[g[d \ {Max(d)}], u[Max(d)]]
      BY <2>3 DEF Folded
    <3>2. g[d \ {Max(d)}] \in Acc /\ u[Max(d)] \in A
      BY <1>10, <2>3
    <3> QED BY <2>2, <3>1, <3>2
  <2>5. g = Step(g)
    BY <2>3, <2>4
  <2> HIDE DEF Step
  <2> QED BY <2>5
<1> HIDE DEF h
<1> DEFINE upTo(k) == IF k = 0 THEN 1 ELSE at[k]
           Rel == {r \in (0 .. n) \X Acc : r[2] <= upTo(r[1])}
<1>12. <<0, h[{}]>> \in Rel
  BY <1>6, <1>8, <1>11
<1>13. ASSUME NEW k \in 1 .. n, <<k - 1, h[1 .. k - 1]>> \in Rel
       PROVE  <<k, h[1 .. k]>> \in Rel
  <2> DEFINE idx == h[1 .. k - 1]
             x == u[k]
             T == {j \in DOMAIN p : p[j] = x}
  <2>1. /\ 1 .. k \in SUBSET D /\ k \in Nat \ {0} /\ k \in D /\ k - 1 \in 0 .. n
        /\ k \in 1 .. Len(q) /\ k + 1 \in 1 .. Len(q) /\ k < k + 1 /\ k \in 1 .. Len(q) - 1
    BY <1>6
  <2>2. Max(1 .. k) = k /\ (1 .. k) \ {k} = 1 .. k - 1 /\ 1 .. k # {}
    BY <2>1, LastPosition
  <2>3. h[1 .. k] = Scan(s, h[(1 .. k) \ {Max(1 .. k)}], u[Max(1 .. k)])
    BY <1>11, <2>1, <2>2
  <2>4. h[1 .. k] = Scan(s, idx, x)
    BY <2>2, <2>3
  <2>5. idx \in Acc /\ idx <= upTo(k - 1)
    BY <1>13
  <2>6. x \in A
    BY <1>6, <2>1
  <2>7. /\ at[k] \in 1 .. Len(p) /\ at[k + 1] \in 1 .. Len(p) /\ at[k] < at[k + 1]
        /\ p[at[k]] = q[k]
    BY <1>3, <1>6, <2>1 DEF Places
  <2>8. at[k] \in 1 .. Len(p) - 1
    BY <1>4, <2>7
  <2>9. upTo(k - 1) <= at[k]
    <3>1. CASE k = 1
      BY <2>7, <3>1
    <3>2. CASE k # 1
      <4>1. k - 1 \in 1 .. Len(q) /\ k - 1 < k /\ k - 1 # 0
        BY <1>6, <2>1, <3>2
      <4>2. at[k - 1] < at[k] /\ at[k - 1] \in 1 .. Len(p)
        BY <1>3, <1>6, <2>1, <4>1 DEF Places
      <4> QED BY <2>7, <4>1, <4>2
    <3> QED BY <3>1, <3>2
  <2>10. upTo(k - 1) \in Nat
    <3>1. CASE k = 1
      BY <3>1
    <3>2. CASE k # 1
      <4>1. k - 1 \in 1 .. Len(q) /\ k - 1 # 0
        BY <1>6, <2>1, <3>2
      <4>2. at[k - 1] \in 1 .. Len(p)
        BY <1>3, <1>6, <4>1
      <4> QED BY <1>4, <4>1, <4>2
    <3> QED BY <3>1, <3>2
  <2> HIDE DEF idx, x, upTo
  <2>11. at[k] >= idx
    BY <2>5, <2>7, <2>9, <2>10
  <2>12. p[at[k]] = x /\ Before(s)[at[k]] = x
    BY <1>4, <1>5, <2>1, <2>7, <2>8 DEF x
  <2>13. \E j \in DOMAIN Before(s) : j >= idx /\ Before(s)[j] = x
    BY <1>6, <2>8, <2>11, <2>12
  <2>14. h[1 .. k] = Min(T)
    BY <2>4, <2>13 DEF Scan, p
  <2>15. T \subseteq Nat /\ at[k] \in T
    BY <1>4, <1>6, <2>7, <2>12
  <2>16. Min(T) <= at[k]
    <3> HIDE DEF T
    <3> QED BY <2>15, MinIs
  <2>17. h[1 .. k] \in Acc
    BY <1>7, <2>4, <2>5, <2>6
  <2>18. k \in 0 .. n /\ upTo(k) = at[k]
    BY <2>1 DEF upTo
  <2> QED BY <2>14, <2>16, <2>17, <2>18
<1>14. <<n, h[1 .. n]>> \in Rel
  <2> HIDE DEF Rel
  <2> QED BY <1>6, <1>12, <1>13, FoldRuns
<1>15. h[D] <= Len(p)
  <2>1. h[D] <= upTo(n) /\ h[D] \in Acc
    BY <1>6, <1>14
  <2>2. CASE n = 0
    BY <1>4, <2>1, <2>2
  <2>3. CASE n # 0
    <3>1. n \in 1 .. Len(q)
      BY <1>6, <2>3
    <3>2. at[n] \in 1 .. Len(p)
      BY <1>3, <1>6, <3>1
    <3> QED BY <1>4, <2>1, <2>3, <3>2
  <2> QED BY <2>2, <2>3
<1> QED BY <1>1, <1>2, <1>15

\* Each member of the rule ends like a member of the other one.
EndsLike(rule, other) == \A m \in rule : \E s \in other : Ending(m) = Ending(s)

\* remove_included_seqs removes a rule only for one that ends alike.
LEMMA RemovedAre ==
  ASSUME NEW S, NEW sorted \in Seq(S)
  PROVE  /\ RemoveIncludedSeqs(sorted) \subseteq ToSet(sorted)
         /\ \A r \in ToSet(sorted) : \E k \in RemoveIncludedSeqs(sorted) : EndsLike(k, r)
<1> DEFINE D == DOMAIN sorted
           n == Len(sorted)
           E == ToSet(sorted)
           Acc == SUBSET E
           More(kept, l) == IF \E r \in kept : IncludingSeqs(r, l) THEN kept ELSE kept \cup {l}
           Op == [p \in Acc \X E |-> More(p[1], p[2])]
           Step(g) == [s \in SUBSET D |-> IF s = {} THEN {}
                         ELSE More(g[s \ {Max(s)}], sorted[Max(s)])]
           h == CHOOSE g : g = Step(g)
           Rel == {p \in (SUBSET D) \X Acc :
                     \A i \in p[1] : \E k \in p[2] : EndsLike(k, sorted[i])}
<1>1. RemoveIncludedSeqs(sorted) = h[D]
  BY DEF RemoveIncludedSeqs, FoldLeft, MapThenFoldSet
<1>2. n \in Nat /\ D = 1 .. n /\ sorted \in Seq(E) /\ \A i \in D : sorted[i] \in E
  BY DEF ToSet
<1>3. ASSUME NEW kept \in Acc, NEW l \in E
      PROVE  /\ More(kept, l) \in Acc /\ kept \subseteq More(kept, l)
             /\ \E k \in More(kept, l) : EndsLike(k, l)
  <2>1. CASE \E r \in kept : IncludingSeqs(r, l)
    <3>1. PICK r \in kept : IncludingSeqs(r, l)
      BY <2>1
    <3>2. EndsLike(r, l)
      <4> SUFFICES ASSUME NEW m \in r PROVE \E s \in l : Ending(m) = Ending(s)
        BY DEF EndsLike
      <4>1. CASE m \in l
        BY <4>1
      <4>2. CASE m \notin l
        BY <3>1, <4>2 DEF IncludingSeqs, IncludingSequence
      <4> QED BY <4>1, <4>2
    <3>3. More(kept, l) = kept
      BY <2>1
    <3> QED BY <3>2, <3>3
  <2>2. CASE ~ \E r \in kept : IncludingSeqs(r, l)
    <3>1. More(kept, l) = kept \cup {l}
      BY <2>2
    <3>2. EndsLike(l, l)
      BY DEF EndsLike
    <3> QED BY <3>1, <3>2
  <2> QED BY <2>1, <2>2
<1>4. {} \in Acc
  OBVIOUS
<1> HIDE DEF More, E, Acc
<1>5. Positions(D)
  BY <1>2, PositionsAre
<1>6. \A s \in SUBSET D : s # {} => Max(s) \in s /\ sorted[Max(s)] \in E
  BY <1>2, <1>5 DEF Positions
<1>11. E = {sorted[i] : i \in D}
  BY DEF E, ToSet
<1> HIDE DEF D
<1>7. h = Step(h)
  <2>1. Op \in [Acc \X E -> Acc]
    BY <1>3
  <2>2. \A kept \in Acc, l \in E : Op[kept, l] = More(kept, l)
    OBVIOUS
  <2> HIDE DEF Op
  <2>3. PICK g \in [SUBSET D -> Acc] : Folded(Op, {}, sorted, D, g)
    BY <1>2, <1>4, <2>1, FoldExists DEF D
  <2>4. \A s \in SUBSET D :
          g[s] = IF s = {} THEN {} ELSE More(g[s \ {Max(s)}], sorted[Max(s)])
    <3> SUFFICES ASSUME NEW s \in SUBSET D, s # {}
                 PROVE  g[s] = More(g[s \ {Max(s)}], sorted[Max(s)])
      BY <2>3 DEF Folded
    <3>1. g[s] = Op[g[s \ {Max(s)}], sorted[Max(s)]]
      BY <2>3 DEF Folded
    <3>2. g[s \ {Max(s)}] \in Acc /\ sorted[Max(s)] \in E
      BY <1>6, <2>3
    <3> QED BY <2>2, <3>1, <3>2
  <2>5. g = Step(g)
    BY <2>3, <2>4
  <2> HIDE DEF Step
  <2> QED BY <2>5
<1> HIDE DEF h
<1>8. <<{}, h[{}]>> \in Rel
  BY <1>4, <1>7
<1>9. ASSUME NEW s \in SUBSET D, s # {}, <<s \ {Max(s)}, h[s \ {Max(s)}]>> \in Rel
      PROVE  <<s, h[s]>> \in Rel
  <2> DEFINE kept == h[s \ {Max(s)}]
             l == sorted[Max(s)]
  <2>1. h[s] = More(kept, l)
    BY <1>7, <1>9
  <2>2. kept \in Acc /\ l \in E /\ \A i \in s \ {Max(s)} : \E k \in kept : EndsLike(k, sorted[i])
    BY <1>6, <1>9
  <2> HIDE DEF kept
  <2>3. /\ h[s] \in Acc /\ kept \subseteq h[s] /\ \E k \in h[s] : EndsLike(k, l)
    BY <1>3, <2>1, <2>2
  <2>4. \A i \in s : \E k \in h[s] : EndsLike(k, sorted[i])
    BY <2>2, <2>3
  <2> QED BY <2>3, <2>4
<1>10. <<D, h[D]>> \in Rel
  <2> HIDE DEF Rel
  <2> QED BY <1>5, <1>8, <1>9, FoldKeeps
<1> QED BY <1>1, <1>10, <1>11 DEF Acc, E

-----------------------------------------------------------------------------
(* One update of the rules.                                                 *)

FiniteSubsets(S) == {T \in SUBSET S : IsFiniteSet(T)}

\* What the clusters hold, and what is made of it.
DictSubs   == {s \in SubsOver(DOMAIN RuleDict, Nat) : Derivable(s)}
InputLists == FiniteSubsets(FiniteSubsets(DictSubs))
RuleLists  == FiniteSubsets(FiniteSubsets(DictSubs) \ {{}})

\* All sub-sequences of finitely many lists.
LEMMA UnionOfLists ==
  ASSUME NEW S, NEW lists \in FiniteSubsets(FiniteSubsets(S))
  PROVE  UNION lists \in FiniteSubsets(S)
<1>1. IsFiniteSet(lists) /\ \A l \in lists : l \subseteq S /\ IsFiniteSet(l)
  BY DEF FiniteSubsets
<1>2. IsFiniteSet(UNION lists)
  BY <1>1, FS_UNION
<1>3. UNION lists \subseteq S
  BY <1>1
<1> QED BY <1>2, <1>3 DEF FiniteSubsets

\* Shortening leaves a path down the same tree.
LEMMA RefinedDerivable ==
  ASSUME NEW s \in DictSubs
  PROVE  Refined(s) \in DictSubs
<1> DEFINE A == DOMAIN RuleDict
           p == s.path
           q == RefinedPath(p)
           t == Refined(s)
           Leads(a, b) == a # b /\ \E alt \in Range(RuleDict[a]) : b \in Range(alt.exp)
<1>1. /\ p \in Seq(A) \ {<<>>} /\ s.dn \in Nat
      /\ \A k \in 1 .. Len(p) - 1 : Leads(p[k], p[k + 1])
      /\ \E alt \in Range(RuleDict[p[Len(p)]]) : s.dn = alt.dn
  BY DEF DictSubs, SubsOver, Derivable, LastSymbol
<1>2. /\ q \in Seq(A) \ {<<>>} /\ q[Len(q)] = p[Len(p)] /\ NeighboursKept(q, p)
  BY <1>1, RefinedPathPart
<1>3. t = [path |-> q, dn |-> s.dn]
  BY DEF Refined, SubSequence
<1> HIDE DEF t, q, p
<1>4. t \in SubsOver(A, Nat) /\ t.path = q /\ t.dn = s.dn
  BY <1>1, <1>2, <1>3 DEF SubsOver
<1>5. \A k \in 1 .. Len(q) - 1 : Leads(q[k], q[k + 1])
  <2> SUFFICES ASSUME NEW k \in 1 .. Len(q) - 1 PROVE Leads(q[k], q[k + 1])
    OBVIOUS
  <2>1. PICK j \in 1 .. Len(p) - 1 : p[j] = q[k] /\ p[j + 1] = q[k + 1]
    BY <1>2 DEF NeighboursKept
  <2> HIDE DEF Leads
  <2> QED BY <1>1, <2>1
<1>6. \E alt \in Range(RuleDict[LastSymbol(t)]) : t.dn = alt.dn
  BY <1>1, <1>2, <1>4 DEF LastSymbol
<1> HIDE DEF Leads
<1>7. \A k \in 1 .. Len(t.path) - 1 : Leads(t.path[k], t.path[k + 1])
  BY <1>4, <1>5
<1>8. Derivable(t)
  BY <1>4, <1>6, <1>7 DEF Derivable, SubsOver, Leads
<1> QED BY <1>4, <1>8 DEF DictSubs, t

\* Being a part is transitive, and no two have each other as parts.
LEMMA PartOfThem ==
  ASSUME NEW A, NEW a \in SubsOver(A, Nat), NEW b \in SubsOver(A, Nat), IsPart(a, b)
  PROVE  /\ \A c \in SubsOver(A, Nat) : IsPart(b, c) => IsPart(a, c)
         /\ Len(a.path) <= Len(b.path)
         /\ Len(b.path) <= Len(a.path) => a = b
<1>1. Ending(a) = Ending(b) /\ PartOf(a.path, b.path)
  BY IsPartIs
<1>2. a.path \in Seq(A) /\ b.path \in Seq(A) /\ a = [path |-> a.path, dn |-> a.dn]
      /\ b = [path |-> b.path, dn |-> b.dn]
  BY DEF SubsOver
<1>3. ASSUME NEW c \in SubsOver(A, Nat), IsPart(b, c) PROVE IsPart(a, c)
  <2>1. Ending(b) = Ending(c) /\ PartOf(b.path, c.path) /\ c.path \in Seq(A)
    BY <1>3, IsPartIs DEF SubsOver
  <2>2. PartOf(a.path, c.path)
    BY <1>1, <1>2, <2>1, PartOfPart
  <2> QED BY <1>1, <2>1, <2>2, IsPartIs
<1>4. Len(a.path) <= Len(b.path)
  BY <1>1, <1>2, PartOfLength
<1>5. ASSUME Len(b.path) <= Len(a.path) PROVE a = b
  <2>1. a.path = b.path
    BY <1>1, <1>2, <1>5, PartOfSame
  <2>2. a.dn = b.dn
    BY <1>1 DEF Ending
  <2> QED BY <1>2, <2>1, <2>2
<1> QED BY <1>3, <1>4, <1>5

\* A rule captured from a list is a part of that list: what compares with a
\* sub-sequence of the list is that sub-sequence.
LEMMA FoundInList ==
  ASSUME NEW lists \in InputLists, NEW sorted \in ByLength(UNION lists),
         NEW captured, captured \subseteq RemainingSeqs(sorted), ~ Confused(UNION lists),
         NEW l \in lists, NEW s \in captured, NEW t \in l, CompareSubpaths(s, t)
  PROVE  s \in l
<1> DEFINE A == DOMAIN RuleDict
           all == UNION lists
           size == [x \in all |-> Len(x.path)]
           left == RemainingSeqs(sorted)
<1>1. all \subseteq SubsOver(A, Nat) /\ IsFiniteSet(all)
  BY UnionOfLists DEF InputLists, FiniteSubsets, DictSubs
<1>2. \A x, y \in all : CompareSubpaths(x, y) => IsPart(y, x)
  BY DEF Confused
<1>3. sorted \in Orders(all, size) /\ t \in all
  BY DEF ByLength
<1> HIDE DEF all
<1>4. sorted \in Seq(all) /\ ToSet(sorted) = all /\ SortedBy(sorted, size)
  <2> HIDE DEF size
  <2> QED BY <1>1, <1>3, OrdersAre
<1>5. /\ left \subseteq all
      /\ \A x \in all : \E k \in left : CompareSubpaths(x, k)
      /\ \A x, y \in left : x = y \/ KeptAfter(sorted, y, x) \/ KeptAfter(sorted, x, y)
  BY <1>4, RemainingAre
<1>6. s \in left
  OBVIOUS
<1> HIDE DEF left
<1>7. PICK k \in left : CompareSubpaths(t, k)
  BY <1>3, <1>5
<1>8. s \in all /\ k \in all /\ s \in SubsOver(A, Nat) /\ t \in SubsOver(A, Nat) /\ k \in SubsOver(A, Nat)
  BY <1>1, <1>3, <1>5, <1>6
<1>9. IsPart(t, s) /\ IsPart(k, t)
  BY <1>2, <1>3, <1>7, <1>8
<1>10. IsPart(k, s)
  BY <1>8, <1>9, PartOfThem
<1>11. CompareSubpaths(s, k)
  BY <1>8, <1>10, PartCompares
<1>12. k = s
  <2>1. CASE KeptAfter(sorted, s, k)
    BY <1>11, <2>1 DEF KeptAfter
  <2>2. CASE KeptAfter(sorted, k, s)
    <3>1. PICK i, j \in DOMAIN sorted : i < j /\ sorted[i] = s /\ sorted[j] = k
      BY <2>2 DEF KeptAfter
    <3>2. DOMAIN sorted = 1 .. Len(sorted)
      BY <1>4
    <3>3. size[sorted[i]] <= size[sorted[j]]
      BY <1>4, <3>1, <3>2 DEF SortedBy
    <3>4. Len(s.path) <= Len(k.path)
      BY <1>8, <3>1, <3>3
    <3> QED BY <1>8, <1>10, <3>4, PartOfThem
  <2> QED BY <1>5, <1>6, <2>1, <2>2
<1>13. Len(s.path) <= Len(t.path)
  BY <1>8, <1>9, <1>12, PartOfThem
<1>14. t = s
  BY <1>8, <1>9, <1>13, PartOfThem
<1> QED BY <1>14

\* What simplify_subpaths may leave of a list.
Shortened(l) == IF Refines THEN {Refined(s) : s \in l} ELSE l

\* The members of the rule are sub-sequences of one list, shortened.
TakenFrom(rule, lists) == \E l \in lists : rule \subseteq Shortened(l)

\* simplify_subpaths leaves a part of each list, shortened.
LEMMA SimplifiedAre ==
  ASSUME NEW lists \in InputLists, NEW simple \in Simplified(lists)
  PROVE  simple \in InputLists /\ \A k \in simple : \E l \in lists : k \subseteq Shortened(l)
<1>1. CASE ~ Refines
  BY <1>1 DEF Simplified, Shortened
<1>2. CASE Refines
  <2> DEFINE short(l) == {Refined(s) : s \in l}
             All == UNION {ByLength(short(l)) : l \in lists}
  <2>1. PICK f \in [lists -> All] :
          /\ \A l \in lists : f[l] \in ByLength(short(l))
          /\ simple = {RemainingSeqs(f[l]) : l \in lists}
    BY <1>2 DEF Simplified
  <2> DEFINE g == [l \in lists |-> RemainingSeqs(f[l])]
  <2>2. IsFiniteSet(lists) /\ \A l \in lists : l \subseteq DictSubs /\ IsFiniteSet(l)
    BY DEF InputLists, FiniteSubsets
  <2>3. ASSUME NEW l \in lists
        PROVE  /\ RemainingSeqs(f[l]) \in FiniteSubsets(DictSubs)
               /\ RemainingSeqs(f[l]) \subseteq Shortened(l)
    <3> DEFINE T == short(l)
               r == [s \in l |-> Refined(s)]
    <3>1. IsFiniteSet(T)
      <4>1. IsFiniteSet({r[s] : s \in l})
        BY <2>2, FiniteImage
      <4>2. T = {r[s] : s \in l}
        OBVIOUS
      <4> QED BY <4>1, <4>2
    <3>2. T \subseteq DictSubs
      BY <2>2, RefinedDerivable
    <3>3. f[l] \in Orders(T, [s \in T |-> Len(s.path)])
      BY <2>1 DEF ByLength
    <3> HIDE DEF T
    <3>4. f[l] \in Seq(T) /\ ToSet(f[l]) = T
      BY <3>1, <3>3, OrdersAre
    <3>5. RemainingSeqs(f[l]) \subseteq T
      BY <3>4, RemainingAre
    <3>6. IsFiniteSet(RemainingSeqs(f[l]))
      BY <3>1, <3>5, FS_Subset
    <3>7. T = Shortened(l)
      BY <1>2 DEF Shortened, T
    <3> QED BY <3>2, <3>5, <3>6, <3>7 DEF FiniteSubsets
  <2>4. simple = {g[l] : l \in lists}
    BY <2>1
  <2>5. IsFiniteSet({g[l] : l \in lists})
    BY <2>2, FiniteImage
  <2>6. simple \subseteq FiniteSubsets(DictSubs)
    BY <2>1, <2>3
  <2>7. \A k \in simple : \E l \in lists : k \subseteq Shortened(l)
    BY <2>1, <2>3
  <2> QED BY <2>4, <2>5, <2>6, <2>7 DEF InputLists, FiniteSubsets
<1> QED BY <1>1, <1>2

\* What the lists have of the captured sub-sequences is a list of rules.
LEMMA FoundAre ==
  ASSUME NEW lists \in InputLists, NEW captured \in FiniteSubsets(DictSubs)
  PROVE  RulesOfLists(lists, captured) \in RuleLists
<1> DEFINE g == [l \in lists |-> {s \in captured : \E t \in l : CompareSubpaths(s, t)}]
           found == {g[l] : l \in lists}
<1>1. IsFiniteSet(lists) /\ captured \subseteq DictSubs /\ IsFiniteSet(captured)
  BY DEF InputLists, FiniteSubsets
<1>2. IsFiniteSet(found)
  BY <1>1, FiniteImage
<1>3. RulesOfLists(lists, captured) = found \ {{}}
  BY DEF RulesOfLists
<1>4. IsFiniteSet(found \ {{}})
  BY <1>2, FS_Subset
<1>5. ASSUME NEW r \in found PROVE r \in FiniteSubsets(DictSubs)
  <2>1. r \subseteq captured
    OBVIOUS
  <2> HIDE DEF found
  <2>2. IsFiniteSet(r)
    BY <1>1, <2>1, FS_Subset
  <2> QED BY <1>1, <2>1, <2>2 DEF FiniteSubsets
<1> HIDE DEF found
<1>6. found \ {{}} \subseteq FiniteSubsets(DictSubs) \ {{}}
  BY <1>5
<1> QED BY <1>3, <1>4, <1>6 DEF RuleLists, FiniteSubsets

\* A list of rules in the order that remove_included_seqs sorts it, and what that
\* leaves of it.
LEMMA RemovedFromList ==
  ASSUME NEW found \in RuleLists, NEW sorted \in BySize(found)
  PROVE  /\ RemoveIncludedSeqs(sorted) \in RuleLists
         /\ RemoveIncludedSeqs(sorted) \subseteq found
         /\ \A r \in found : \E k \in RemoveIncludedSeqs(sorted) : EndsLike(k, r)
<1>1. IsFiniteSet(found) /\ found \subseteq FiniteSubsets(DictSubs) \ {{}}
  BY DEF RuleLists, FiniteSubsets
<1>2. sorted \in Seq(found) /\ ToSet(sorted) = found
  BY <1>1, OrdersAre DEF BySize
<1> DEFINE kept == RemoveIncludedSeqs(sorted)
<1>3. kept \subseteq found /\ \A r \in found : \E k \in kept : EndsLike(k, r)
  BY <1>2, RemovedAre
<1> HIDE DEF kept
<1>4. IsFiniteSet(kept)
  BY <1>1, <1>3, FS_Subset
<1>5. kept \in RuleLists
  BY <1>1, <1>3, <1>4 DEF RuleLists, FiniteSubsets
<1> QED BY <1>3, <1>5 DEF kept

\* What capture_rule_from_cluster finds in the lists of a cluster.
LEMMA CapturedAre ==
  ASSUME NEW lists \in InputLists, NEW sorted \in ByLength(UNION lists),
         NEW captured \in Captured(lists, sorted),
         NEW kept \in Redundant(RulesOfLists(lists, captured))
  PROVE  kept \in RuleLists /\ kept \subseteq RulesOfLists(lists, captured)
<1> DEFINE all == UNION lists
           found == RulesOfLists(lists, captured)
<1>1. all \in FiniteSubsets(DictSubs)
  BY UnionOfLists DEF InputLists
<1>2. all \subseteq DictSubs /\ IsFiniteSet(all)
  BY <1>1 DEF FiniteSubsets
<1>3. sorted \in Orders(all, [s \in all |-> Len(s.path)])
  BY DEF ByLength
<1> HIDE DEF all
<1>4. sorted \in Seq(all) /\ ToSet(sorted) = all
  BY <1>2, <1>3, OrdersAre
<1>5. RemainingSeqs(sorted) \subseteq all
  BY <1>4, RemainingAre
<1>6. captured \subseteq RemainingSeqs(sorted)
  BY DEF Captured
<1>7. captured \subseteq all /\ IsFiniteSet(captured)
  BY <1>2, <1>5, <1>6, FS_Subset
<1>8. captured \in FiniteSubsets(DictSubs)
  BY <1>2, <1>7 DEF FiniteSubsets
<1>9. found \in RuleLists
  BY <1>8, FoundAre
<1> HIDE DEF found
<1>10. CASE ~ Refines
  BY <1>9, <1>10 DEF Redundant, found
<1>11. CASE Refines
  <2>1. PICK order \in BySize(found) : kept = RemoveIncludedSeqs(order)
    BY <1>11 DEF Redundant, found
  <2> QED BY <1>9, <2>1, RemovedFromList DEF found
<1> QED BY <1>10, <1>11

\* A rule captured from a cluster is taken from one list of the cluster.
LEMMA CapturedTaken ==
  ASSUME NEW lists \in InputLists, NEW simple \in Simplified(lists),
         NEW sorted \in ByLength(UNION simple), NEW captured \in Captured(simple, sorted),
         NEW r \in RulesOfLists(simple, captured), ~ Confused(Compared(lists))
  PROVE  TakenFrom(r, lists)
<1>1. simple \in InputLists /\ \A k \in simple : \E l \in lists : k \subseteq Shortened(l)
  BY SimplifiedAre
<1>2. UNION simple \subseteq Compared(lists)
  <2> SUFFICES ASSUME NEW k \in simple, NEW s \in k PROVE s \in Compared(lists)
    OBVIOUS
  <2>1. PICK l \in lists : s \in Shortened(l)
    BY <1>1
  <2> QED BY <2>1 DEF Shortened, Compared
<1>3. ~ Confused(UNION simple)
  BY <1>2 DEF Confused
<1>4. captured \subseteq RemainingSeqs(sorted)
  BY DEF Captured
<1>5. PICK k \in simple : r = {s \in captured : \E t \in k : CompareSubpaths(s, t)}
  BY DEF RulesOfLists
<1>6. r \subseteq k
  BY <1>1, <1>3, <1>4, <1>5, FoundInList
<1> QED BY <1>1, <1>6 DEF TakenFrom

\* What is left of a sub-sequence by shortening is a part of it.
LEMMA RefinedIsPart ==
  ASSUME NEW s \in DictSubs
  PROVE  IsPart(Refined(s), s) /\ Refined(s) \in DictSubs
<1> DEFINE A == DOMAIN RuleDict
           p == s.path
           q == RefinedPath(p)
           t == Refined(s)
<1>1. p \in Seq(A) \ {<<>>}
  BY DEF DictSubs, SubsOver
<1>2. q \in Seq(A) \ {<<>>} /\ PartOf(q, p) /\ q[Len(q)] = p[Len(p)]
  BY <1>1, RefinedPathPart
<1>3. t = [path |-> q, dn |-> s.dn]
  BY DEF Refined, SubSequence
<1>4. t.path = q /\ t.dn = s.dn
  BY <1>3
<1> HIDE DEF t, q
<1>5. Ending(t) = Ending(s)
  BY <1>2, <1>4 DEF Ending, LastSymbol
<1>6. IsPart(t, s)
  BY <1>2, <1>4, <1>5, IsPartIs
<1>7. t \in DictSubs
  BY RefinedDerivable DEF t
<1> QED BY <1>2, <1>4, <1>6, <1>7 DEF t

\* The members of a shortened list are parts of those of the list.
LEMMA ShortenedParts ==
  ASSUME NEW l, l \subseteq DictSubs
  PROVE  \A m \in Shortened(l) : \E s \in l : IsPart(m, s)
<1> SUFFICES ASSUME NEW m \in Shortened(l) PROVE \E s \in l : IsPart(m, s)
  OBVIOUS
<1>1. CASE Refines
  <2>1. PICK s \in l : m = Refined(s)
    BY <1>1 DEF Shortened
  <2> QED BY <2>1, RefinedIsPart
<1>2. CASE ~ Refines
  <2>1. m \in l /\ m \in DictSubs
    BY <1>2 DEF Shortened
  <2>2. PartOf(m.path, m.path)
    BY <2>1, PartOfItself DEF DictSubs, SubsOver
  <2> QED BY <2>1, <2>2, IsPartIs
<1> QED BY <1>1, <1>2

\* What is taken from a list occurs.
LEMMA TakenOccurs ==
  ASSUME NEW lists, \A l \in lists : l \subseteq DictSubs, NEW r, TakenFrom(r, lists)
  PROVE  Occurs(r, lists)
<1>1. PICK l \in lists : r \subseteq Shortened(l)
  BY DEF TakenFrom
<1>2. \A m \in r : \E s \in l : IsPart(m, s)
  BY <1>1, ShortenedParts
<1> QED BY <1>2 DEF Occurs

\* A part of a rule occurs with it.
LEMMA FewerOccur ==
  ASSUME NEW lists, NEW r, Occurs(r, lists), NEW some, some \subseteq r
  PROVE  Occurs(some, lists)
BY DEF Occurs

\* The table of a list of rules says what the list says.
LEMMA TableOfRules ==
  ASSUME NEW list \in RuleLists
  PROVE  LET made == MakeTable(SetToSeq(list)) IN WellFormed(made) /\ RulesOf(made) = list
<1> DEFINE S == RulesOver(DOMAIN RuleDict, Nat)
           m == SetToSeq(list)
<1>1. IsFiniteSet(list) /\ list \in SUBSET S
  BY DEF RuleLists, FiniteSubsets, RulesOver, DictSubs
<1>2. m \in Seq(S) /\ \A x : x \in list <=> \E i \in DOMAIN m : x = m[i]
  BY <1>1, MembersAre
<1> HIDE DEF m, S
<1>3. ToSet(m) = list
  BY <1>2 DEF ToSet
<1>4. m \in Seq(RulesOver(DOMAIN RuleDict, Nat))
  BY <1>2 DEF S
<1>5. WellFormed(MakeTable(m)) /\ RulesOf(MakeTable(m)) = ToSet(m)
  BY <1>4, TableFaithful
<1> QED BY <1>3, <1>5 DEF m

\* What stands for the expansions of a symbol that were merged: expansions that
\* put the symbol there, and there is one.
LEMMA ParentsAre ==
  ASSUME NEW s \in DictSubs, Len(s.path) # 1
  PROVE  /\ IsFiniteSet(Parents(RuleDict, s)) /\ Parents(RuleDict, s) # {}
         /\ \A t \in Parents(RuleDict, s) : t \in DictSubs /\ Produces(t, s)
<1> DEFINE A == DOMAIN RuleDict
           p == s.path
           n == Len(p)
           q == Before(s)
           Leads(a, b) == a # b /\ \E alt \in Range(RuleDict[a]) : b \in Range(alt.exp)
           above == q[Len(q)]
           alts == Range(RuleDict[above])
           some == {a \in alts : LastSymbol(s) \in Range(a.exp)}
           g == [alt \in some |-> SubSequence(q, alt.dn)]
<1>1. /\ p \in Seq(A) /\ p # <<>> /\ s.dn \in Nat /\ n \in Nat /\ n > 1
      /\ \A k \in 1 .. n - 1 : Leads(p[k], p[k + 1])
  <2>1. p \in Seq(A) /\ p # <<>> /\ s.dn \in Nat /\ n # 1
        /\ \A k \in 1 .. n - 1 : Leads(p[k], p[k + 1])
    BY DEF DictSubs, SubsOver, Derivable
  <2> HIDE DEF Leads, p
  <2>2. n \in Nat /\ n # 0
    BY <2>1
  <2> HIDE DEF n
  <2>3. n > 1
    BY <2>1, <2>2
  <2> QED BY <2>1, <2>2, <2>3
<1>2. /\ q \in Seq(A) /\ Len(q) = n - 1 /\ \A k \in 1 .. n - 1 : q[k] = p[k]
  <2>1. q = SubSeq(p, 1, n - 1)
    BY DEF Before, Front
  <2>2. 1 \in Nat \ {0} /\ n - 1 \in Nat /\ 1 <= n - 1 /\ n - 1 <= n
    BY <1>1
  <2> HIDE DEF q, p, n
  <2>3. /\ SubSeq(p, 1, n - 1) \in Seq(A) /\ Len(SubSeq(p, 1, n - 1)) = (n - 1) - 1 + 1
        /\ \A i \in 1 .. (n - 1) - 1 + 1 : SubSeq(p, 1, n - 1)[i] = p[1 + i - 1]
    BY <1>1, <2>2, SubSeqIs DEF n
  <2> QED BY <1>1, <2>1, <2>3
<1> HIDE DEF q, p, n
<1>3. /\ q # <<>> /\ n - 1 \in 1 .. n - 1 /\ above = p[n - 1] /\ above \in A
      /\ LastSymbol(s) = p[n] /\ (n - 1) + 1 = n
  <2>1. n - 1 \in 1 .. n - 1 /\ (n - 1) + 1 = n /\ n - 1 \in DOMAIN q
    BY <1>1, <1>2
  <2> QED BY <1>2, <2>1 DEF LastSymbol, p, n
<1>4. Leads(above, LastSymbol(s))
  BY <1>1, <1>3
<1>5. some # {}
  BY <1>4
<1>6. RuleDict[above] \in Seq(alts) /\ \A alt \in alts : alt.dn \in Nat
  BY <1>3, RuleDictAssumption DEF RuleDictAssumption
<1>7. IsFiniteSet(some)
  <2> DEFINE list == RuleDict[above]
             m == Len(list)
  <2>1. m \in Nat /\ DOMAIN list = 1 .. m
    BY <1>6
  <2>2. alts = {list[i] : i \in 1 .. m}
    BY <2>1 DEF Range
  <2>3. IsFiniteSet(1 .. m)
    BY <2>1, FS_Interval
  <2>4. IsFiniteSet(alts)
    BY <2>2, <2>3, FiniteImage
  <2> HIDE DEF alts
  <2> QED BY <2>4, FS_Subset
<1>8. Parents(RuleDict, s) = {g[alt] : alt \in some}
  BY DEF Parents, q
<1>9. IsFiniteSet({g[alt] : alt \in some})
  BY <1>7, FiniteImage
<1>10. ASSUME NEW alt \in some
       PROVE  g[alt] \in DictSubs /\ Produces(g[alt], s)
  <2> DEFINE t == SubSequence(q, alt.dn)
  <2>1. g[alt] = t /\ alt \in alts /\ LastSymbol(s) \in Range(alt.exp) /\ alt.dn \in Nat
    BY <1>6
  <2>2. t = [path |-> q, dn |-> alt.dn]
    BY DEF SubSequence
  <2> HIDE DEF t
  <2>3. t \in SubsOver(A, Nat) /\ t.path = q /\ t.dn = alt.dn /\ LastSymbol(t) = above
    BY <1>2, <1>3, <2>1, <2>2 DEF SubsOver, LastSymbol
  <2>4. \A k \in 1 .. Len(t.path) - 1 : Leads(t.path[k], t.path[k + 1])
    <3> SUFFICES ASSUME NEW k \in 1 .. n - 1 - 1 PROVE Leads(q[k], q[k + 1])
      BY <1>2, <2>3
    <3>1. k \in 1 .. n - 1 /\ k + 1 \in 1 .. n - 1
      BY <1>1
    <3> HIDE DEF Leads
    <3>2. Leads(p[k], p[k + 1])
      BY <1>1, <3>1
    <3> QED BY <1>2, <3>1, <3>2
  <2>5. \E a \in Range(RuleDict[LastSymbol(t)]) : t.dn = a.dn
    BY <2>1, <2>3
  <2>6. Derivable(t)
    BY <2>3, <2>4, <2>5 DEF Derivable, SubsOver
  <2>7. Produces(t, s)
    BY <2>1, <2>3 DEF Produces
  <2> QED BY <2>1, <2>3, <2>6, <2>7 DEF DictSubs
<1> HIDE DEF g, some
<1> QED BY <1>5, <1>8, <1>9, <1>10

\* Who is merged with what.
LEMMA MergingIs ==
  ASSUME NEW list \in RuleLists, NEW m \in Merging(RuleDict, list)
  PROVE  /\ m = [inter |-> m.inter, entry |-> m.entry]
         /\ m.inter \in Intersections(list)
         /\ m.entry \in ToMerge(list, m.inter)
         /\ Exhausts(RuleDict, ToMerge(list, m.inter), m.entry)
         /\ m.inter \in FiniteSubsets(DictSubs)
<1>1. /\ m = [inter |-> m.inter, entry |-> m.entry]
      /\ m.inter \in Intersections(list) /\ m.entry \in ToMerge(list, m.inter)
      /\ Exhausts(RuleDict, ToMerge(list, m.inter), m.entry)
  BY DEF Merging
<1>2. PICK q \in list \X list : m.inter = q[1] \cap q[2]
  BY <1>1 DEF Intersections
<1>3. q[1] \subseteq DictSubs /\ IsFiniteSet(q[1])
  BY DEF RuleLists, FiniteSubsets
<1>4. m.inter \subseteq DictSubs /\ IsFiniteSet(m.inter)
  BY <1>2, <1>3, FS_Subset
<1> QED BY <1>1, <1>4 DEF FiniteSubsets

\* What an entry of subpaths_to_merge is.
LEMMA ToMergeIs ==
  ASSUME NEW list \in RuleLists, NEW inter, NEW p \in ToMerge(list, inter)
  PROVE  /\ p = <<p[1], p[2]>> /\ p[1] \in list /\ p[2] \in p[1] \ inter
         /\ p[2] \in DictSubs /\ Cardinality(p[1] \ inter) = 1
<1>1. PICK r \in list : p \in {<<r, s>> : s \in r \ inter} /\ Cardinality(p[1] \ inter) = 1
  BY DEF ToMerge
<1>2. PICK s \in r \ inter : p = <<r, s>>
  BY <1>1
<1>3. s \in DictSubs
  BY DEF RuleLists, FiniteSubsets
<1> QED BY <1>1, <1>2, <1>3

\* Merging a list of rules gives a list of rules.
LEMMA MergeRulesAre ==
  ASSUME NEW list \in RuleLists, ~ MergeFails(RuleDict, list)
  PROVE  MergeRules(RuleDict, list) \in RuleLists
<1> DEFINE Rule == FiniteSubsets(DictSubs) \ {{}}
           M == Merging(RuleDict, list)
           I == Intersections(list)
           Pairs == {q \in list \X list : /\ Cardinality(q[1]) = Cardinality(q[2])
                                          /\ Cardinality(q[1] \cap q[2]) + 1 = Cardinality(q[1])}
           cut == [q \in Pairs |-> q[1] \cap q[2]]
           E == list \X UNION list
           mk == [x \in I \X E |-> [inter |-> x[1], entry |-> x[2]]]
           New(m) == {m.inter \cup {s} : s \in Parents(RuleDict, m.entry[2])}
           new == [m \in M |-> New(m)]
           all == UNION {new[m] : m \in M}
           merged == UNION {{q[1] : q \in Similar(ToMerge(list, m.inter), m.entry)} : m \in M}
<1>1. IsFiniteSet(list) /\ list \subseteq Rule /\ \A r \in list : IsFiniteSet(r)
  BY DEF RuleLists, FiniteSubsets
<1>2. IsFiniteSet(I)
  <2>1. IsFiniteSet(Pairs)
    <3>1. IsFiniteSet(list \X list)
      BY <1>1, FS_Product
    <3> QED BY <3>1, FS_Subset
  <2>2. I = {cut[q] : q \in Pairs}
    BY DEF Intersections
  <2> HIDE DEF I, cut, Pairs
  <2> QED BY <2>1, <2>2, FiniteImage
<1>3. IsFiniteSet(E)
  BY <1>1, FS_UNION, FS_Product
<1>4. IsFiniteSet(M)
  <2>1. IsFiniteSet({mk[x] : x \in I \X E})
    <3>1. IsFiniteSet(I \X E)
      BY <1>2, <1>3, FS_Product
    <3> HIDE DEF I, E, mk
    <3> QED BY <3>1, FiniteImage
  <2>2. M \subseteq {mk[x] : x \in I \X E}
    <3> SUFFICES ASSUME NEW m \in M PROVE \E x \in I \X E : m = mk[x]
      OBVIOUS
    <3>1. m = [inter |-> m.inter, entry |-> m.entry] /\ m.inter \in I
          /\ m.entry \in ToMerge(list, m.inter)
      BY MergingIs
    <3> DEFINE inter == m.inter
               entry == m.entry
    <3> HIDE DEF M, I, inter, entry
    <3>2. entry = <<entry[1], entry[2]>> /\ entry[1] \in list /\ entry[2] \in entry[1]
      <4>1. entry \in ToMerge(list, inter)
        BY <3>1 DEF inter, entry
      <4> QED BY <4>1, ToMergeIs
    <3>3. entry \in E
      BY <3>2
    <3> HIDE DEF E
    <3>4. <<inter, entry>> \in I \X E
      BY <3>1, <3>3 DEF inter
    <3>5. mk[<<inter, entry>>] = [inter |-> inter, entry |-> entry]
      BY <3>4
    <3>6. m = [inter |-> inter, entry |-> entry]
      BY <3>1 DEF inter, entry
    <3> QED BY <3>4, <3>5, <3>6
  <2> HIDE DEF M, mk, I, E
  <2> QED BY <2>1, <2>2, FS_Subset
<1>5. ASSUME NEW m \in M
      PROVE  IsFiniteSet(New(m)) /\ New(m) \subseteq Rule
  <2> DEFINE s == m.entry[2]
             P == Parents(RuleDict, s)
             f == [t \in P |-> m.inter \cup {t}]
  <2>1. m.entry \in ToMerge(list, m.inter) /\ m.inter \in FiniteSubsets(DictSubs)
    BY MergingIs
  <2>2. s \in DictSubs /\ Len(s.path) # 1
    <3> DEFINE inter == m.inter
               entry == m.entry
    <3>1. entry \in ToMerge(list, inter)
      BY <2>1
    <3> HIDE DEF inter, entry
    <3>2. entry[2] \in DictSubs
      BY <3>1, ToMergeIs
    <3>3. Len(m.entry[2].path) # 1
      BY DEF MergeFails
    <3> QED BY <3>2, <3>3 DEF entry
  <2>3. IsFiniteSet(P) /\ P \subseteq DictSubs
    BY <2>2, ParentsAre
  <2> HIDE DEF P
  <2>4. IsFiniteSet({f[t] : t \in P})
    BY <2>3, FiniteImage
  <2>5. New(m) = {f[t] : t \in P}
    BY DEF P
  <2>6. ASSUME NEW t \in P PROVE m.inter \cup {t} \in Rule
    <3>1. m.inter \subseteq DictSubs /\ IsFiniteSet(m.inter)
      BY <2>1 DEF FiniteSubsets
    <3>2. IsFiniteSet(m.inter \cup {t})
      BY <3>1, FS_AddElement
    <3>3. m.inter \cup {t} \subseteq DictSubs /\ m.inter \cup {t} # {}
      BY <2>3, <3>1
    <3> QED BY <3>2, <3>3 DEF FiniteSubsets
  <2> QED BY <2>4, <2>5, <2>6
<1> HIDE DEF M, New, Rule
<1>6. IsFiniteSet(all) /\ all \subseteq Rule
  <2>1. IsFiniteSet({new[m] : m \in M})
    BY <1>4, FiniteImage
  <2>2. \A T \in {new[m] : m \in M} : IsFiniteSet(T) /\ T \subseteq Rule
    BY <1>5
  <2> HIDE DEF new
  <2>3. IsFiniteSet(all)
    BY <2>1, <2>2, FS_UNION
  <2> QED BY <2>2, <2>3
<1>7. MergeRules(RuleDict, list) = (list \ merged) \cup all
  BY DEF MergeRules, M, New
<1> HIDE DEF all, merged
<1>8. IsFiniteSet(list \ merged)
  BY <1>1, FS_Difference
<1>9. IsFiniteSet((list \ merged) \cup all)
  BY <1>6, <1>8, FS_Union
<1>10. (list \ merged) \cup all \subseteq Rule
  BY <1>1, <1>6
<1> QED BY <1>7, <1>9, <1>10 DEF RuleLists, FiniteSubsets, Rule

\* The entries that are merged with one of them are merged with any of them, and
\* are still all expansions of their symbol where there are more rules.
LEMMA ExhaustsAlso ==
  ASSUME NEW few, NEW many, few \subseteq many, NEW p \in few,
         NEW q \in Similar(few, p), Exhausts(RuleDict, few, p),
         \A c \in many : c[2] \in DictSubs
  PROVE  q \in few /\ q[2].path = p[2].path /\ Exhausts(RuleDict, many, q)
<1> DEFINE path == p[2].path
           A == path[Len(path)]
           n == Len(RuleDict[A])
           Of(C) == {c[2] : c \in {c \in C : c[2].path = path}}
           of == [i \in 1 .. n |-> SubSequence(path, RuleDict[A][i].dn)]
           Every == {of[i] : i \in 1 .. n}
<1>1. q \in few /\ q[2].path = path
  BY DEF Similar
<1>2. ASSUME NEW s \in DictSubs, NEW t \in DictSubs, s.path = t.path, s.dn = t.dn
      PROVE  s = t
  BY <1>2 DEF DictSubs, SubsOver
<1>3. ASSUME NEW C, NEW c \in C, \A d \in C : d[2] \in DictSubs, c[2].path = path
      PROVE  {d[2] : d \in Similar(C, c)} = Of(C)
  <2>1. ASSUME NEW x \in {d[2] : d \in Similar(C, c)} PROVE x \in Of(C)
    BY <1>3 DEF Similar
  <2>2. ASSUME NEW d \in C, d[2].path = path PROVE d[2] \in {e[2] : e \in Similar(C, c)}
    <3>1. CASE d[2].dn = c[2].dn
      <4>1. d[2] = c[2]
        BY <1>2, <1>3, <2>2, <3>1
      <4> QED BY <4>1 DEF Similar
    <3>2. CASE d[2].dn # c[2].dn
      BY <1>3, <2>2, <3>2 DEF Similar
    <3> QED BY <3>1, <3>2
  <2> QED BY <2>1, <2>2
<1>4. p[2] \in DictSubs /\ A \in DOMAIN RuleDict
  <2>1. p[2] \in DictSubs
    OBVIOUS
  <2>2. path \in Seq(DOMAIN RuleDict) \ {<<>>}
    BY <2>1 DEF DictSubs, SubsOver
  <2> HIDE DEF path
  <2>3. Len(path) \in DOMAIN path
    BY <2>2
  <2> QED BY <2>1, <2>2, <2>3
<1>5. n \in Nat /\ DOMAIN RuleDict[A] = 1 .. n
  <2>1. RuleDict[A] \in Seq(Range(RuleDict[A]))
    BY <1>4, RuleDictAssumption DEF RuleDictAssumption
  <2> QED BY <2>1
<1>6. IsFiniteSet(Every) /\ Cardinality(Every) <= n
  <2>1. of \in Surjection(1 .. n, Every)
    BY DEF Surjection
  <2> HIDE DEF of, Every, n
  <2>2. IsFiniteSet(1 .. n) /\ Cardinality(1 .. n) = n
    <3>1. 1 \in Int /\ n \in Int /\ ~ (1 > n /\ n # 0) /\ n - 1 + 1 = n
      BY <1>5
    <3> QED BY <1>5, <3>1, FS_Interval
  <2> QED BY <2>1, <2>2, FS_Surjection
<1>7. Of(many) \subseteq Every
  <2> SUFFICES ASSUME NEW c \in many, c[2].path = path PROVE c[2] \in Every
    OBVIOUS
  <2>1. c[2] \in DictSubs
    OBVIOUS
  <2>2. PICK alt \in Range(RuleDict[A]) : c[2].dn = alt.dn
    BY <2>1 DEF DictSubs, Derivable, LastSymbol
  <2>3. PICK i \in 1 .. n : alt = RuleDict[A][i]
    BY <1>5, <2>2 DEF Range
  <2>4. c[2] = [path |-> path, dn |-> alt.dn]
    BY <2>1, <2>2 DEF DictSubs, SubsOver
  <2>5. c[2] = of[i]
    BY <2>3, <2>4 DEF SubSequence
  <2> QED BY <2>5
<1>8. \A s : LastSymbol(s) = s.path[Len(s.path)]
  BY DEF LastSymbol
<1>9. Cardinality(Of(few)) = n
  <2>1. \A d \in few : d[2] \in DictSubs
    OBVIOUS
  <2>2. {d[2] : d \in Similar(few, p)} = Of(few)
    BY <1>3, <2>1
  <2>3. Cardinality({d[2] : d \in Similar(few, p)}) = Len(RuleDict[LastSymbol(p[2])])
    BY DEF Exhausts
  <2> QED BY <1>8, <2>2, <2>3
<1>10. Of(few) \subseteq Of(many)
  OBVIOUS
<1>11. Cardinality(Of(many)) = n
  <2> HIDE DEF Of, Every, n
  <2>1. IsFiniteSet(Of(many)) /\ Cardinality(Of(many)) <= Cardinality(Every)
    BY <1>6, <1>7, FS_Subset
  <2>2. Cardinality(Of(few)) <= Cardinality(Of(many))
    BY <1>10, <2>1, FS_Subset
  <2>3. Cardinality(Of(many)) \in Nat /\ Cardinality(Every) \in Nat
    BY <1>6, <2>1, FS_CardinalityType
  <2> QED BY <1>5, <1>6, <1>9, <2>1, <2>2, <2>3
<1>12. Exhausts(RuleDict, many, q)
  <2>1. {d[2] : d \in Similar(many, q)} = Of(many)
    <3>1. q \in many
      BY <1>1
    <3> HIDE DEF Of
    <3> QED BY <1>1, <1>3, <3>1
  <2>2. LastSymbol(q[2]) = A
    BY <1>1, <1>8
  <2> HIDE DEF Of, n
  <2> QED BY <1>11, <2>1, <2>2 DEF Exhausts, n
<1> QED BY <1>1, <1>12

\* What is merged of the rules that are left is merged of all rules.
LEMMA MergingOfMore ==
  ASSUME NEW many \in RuleLists, NEW few \in RuleLists, few \subseteq many,
         NEW m \in Merging(RuleDict, few), NEW q \in Similar(ToMerge(few, m.inter), m.entry)
  PROVE  /\ q[1] \in few /\ q[2] \in q[1] /\ q[2].path = m.entry[2].path
         /\ [inter |-> m.inter, entry |-> q] \in Merging(RuleDict, many)
<1> DEFINE inter == m.inter
           p == m.entry
           F == ToMerge(few, inter)
           G == ToMerge(many, inter)
           u == [inter |-> inter, entry |-> q]
<1>1. inter \in Intersections(few) /\ p \in F /\ Exhausts(RuleDict, F, p)
  BY MergingIs
<1>2. q \in Similar(F, p)
  OBVIOUS
<1> HIDE DEF inter, p
<1>3. F \subseteq G
  BY DEF ToMerge
<1>4. \A c \in G : c[2] \in DictSubs
  BY ToMergeIs
<1> HIDE DEF F, G
<1>5. q \in F /\ q[2].path = p[2].path /\ Exhausts(RuleDict, G, q)
  BY <1>1, <1>2, <1>3, <1>4, ExhaustsAlso
<1>6. q[1] \in few /\ q[2] \in q[1]
  BY <1>5, ToMergeIs DEF F
<1>7. inter \in Intersections(many) /\ q \in G
  BY <1>1, <1>3, <1>5 DEF Intersections
<1>8. u \in Merging(RuleDict, many)
  <2>1. u \in [inter : Intersections(many), entry : UNION {ToMerge(many, i) : i \in Intersections(many)}]
    BY <1>7 DEF G
  <2>2. u.inter = inter /\ u.entry = q
    OBVIOUS
  <2> HIDE DEF u
  <2> QED BY <1>5, <1>7, <2>1, <2>2 DEF Merging, G
<1> QED BY <1>5, <1>6, <1>8 DEF inter, p

\* Each member of the rule ends like one of the other rule, or in the expansion
\* above it.
LeavesTrace(rule, other) ==
  \A m \in rule : \E s \in other : Ending(m) = Ending(s) \/ Produces(m, s)

\* A trace of a rule's trace, where the latter only ends like it.
LEMMA TraceOf ==
  ASSUME NEW r, NEW s, NEW t, LeavesTrace(s, t), EndsLike(r, s)
  PROVE  LeavesTrace(r, t)
<1> SUFFICES ASSUME NEW m \in r
             PROVE  \E x \in t : Ending(m) = Ending(x) \/ Produces(m, x)
  BY DEF LeavesTrace
<1>1. PICK n \in s : Ending(m) = Ending(n)
  BY DEF EndsLike
<1>2. PICK x \in t : Ending(n) = Ending(x) \/ Produces(n, x)
  BY DEF LeavesTrace
<1>3. LastSymbol(m) = LastSymbol(n) /\ m.dn = n.dn
  BY <1>1 DEF Ending
<1>4. Produces(n, x) => Produces(m, x)
  BY <1>3 DEF Produces
<1> QED BY <1>1, <1>2, <1>4

\* Removing, merging and removing again leaves a trace of every rule.
LEMMA ThinningLeavesTrace ==
  ASSUME NEW captured \in RuleLists, NEW first \in BySize(captured),
         \A m \in Merging(RuleDict, captured) : m.inter \subseteq m.entry[1],
         ~ MergeFails(RuleDict, RemoveIncludedSeqs(first)),
         NEW second \in BySize(MergeRules(RuleDict, RemoveIncludedSeqs(first)))
  PROVE  \A r \in captured : \E k \in RemoveIncludedSeqs(second) : LeavesTrace(k, r)
<1> DEFINE kept == RemoveIncludedSeqs(first)
           M == Merging(RuleDict, kept)
           Merged(m) == {q[1] : q \in Similar(ToMerge(kept, m.inter), m.entry)}
           merged == UNION {Merged(m) : m \in M}
           New(m) == {m.inter \cup {s} : s \in Parents(RuleDict, m.entry[2])}
           all == UNION {New(m) : m \in M}
           list == MergeRules(RuleDict, kept)
           left == RemoveIncludedSeqs(second)
<1>1. /\ kept \in RuleLists /\ kept \subseteq captured
      /\ \A r \in captured : \E k \in kept : EndsLike(k, r)
  BY RemovedFromList
<1>2. list \in RuleLists
  BY <1>1, MergeRulesAre
<1>3. \A r \in list : \E k \in left : EndsLike(k, r)
  BY <1>2, RemovedFromList
<1>4. list = (kept \ merged) \cup all
  BY DEF MergeRules
<1>5. ASSUME NEW k \in kept PROVE \E n \in list : LeavesTrace(n, k)
  <2>1. CASE k \notin merged
    <3>1. k \in list
      BY <1>4, <2>1
    <3>2. LeavesTrace(k, k)
      BY DEF LeavesTrace
    <3> QED BY <3>1, <3>2
  <2>2. CASE k \in merged
    <3>1. PICK m \in M : k \in Merged(m)
      BY <2>2
    <3>2. PICK q \in Similar(ToMerge(kept, m.inter), m.entry) : k = q[1]
      BY <3>1
    <3>3. /\ q[2] \in k /\ q[2].path = m.entry[2].path
          /\ [inter |-> m.inter, entry |-> q] \in Merging(RuleDict, captured)
      <4> HIDE DEF kept
      <4> QED BY <1>1, <3>2, MergingOfMore
    <3>4. m.inter \subseteq k
      <4> DEFINE u == [inter |-> m.inter, entry |-> q]
      <4>1. u.inter = m.inter /\ u.entry = q /\ u \in Merging(RuleDict, captured)
        BY <3>3
      <4> HIDE DEF u
      <4>2. u.inter \subseteq u.entry[1]
        BY <4>1
      <4> QED BY <3>2, <4>1, <4>2
    <3>5. m.entry[2] \in DictSubs /\ Len(m.entry[2].path) # 1
      <4>1. Len(m.entry[2].path) # 1
        BY DEF MergeFails
      <4> DEFINE inter == m.inter
                 entry == m.entry
      <4>2. entry \in ToMerge(kept, inter)
        BY <1>1, MergingIs
      <4> HIDE DEF inter, entry, kept
      <4>3. entry[2] \in DictSubs
        BY <1>1, <4>2, ToMergeIs
      <4> QED BY <4>1, <4>3 DEF entry
    <3>6. PICK s \in Parents(RuleDict, m.entry[2]) : Produces(s, m.entry[2])
      BY <3>5, ParentsAre
    <3> DEFINE n == m.inter \cup {s}
    <3>7. n \in list
      BY <1>4
    <3>8. Produces(s, q[2])
      <4>1. LastSymbol(q[2]) = LastSymbol(m.entry[2])
        BY <3>3 DEF LastSymbol
      <4> QED BY <3>6, <4>1 DEF Produces
    <3>9. LeavesTrace(n, k)
      BY <3>3, <3>4, <3>8 DEF LeavesTrace
    <3> QED BY <3>7, <3>9
  <2> QED BY <2>1, <2>2
<1> HIDE DEF kept, list, left
<1> SUFFICES ASSUME NEW r \in captured PROVE \E k \in left : LeavesTrace(k, r)
  BY DEF left
<1>6. PICK k \in kept : EndsLike(k, r)
  BY <1>1
<1>7. PICK n \in list : LeavesTrace(n, k)
  BY <1>5
<1>8. PICK x \in left : EndsLike(x, n)
  BY <1>3
<1>9. LeavesTrace(x, k)
  BY <1>7, <1>8, TraceOf
<1>10. LeavesTrace(x, r)
  <2> SUFFICES ASSUME NEW m \in x
               PROVE  \E s \in r : Ending(m) = Ending(s) \/ Produces(m, s)
    BY DEF LeavesTrace
  <2>1. PICK y \in k : Ending(m) = Ending(y) \/ Produces(m, y)
    BY <1>9 DEF LeavesTrace
  <2>2. PICK s \in r : Ending(y) = Ending(s)
    BY <1>6 DEF EndsLike
  <2>3. Produces(m, y) => Produces(m, s)
    BY <2>2 DEF Produces, Ending
  <2> QED BY <2>1, <2>2, <2>3
<1> QED BY <1>10

\* Entries that exhaust the expansions of their symbol have each of them.
LEMMA EveryExpansion ==
  ASSUME NEW C, NEW p \in C, \A c \in C : c[2] \in DictSubs, Exhausts(RuleDict, C, p),
         NEW alt \in Range(RuleDict[LastSymbol(p[2])])
  PROVE  \E q \in Similar(C, p) : q[2] = SubSequence(p[2].path, alt.dn)
<1> DEFINE path == p[2].path
           A == path[Len(path)]
           n == Len(RuleDict[A])
           of == [i \in 1 .. n |-> SubSequence(path, RuleDict[A][i].dn)]
           Every == {of[i] : i \in 1 .. n}
           Got == {q[2] : q \in Similar(C, p)}
<1>1. LastSymbol(p[2]) = A
  BY DEF LastSymbol
<1>2. A \in DOMAIN RuleDict
  <2>1. path \in Seq(DOMAIN RuleDict) \ {<<>>}
    BY DEF DictSubs, SubsOver
  <2> HIDE DEF path
  <2>2. Len(path) \in DOMAIN path
    BY <2>1
  <2> QED BY <2>1, <2>2
<1>3. n \in Nat /\ DOMAIN RuleDict[A] = 1 .. n
  <2>1. RuleDict[A] \in Seq(Range(RuleDict[A]))
    BY <1>2, RuleDictAssumption DEF RuleDictAssumption
  <2> QED BY <2>1
<1>4. IsFiniteSet(Every) /\ Cardinality(Every) <= n
  <2>1. of \in Surjection(1 .. n, Every)
    BY DEF Surjection
  <2> HIDE DEF of, Every, n
  <2>2. IsFiniteSet(1 .. n) /\ Cardinality(1 .. n) = n
    <3>1. 1 \in Int /\ n \in Int /\ ~ (1 > n /\ n # 0) /\ n - 1 + 1 = n
      BY <1>3
    <3> QED BY <1>3, <3>1, FS_Interval
  <2> QED BY <2>1, <2>2, FS_Surjection
<1>5. Got \subseteq Every
  <2> SUFFICES ASSUME NEW q \in Similar(C, p) PROVE q[2] \in Every
    OBVIOUS
  <2>1. q \in C /\ q[2].path = path
    BY DEF Similar
  <2>2. q[2] \in DictSubs
    BY <2>1
  <2>3. PICK a \in Range(RuleDict[A]) : q[2].dn = a.dn
    BY <2>1, <2>2 DEF DictSubs, Derivable, LastSymbol
  <2>4. PICK i \in 1 .. n : a = RuleDict[A][i]
    BY <1>3, <2>3 DEF Range
  <2>5. q[2] = [path |-> path, dn |-> a.dn]
    BY <2>1, <2>2, <2>3 DEF DictSubs, SubsOver
  <2>6. q[2] = of[i]
    BY <2>4, <2>5 DEF SubSequence
  <2> QED BY <2>6
<1>6. Cardinality(Got) = n
  <2>1. Cardinality({q[2] : q \in Similar(C, p)}) = Len(RuleDict[LastSymbol(p[2])])
    BY DEF Exhausts
  <2> QED BY <1>1, <2>1
<1>7. Got = Every
  <2> HIDE DEF Got, Every, n
  <2>1. Cardinality(Got) <= Cardinality(Every)
    BY <1>4, <1>5, FS_Subset
  <2>2. Cardinality(Every) \in Nat
    BY <1>4, FS_CardinalityType
  <2>3. Cardinality(Every) = Cardinality(Got)
    BY <1>3, <1>4, <1>6, <2>1, <2>2
  <2> QED BY <1>4, <1>5, <2>3, FS_Subset
<1>8. PICK i \in 1 .. n : alt = RuleDict[A][i]
  BY <1>1, <1>3 DEF Range
<1>9. of[i] = SubSequence(path, alt.dn)
  BY <1>8
<1>10. of[i] \in Got
  BY <1>7
<1> QED BY <1>9, <1>10

\* A rule in which merging has put an expansion of the parent in place of a symbol
\* stands for the rules with that symbol below it, if each of them occurs.
LEMMA MergedStands ==
  ASSUME NEW lists, NEW inter, NEW x \in DictSubs, Len(x.path) # 1,
         NEW s \in Parents(RuleDict, x),
         \A alt \in Range(RuleDict[LastSymbol(x)]) :
           Occurs(inter \cup {SubSequence(x.path, alt.dn)}, lists)
  PROVE  StandsForOccurring(inter \cup {s}, lists)
<1> DEFINE X == LastSymbol(x)
           u == Before(x)
           rule == inter \cup {s}
<1>1. PICK alt \in Range(RuleDict[u[Len(u)]]) :
        s = SubSequence(u, alt.dn) /\ X \in Range(alt.exp)
  BY DEF Parents
<1>2. s.path = u /\ s.dn = alt.dn /\ LastSymbol(s) = u[Len(u)]
  <2>1. s = [path |-> u, dn |-> alt.dn]
    BY <1>1 DEF SubSequence
  <2>2. s.path = u /\ s.dn = alt.dn
    BY <2>1
  <2> QED BY <2>2 DEF LastSymbol
<1>3. X \in DOMAIN RuleDict /\ Append(u, X) = x.path
  <2>1. x.path \in Seq(DOMAIN RuleDict) \ {<<>>} /\ x \in SubsOver(DOMAIN RuleDict, Nat)
    BY DEF DictSubs, SubsOver
  <2> DEFINE p == x.path
             n == Len(p)
  <2>2. /\ n \in Nat \ {0} /\ u \in Seq(DOMAIN RuleDict) /\ Len(u) = n - 1
        /\ \A k \in 1 .. n - 1 : u[k] = p[k]
    BY <2>1, BeforeIs
  <2>3. X = p[n]
    BY DEF LastSymbol
  <2> HIDE DEF u, X, p
  <2>4. p \in Seq(DOMAIN RuleDict) /\ n \in 1 .. n /\ DOMAIN p = 1 .. n
    BY <2>1, <2>2 DEF p
  <2>5. X \in DOMAIN RuleDict
    BY <2>3, <2>4
  <2>6. Append(u, X) = p
    BY <2>2, <2>3, <2>4, <2>5
  <2> QED BY <2>5, <2>6 DEF p
<1>4. ASSUME NEW below \in Range(RuleDict[X])
      PROVE  Occurs((rule \ {s}) \cup {SubSequence(Append(s.path, X), below.dn)}, lists)
  <2> DEFINE y == SubSequence(x.path, below.dn)
  <2>1. Append(s.path, X) = x.path
    BY <1>2, <1>3
  <2>2. Occurs(inter \cup {y}, lists)
    OBVIOUS
  <2>3. SubSequence(Append(s.path, X), below.dn) = y
    BY <2>1
  <2> HIDE DEF y
  <2>4. (rule \ {s}) \cup {y} \subseteq inter \cup {y}
    OBVIOUS
  <2> QED BY <2>2, <2>3, <2>4, FewerOccur
<1> HIDE DEF u, X
<1>5. s \in rule /\ alt.dn = s.dn /\ alt \in Range(RuleDict[LastSymbol(s)])
  BY <1>1, <1>2
<1> HIDE DEF rule
<1>6. StandsForOccurring(rule, lists)
  BY <1>1, <1>3, <1>4, <1>5 DEF StandsForOccurring
<1> QED BY <1>6 DEF rule

\* What removal and merging make of rules that were taken from the lists occurs, or
\* stands for rules that do.
LEMMA MergedListOccurs ==
  ASSUME NEW lists, \A l \in lists : l \subseteq DictSubs,
         NEW captured \in RuleLists, \A r \in captured : TakenFrom(r, lists),
         \A m \in Merging(RuleDict, captured) : m.inter \subseteq m.entry[1],
         NEW kept \in RuleLists, kept \subseteq captured, ~ MergeFails(RuleDict, kept)
  PROVE  \A r \in MergeRules(RuleDict, kept) : Occurs(r, lists) \/ StandsForOccurring(r, lists)
<1> SUFFICES ASSUME NEW r \in MergeRules(RuleDict, kept)
             PROVE  Occurs(r, lists) \/ StandsForOccurring(r, lists)
  OBVIOUS
<1>1. CASE r \in kept
  <2>1. TakenFrom(r, lists)
    BY <1>1
  <2> QED BY <2>1, TakenOccurs
<1>2. CASE r \notin kept
  <2>1. PICK m \in Merging(RuleDict, kept) :
          r \in {m.inter \cup {s} : s \in Parents(RuleDict, m.entry[2])}
    BY <1>2 DEF MergeRules
  <2>2. PICK s \in Parents(RuleDict, m.entry[2]) : r = m.inter \cup {s}
    BY <2>1
  <2> DEFINE inter == m.inter
             p == m.entry
             F == ToMerge(kept, inter)
  <2>3. p \in F /\ Exhausts(RuleDict, F, p)
    BY MergingIs
  <2>4. \A c \in F : c[2] \in DictSubs
    BY ToMergeIs
  <2>5. ASSUME NEW q \in Similar(F, p) PROVE Occurs(inter \cup {q[2]}, lists)
    <3> DEFINE u == [inter |-> inter, entry |-> q]
    <3>1. q[1] \in kept /\ q[2] \in q[1] /\ u \in Merging(RuleDict, captured)
      BY MergingOfMore
    <3>2. u.inter = inter /\ u.entry = q
      OBVIOUS
    <3> HIDE DEF u, inter
    <3>3. inter \subseteq q[1]
      BY <3>1, <3>2
    <3>4. Occurs(q[1], lists)
      BY <3>1, TakenOccurs
    <3>5. inter \cup {q[2]} \subseteq q[1]
      BY <3>1, <3>3
    <3> QED BY <3>4, <3>5, FewerOccur
  <2> HIDE DEF F
  <2>6. ASSUME NEW alt \in Range(RuleDict[LastSymbol(p[2])])
        PROVE  Occurs(inter \cup {SubSequence(p[2].path, alt.dn)}, lists)
    <3>1. PICK q \in Similar(F, p) : q[2] = SubSequence(p[2].path, alt.dn)
      BY <2>3, <2>4, EveryExpansion
    <3>2. Occurs(inter \cup {q[2]}, lists)
      BY <2>5
    <3> QED BY <3>1, <3>2
  <2>7. p[2] \in DictSubs
    BY <2>3, <2>4
  <2>8. Len(p[2].path) # 1
    BY DEF MergeFails
  <2>9. s \in Parents(RuleDict, p[2]) /\ r = inter \cup {s}
    BY <2>2
  <2> HIDE DEF inter, p
  <2>10. StandsForOccurring(inter \cup {s}, lists)
    BY <2>6, <2>7, <2>8, <2>9, MergedStands
  <2> QED BY <2>9, <2>10
<1> QED BY <1>1, <1>2

\* The clusters are some of those that may be analysed, and whatever was captured of
\* them consists of finitely many rules.
UpdateInv ==
  /\ clusters \in Analysed /\ DOMAIN rules \subseteq DOMAIN clusters
  /\ \A c \in DOMAIN rules : rules[c] \in RuleLists
  /\ RulesReadBack
  /\ RulesLeaveTrace

\* The rules of all clusters are a list of rules.
LEMMA CapturedRulesAre ==
  ASSUME UpdateInv
  PROVE  CapturedRules \in RuleLists
<1> DEFINE T == {rules[c] : c \in DOMAIN rules}
<1>1. IsFiniteSet(DOMAIN rules)
  <2>1. IsFiniteSet(DOMAIN clusters)
    BY AnalysedAssumption DEF UpdateInv, AnalysedAssumption
  <2> QED BY <2>1, FS_Subset DEF UpdateInv
<1>2. IsFiniteSet(T)
  BY <1>1, FiniteImage
<1>3. \A R \in T : IsFiniteSet(R) /\ R \subseteq FiniteSubsets(DictSubs) \ {{}}
  <2>1. \A R \in T : R \in RuleLists
    BY DEF UpdateInv
  <2> HIDE DEF T
  <2> QED BY <2>1 DEF RuleLists, FiniteSubsets
<1>4. CapturedRules = UNION T
  BY DEF CapturedRules
<1> HIDE DEF T
<1>5. IsFiniteSet(UNION T)
  BY <1>2, <1>3, FS_UNION
<1>6. UNION T \subseteq FiniteSubsets(DictSubs) \ {{}}
  BY <1>3
<1> QED BY <1>4, <1>5, <1>6 DEF RuleLists, FiniteSubsets

\* The invariant holds before anything is captured.
LEMMA InitUpdate == UpdateInit => UpdateInv
<1> SUFFICES ASSUME UpdateInit PROVE UpdateInv
  OBVIOUS
<1>1. DOMAIN rules = {} /\ clusters \in Analysed
  BY DEF UpdateInit
<1>2. RulesReadBack
  BY EmptyTableIs DEF UpdateInit, RulesReadBack
<1>3. RulesLeaveTrace
  BY DEF UpdateInit, RulesLeaveTrace
<1> QED BY <1>1, <1>2, <1>3 DEF UpdateInv

\* The clusters hold lists of sub-sequences of the grammar's trees.
LEMMA ClustersAre ==
  ASSUME UpdateInv, NEW c \in DOMAIN clusters
  PROVE  clusters[c] \in InputLists
<1>1. /\ IsFiniteSet(clusters[c])
      /\ \A l \in clusters[c] : IsFiniteSet(l) /\ \A s \in l : Derivable(s)
  BY AnalysedAssumption DEF UpdateInv, AnalysedAssumption
<1>2. \A s : Derivable(s) => s \in DictSubs
  BY DEF Derivable, DictSubs, SubsOver
<1> QED BY <1>1, <1>2 DEF InputLists, FiniteSubsets

\* Capturing the rules of a cluster keeps it.
LEMMA CaptureUpdate ==
  ASSUME UpdateInv, NEW c \in DOMAIN clusters, CaptureRuleFromCluster(c)
  PROVE  UpdateInv'
<1>1. PICK lists \in Simplified(clusters[c]) :
        \E sorted \in ByLength(UNION lists) :
          \E captured \in Captured(lists, sorted) :
            \E kept \in Redundant(RulesOfLists(lists, captured)) : rules' = With(rules, c, kept)
  BY DEF CaptureRuleFromCluster
<1>2. PICK sorted \in ByLength(UNION lists) :
        \E captured \in Captured(lists, sorted) :
          \E kept \in Redundant(RulesOfLists(lists, captured)) : rules' = With(rules, c, kept)
  BY <1>1
<1>3. PICK captured \in Captured(lists, sorted) :
        \E kept \in Redundant(RulesOfLists(lists, captured)) : rules' = With(rules, c, kept)
  BY <1>2
<1>4. PICK kept \in Redundant(RulesOfLists(lists, captured)) : rules' = With(rules, c, kept)
  BY <1>3
<1>5. clusters[c] \in InputLists
  BY ClustersAre
<1>6. lists \in InputLists
  BY <1>5, SimplifiedAre
<1>7. kept \in RuleLists
  BY <1>6, CapturedAre
<1>8. UNCHANGED <<version, clusters, listed, forGenerator, stage>> /\ stage = "capture"
  BY DEF CaptureRuleFromCluster
<1>9. /\ DOMAIN rules' = DOMAIN rules \cup {c}
      /\ \A d \in DOMAIN rules' : rules'[d] = IF d = c THEN kept ELSE rules[d]
  BY <1>4 DEF With
<1>10. DOMAIN rules' \subseteq DOMAIN clusters /\ \A d \in DOMAIN rules' : rules'[d] \in RuleLists
  BY <1>7, <1>9 DEF UpdateInv
<1>11. RulesReadBack'
  BY <1>8 DEF UpdateInv, RulesReadBack
<1>12. RulesLeaveTrace'
  BY <1>8 DEF RulesLeaveTrace
<1> QED BY <1>8, <1>10, <1>11, <1>12 DEF UpdateInv

\* So does making the table of thinned out rules.
LEMMA MakeUpdate ==
  ASSUME UpdateInv, MakePL
  PROVE  UpdateInv'
<1>1. PICK first \in BySize(CapturedRules) :
        LET kept == RemoveIncludedSeqs(first)
        IN  IF MergeFails(RuleDict, kept)
            THEN stage' = "failed" /\ UNCHANGED <<listed, forGenerator>>
            ELSE /\ stage' = "done"
                 /\ \E second \in BySize(MergeRules(RuleDict, kept)) :
                      listed' = RemoveIncludedSeqs(second)
                 /\ forGenerator' = MakeTable(SetToSeq(listed'))
  BY DEF MakePL
<1> DEFINE kept == RemoveIncludedSeqs(first)
<1>2. UNCHANGED <<version, clusters, rules>>
  BY DEF MakePL
<1>3. CapturedRules' = CapturedRules /\ PartlyMerged' = PartlyMerged
  BY <1>2 DEF CapturedRules, PartlyMerged, Refines
<1>4. /\ clusters' \in Analysed /\ DOMAIN rules' \subseteq DOMAIN clusters'
      /\ \A c \in DOMAIN rules' : rules'[c] \in RuleLists
  BY <1>2 DEF UpdateInv
<1>5. CapturedRules \in RuleLists
  BY CapturedRulesAre
<1>6. CASE MergeFails(RuleDict, kept)
  <2>1. stage' = "failed" /\ UNCHANGED <<listed, forGenerator>>
    BY <1>1, <1>6
  <2>2. RulesReadBack'
    BY <2>1 DEF UpdateInv, RulesReadBack
  <2>3. RulesLeaveTrace'
    BY <2>1 DEF RulesLeaveTrace
  <2> QED BY <1>4, <2>2, <2>3 DEF UpdateInv
<1>7. CASE ~ MergeFails(RuleDict, kept)
  <2>1. PICK second \in BySize(MergeRules(RuleDict, kept)) :
          listed' = RemoveIncludedSeqs(second) /\ forGenerator' = MakeTable(SetToSeq(listed'))
    BY <1>1, <1>7
  <2>2. listed' \in RuleLists
    <3>1. kept \in RuleLists
      BY <1>5, RemovedFromList
    <3>2. MergeRules(RuleDict, kept) \in RuleLists
      BY <1>7, <3>1, MergeRulesAre
    <3> QED BY <2>1, <3>2, RemovedFromList
  <2>3. WellFormed(forGenerator') /\ RulesOf(forGenerator') = listed'
    BY <2>1, <2>2, TableOfRules
  <2>4. RulesReadBack'
    BY <2>3 DEF RulesReadBack
  <2>5. RulesLeaveTrace'
    <3> SUFFICES ASSUME ~ PartlyMerged, NEW r \in CapturedRules
                 PROVE  \E k \in listed' : LeavesTrace(k, r)
      BY <1>3, <2>3 DEF RulesLeaveTrace, LeavesTrace
    <3>1. \A m \in Merging(RuleDict, CapturedRules) : m.inter \subseteq m.entry[1]
      BY DEF PartlyMerged, MakePL
    <3> QED BY <1>5, <1>7, <2>1, <3>1, ThinningLeavesTrace
  <2> QED BY <1>4, <2>4, <2>5 DEF UpdateInv
<1> QED BY <1>6, <1>7

\* So does making it of all rules.
LEMMA MakeUpdateOfAll ==
  ASSUME UpdateInv, MakePLOfAll
  PROVE  UpdateInv'
<1>1. /\ listed' = CapturedRules /\ forGenerator' = MakeTable(SetToSeq(listed'))
      /\ UNCHANGED <<version, clusters, rules>>
  BY DEF MakePLOfAll
<1>2. CapturedRules' = CapturedRules
  BY <1>1 DEF CapturedRules
<1>3. WellFormed(forGenerator') /\ RulesOf(forGenerator') = listed'
  BY <1>1, CapturedRulesAre, TableOfRules
<1>4. RulesReadBack'
  BY <1>3 DEF RulesReadBack
<1>5. RulesLeaveTrace'
  BY <1>1, <1>2, <1>3 DEF RulesLeaveTrace
<1> QED BY <1>1, <1>4, <1>5 DEF UpdateInv

\* So does every step of an update.
LEMMA NextUpdate == UpdateInv /\ [UpdateNext]_updateVars => UpdateInv'
<1> SUFFICES ASSUME UpdateInv, [UpdateNext]_updateVars PROVE UpdateInv'
  OBVIOUS
<1>1. CASE \E c \in DOMAIN clusters : CaptureRuleFromCluster(c)
  BY <1>1, CaptureUpdate
<1>2. CASE MakePL
  BY <1>2, MakeUpdate
<1>3. CASE MakePLOfAll
  BY <1>3, MakeUpdateOfAll
<1>4. CASE UNCHANGED updateVars
  <2>1. UNCHANGED <<version, clusters, rules, listed, forGenerator, stage>>
    BY <1>4 DEF updateVars
  <2>2. CapturedRules' = CapturedRules /\ PartlyMerged' = PartlyMerged
    BY <2>1 DEF CapturedRules, PartlyMerged, Refines
  <2>3. RulesReadBack' = RulesReadBack
    BY <2>1 DEF RulesReadBack
  <2>4. RulesLeaveTrace' = RulesLeaveTrace
    BY <2>1, <2>2 DEF RulesLeaveTrace
  <2> QED BY <2>1, <2>3, <2>4 DEF UpdateInv
<1> QED BY <1>1, <1>2, <1>3, <1>4 DEF UpdateNext, Ended

\* The invariant of an update.
LEMMA UpdateInvariant == UpdateSpec => []UpdateInv
BY InitUpdate, NextUpdate, PTL DEF UpdateSpec

AllLists == UNION {clusters[c] : c \in DOMAIN clusters}

\* What TableOccurs says of a rule.
Evident(rule, lists) == Occurs(rule, lists) \/ StandsForOccurring(rule, lists)

\* Each captured rule is taken from one list of its cluster.
RulesTaken ==
  \A c \in DOMAIN rules :
    ~ Confused(Compared(clusters[c])) => \A r \in rules[c] : TakenFrom(r, clusters[c])

\* Where the rules of an update come from, and the table has none before it is made.
OriginInv == (stage = "capture" => listed = {}) /\ RulesTaken /\ TableOccurs

\* It is enough to look at the rules of the next state.
LEMMA RulesTakenNext ==
  ASSUME UNCHANGED <<version, clusters>>,
         \A c \in DOMAIN rules' :
           ~ Confused(Compared(clusters[c])) => \A r \in rules'[c] : TakenFrom(r, clusters[c])
  PROVE  RulesTaken'
BY DEF RulesTaken, Compared, TakenFrom, Shortened, Refines

\* All lists, and the rules taken from them.
LEMMA AllListsAre ==
  ASSUME UpdateInv, OriginInv
  PROVE  /\ \A l \in AllLists : l \subseteq DictSubs
         /\ ~ Confused(Compared(AllLists)) => \A r \in CapturedRules : TakenFrom(r, AllLists)
<1>1. \A l \in AllLists : l \subseteq DictSubs
  <2> SUFFICES ASSUME NEW c \in DOMAIN clusters, NEW l \in clusters[c] PROVE l \subseteq DictSubs
    BY DEF AllLists
  <2> QED BY ClustersAre DEF InputLists, FiniteSubsets
<1>2. ASSUME ~ Confused(Compared(AllLists)), NEW r \in CapturedRules
      PROVE  TakenFrom(r, AllLists)
  <2>1. PICK c \in DOMAIN rules : r \in rules[c]
    BY DEF CapturedRules
  <2>2. c \in DOMAIN clusters
    BY <2>1 DEF UpdateInv
  <2>3. clusters[c] \subseteq AllLists
    BY <2>2 DEF AllLists
  <2> HIDE DEF AllLists
  <2>4. Compared(clusters[c]) \subseteq Compared(AllLists)
    BY <2>3 DEF Compared
  <2>5. ~ Confused(Compared(clusters[c]))
    BY <1>2, <2>4 DEF Confused
  <2>6. TakenFrom(r, clusters[c])
    BY <2>1, <2>5 DEF OriginInv, RulesTaken
  <2> QED BY <2>3, <2>6 DEF TakenFrom
<1> QED BY <1>1, <1>2

\* There are no rules at first.
LEMMA InitOrigin == UpdateInit => OriginInv
<1> SUFFICES ASSUME UpdateInit PROVE OriginInv
  OBVIOUS
<1>1. DOMAIN rules = {} /\ listed = {} /\ forGenerator = EmptyTable
  BY DEF UpdateInit
<1>2. RulesOf(forGenerator) = {}
  BY <1>1, EmptyTableIs
<1>3. TableOccurs
  BY <1>2 DEF TableOccurs
<1>4. RulesTaken
  BY <1>1 DEF RulesTaken
<1> QED BY <1>1, <1>3, <1>4 DEF OriginInv

\* What is captured of a cluster is taken from its lists.
LEMMA CaptureOrigin ==
  ASSUME UpdateInv, UpdateInv', OriginInv, NEW c \in DOMAIN clusters, CaptureRuleFromCluster(c)
  PROVE  OriginInv'
<1>1. PICK lists \in Simplified(clusters[c]) :
        \E sorted \in ByLength(UNION lists) :
          \E captured \in Captured(lists, sorted) :
            \E kept \in Redundant(RulesOfLists(lists, captured)) : rules' = With(rules, c, kept)
  BY DEF CaptureRuleFromCluster
<1>2. PICK sorted \in ByLength(UNION lists) :
        \E captured \in Captured(lists, sorted) :
          \E kept \in Redundant(RulesOfLists(lists, captured)) : rules' = With(rules, c, kept)
  BY <1>1
<1>3. PICK captured \in Captured(lists, sorted) :
        \E kept \in Redundant(RulesOfLists(lists, captured)) : rules' = With(rules, c, kept)
  BY <1>2
<1>4. PICK kept \in Redundant(RulesOfLists(lists, captured)) : rules' = With(rules, c, kept)
  BY <1>3
<1>5. clusters[c] \in InputLists
  BY ClustersAre
<1>6. lists \in InputLists
  BY <1>5, SimplifiedAre
<1>7. kept \subseteq RulesOfLists(lists, captured)
  BY <1>6, CapturedAre
<1>8. ~ Confused(Compared(clusters[c])) => \A r \in kept : TakenFrom(r, clusters[c])
  BY <1>5, <1>7, CapturedTaken
<1>9. UNCHANGED <<version, clusters, listed, forGenerator, stage>> /\ stage = "capture"
  BY DEF CaptureRuleFromCluster
<1>10. /\ DOMAIN rules' = DOMAIN rules \cup {c}
       /\ \A d \in DOMAIN rules' : rules'[d] = IF d = c THEN kept ELSE rules[d]
  BY <1>4 DEF With
<1>12. \A d \in DOMAIN rules' :
         ~ Confused(Compared(clusters[d])) => \A r \in rules'[d] : TakenFrom(r, clusters[d])
  <2> SUFFICES ASSUME NEW d \in DOMAIN rules', ~ Confused(Compared(clusters[d])),
                      NEW r \in rules'[d]
               PROVE  TakenFrom(r, clusters[d])
    OBVIOUS
  <2>1. CASE d = c
    BY <1>8, <1>10, <2>1
  <2>2. CASE d # c
    BY <1>10, <2>2 DEF OriginInv, RulesTaken
  <2> QED BY <2>1, <2>2
<1>13. RulesTaken'
  BY <1>9, <1>12, RulesTakenNext
<1>14. listed' = {} /\ RulesOf(forGenerator') = {}
  <2>1. listed' = {}
    BY <1>9 DEF OriginInv
  <2> QED BY <2>1 DEF UpdateInv, RulesReadBack
<1>15. TableOccurs'
  BY <1>14 DEF TableOccurs
<1> QED BY <1>13, <1>14, <1>15 DEF OriginInv

\* What the next table has to show, when it is made of what was captured.
LEMMA TableOrigin ==
  ASSUME UpdateInv', OriginInv, UNCHANGED <<version, clusters, rules>>, stage' # "capture",
         ~ Confused(Compared(AllLists)) /\ ~ PartlyMerged => \A r \in listed' : Evident(r, AllLists)
  PROVE  OriginInv'
<1>1. RulesOf(forGenerator') = listed'
  BY DEF UpdateInv, RulesReadBack
<1>2. CapturedRules' = CapturedRules
  BY DEF CapturedRules
<1>3. PartlyMerged' = PartlyMerged
  BY <1>2 DEF PartlyMerged, Refines
<1>4. Compared(AllLists)' = Compared(AllLists) /\ AllLists' = AllLists
  BY DEF Compared, Refines, AllLists
<1>5. TableOccurs'
  <2>1. (~ Confused(Compared(AllLists)) /\ ~ PartlyMerged =>
           \A r \in RulesOf(forGenerator) : Evident(r, AllLists))'
    BY <1>1, <1>3, <1>4
  <2> QED BY <2>1 DEF TableOccurs, AllLists, Evident
<1>6. RulesTaken'
  <2>1. rules' = rules /\ UNCHANGED <<version, clusters>> /\ RulesTaken
    BY DEF OriginInv
  <2> QED BY <2>1, RulesTakenNext DEF RulesTaken
<1> QED BY <1>5, <1>6 DEF OriginInv

\* What removal and merging put into the table occurs.
LEMMA MakeOrigin ==
  ASSUME UpdateInv, UpdateInv', OriginInv, MakePL
  PROVE  OriginInv'
<1>1. PICK first \in BySize(CapturedRules) :
        LET kept == RemoveIncludedSeqs(first)
        IN  IF MergeFails(RuleDict, kept)
            THEN stage' = "failed" /\ UNCHANGED <<listed, forGenerator>>
            ELSE /\ stage' = "done"
                 /\ \E second \in BySize(MergeRules(RuleDict, kept)) :
                      listed' = RemoveIncludedSeqs(second)
                 /\ forGenerator' = MakeTable(SetToSeq(listed'))
  BY DEF MakePL
<1> DEFINE kept == RemoveIncludedSeqs(first)
<1>2. UNCHANGED <<version, clusters, rules>> /\ Refines /\ stage = "capture"
  BY DEF MakePL, AllCaptured
<1>3. stage' # "capture"
  BY <1>1
<1>4. ASSUME ~ Confused(Compared(AllLists)), ~ PartlyMerged, NEW r \in listed'
      PROVE  Evident(r, AllLists)
  <2>1. CASE MergeFails(RuleDict, kept)
    <3>1. listed' = {}
      BY <1>1, <1>2, <2>1 DEF OriginInv
    <3> QED BY <1>4, <3>1
  <2>2. CASE ~ MergeFails(RuleDict, kept)
    <3>1. PICK second \in BySize(MergeRules(RuleDict, kept)) :
            listed' = RemoveIncludedSeqs(second)
      BY <1>1, <2>2
    <3>2. CapturedRules \in RuleLists
      BY CapturedRulesAre
    <3>3. kept \in RuleLists /\ kept \subseteq CapturedRules
      BY <3>2, RemovedFromList
    <3>4. MergeRules(RuleDict, kept) \in RuleLists
      BY <2>2, <3>3, MergeRulesAre
    <3>5. listed' \subseteq MergeRules(RuleDict, kept)
      BY <3>1, <3>4, RemovedFromList
    <3>6. \A m \in Merging(RuleDict, CapturedRules) : m.inter \subseteq m.entry[1]
      BY <1>2, <1>4 DEF PartlyMerged
    <3>7. /\ \A l \in AllLists : l \subseteq DictSubs
          /\ \A x \in CapturedRules : TakenFrom(x, AllLists)
      BY <1>4, AllListsAre
    <3> HIDE DEF kept
    <3>8. \A x \in MergeRules(RuleDict, kept) : Evident(x, AllLists)
      BY <2>2, <3>2, <3>3, <3>6, <3>7, MergedListOccurs DEF Evident
    <3> QED BY <1>4, <3>5, <3>8
  <2> QED BY <2>1, <2>2
<1> QED BY <1>2, <1>3, <1>4, TableOrigin

\* So do the rules of versions that thin out nothing.
LEMMA MakeOriginOfAll ==
  ASSUME UpdateInv, UpdateInv', OriginInv, MakePLOfAll
  PROVE  OriginInv'
<1>1. listed' = CapturedRules /\ UNCHANGED <<version, clusters, rules>> /\ stage' = "done"
  BY DEF MakePLOfAll
<1>2. ASSUME ~ Confused(Compared(AllLists)), NEW r \in listed'
      PROVE  Evident(r, AllLists)
  <2>1. /\ \A l \in AllLists : l \subseteq DictSubs
        /\ TakenFrom(r, AllLists)
    BY <1>1, <1>2, AllListsAre
  <2> QED BY <2>1, TakenOccurs DEF Evident
<1> QED BY <1>1, <1>2, TableOrigin

\* Every step keeps where the rules come from.
LEMMA NextOrigin ==
  UpdateInv /\ UpdateInv' /\ OriginInv /\ [UpdateNext]_updateVars => OriginInv'
<1> SUFFICES ASSUME UpdateInv, UpdateInv', OriginInv, [UpdateNext]_updateVars
             PROVE  OriginInv'
  OBVIOUS
<1>1. CASE \E c \in DOMAIN clusters : CaptureRuleFromCluster(c)
  BY <1>1, CaptureOrigin
<1>2. CASE MakePL
  BY <1>2, MakeOrigin
<1>3. CASE MakePLOfAll
  BY <1>3, MakeOriginOfAll
<1>4. CASE UNCHANGED updateVars
  <2>1. UNCHANGED <<version, clusters, rules, listed, forGenerator, stage>>
    BY <1>4 DEF updateVars
  <2>2. CapturedRules' = CapturedRules
    BY <2>1 DEF CapturedRules
  <2>3. PartlyMerged' = PartlyMerged
    BY <2>1, <2>2 DEF PartlyMerged, Refines
  <2>4. TableOccurs' = TableOccurs
    BY <2>1, <2>3 DEF TableOccurs, Compared, Refines
  <2>5. RulesTaken'
    BY <2>1, RulesTakenNext DEF OriginInv, RulesTaken
  <2> QED BY <2>1, <2>4, <2>5 DEF OriginInv
<1> QED BY <1>1, <1>2, <1>3, <1>4 DEF UpdateNext, Ended

\* The two invariants together.
LEMMA OriginInvariant == UpdateSpec => [](UpdateInv /\ OriginInv)
<1>1. UpdateInit => UpdateInv /\ OriginInv
  BY InitUpdate, InitOrigin
<1>2. UpdateInv /\ OriginInv /\ [UpdateNext]_updateVars => (UpdateInv /\ OriginInv)'
  BY NextUpdate, NextOrigin
<1> QED BY <1>1, <1>2, PTL DEF UpdateSpec

\* Theorem: the table that an update hands to the generator (generateRS.py, "Make PL
\* for generator") is consistent and stands for exactly the rules of the update,
\* for any grammar and any lists of sub-sequences of its trees.
THEOREM RulesReadBackAlways == UpdateSpec => []RulesReadBack
<1>1. UpdateInv => RulesReadBack
  BY DEF UpdateInv
<1> QED BY <1>1, UpdateInvariant, PTL

\* Theorem: removing included rules, merging and removing again (remove_included_seqs
\* and merge_rules) lose no captured rule without trace: the table has a rule of
\* which each member ends like one of its own, or in the expansion above one, unless
\* a rule was merged that has only a part of the intersection.
THEOREM NoRuleVanishes == UpdateSpec => []RulesLeaveTrace
<1>1. UpdateInv => RulesLeaveTrace
  BY DEF UpdateInv
<1> QED BY <1>1, UpdateInvariant, PTL

\* Theorem: a captured rule (capture_rule_from_cluster), although it is put together
\* from a ranking over all inputs of its cluster, is a combination that one of them
\* has, unless compare_subpaths confuses two of their sub-sequences.
THEOREM CapturedRulesOccur == UpdateSpec => []CapturedOccur
<1>1. UpdateInv /\ OriginInv => CapturedOccur
  <2> SUFFICES ASSUME UpdateInv, OriginInv, NEW c \in DOMAIN rules,
                      ~ Confused(Compared(clusters[c])), NEW r \in rules[c]
               PROVE  Occurs(r, clusters[c])
    BY DEF CapturedOccur
  <2>1. clusters[c] \in InputLists
    BY ClustersAre DEF UpdateInv
  <2>2. \A l \in clusters[c] : l \subseteq DictSubs
    BY <2>1 DEF InputLists, FiniteSubsets
  <2>3. TakenFrom(r, clusters[c])
    BY DEF OriginInv, RulesTaken
  <2> QED BY <2>1, <2>2, <2>3, TakenOccurs
<1> QED BY <1>1, OriginInvariant, PTL

\* Theorem: the table excludes a combination only on the evidence of inputs: after
\* remove_included_seqs and merge_rules each of its rules is a combination that an
\* analysed input has, or stands for combinations that analysed inputs have, one for
\* every expansion of the symbol below one of its members, unless sub-sequences were
\* confused or a rule was merged that has only a part of the intersection.
THEOREM TableRulesOccur == UpdateSpec => []TableOccurs
<1>1. UpdateInv /\ OriginInv => TableOccurs
  BY DEF OriginInv
<1> QED BY <1>1, OriginInvariant, PTL

-----------------------------------------------------------------------------
(* The cost table that calculate_depths makes.                               *)

MaybeDepth == Nat \cup {None}

\* What depths_dict holds between two steps of the loops.
DepthsDicts ==
  {d \in [cost  : [Nonterminals -> PartialFunctions(Nat, MaybeDepth)],
          depth : [Nonterminals -> MaybeDepth],
          cut   : Nat] :
     \A A \in Nonterminals : DOMAIN d.cost[A] = DOMAIN Grammar[A]}

\* The nonterminals of an expansion.
Inside(exp) == {exp[k] : k \in {k \in DOMAIN exp : exp[k] \in Nonterminals}}

\* A known cost is 999 for an expansion into its own token, and otherwise the
\* greatest depth in the expansion.
CostIs(d, A, j) ==
  LET exp  == Grammar[A][j].exp
      cost == d.cost[A][j]
  IN  /\ A \in Inside(exp) => cost = 999
      /\ A \notin Inside(exp) =>
           /\ \A B \in Inside(exp) : d.depth[B] \in Nat /\ d.depth[B] <= cost
           /\ cost = 0 \/ \E B \in Inside(exp) : cost = d.depth[B]

\* A cost that is still unknown will be no smaller than minimum_cut: the
\* expansion has a token of no depth yet, or of a greater one.
CostOpen(d, A, j) ==
  LET exp == Grammar[A][j].exp
  IN  d.cut = 0 \/ (A \notin Inside(exp) /\
                    \E B \in Inside(exp) : d.depth[B] = None \/ d.depth[B] > d.cut)

\* No known cost of a token without depth is below minimum_cut.
NoCheaper(d, A) ==
  \A j \in DOMAIN Grammar[A] : d.cost[A][j] # None => d.cost[A][j] >= d.cut

\* A depth is one more than the least known cost, and no cost to come is less.
DepthIs(d, A) ==
  /\ \E j \in DOMAIN Grammar[A] : d.cost[A][j] # None /\ d.depth[A] = d.cost[A][j] + 1
  /\ \A j \in DOMAIN Grammar[A] : d.cost[A][j] # None => d.depth[A] <= d.cost[A][j] + 1
  /\ d.depth[A] <= d.cut + 1 \/ \A j \in DOMAIN Grammar[A] : d.cost[A][j] # None

\* What the loops keep true of every token.
DepthsInv(d) ==
  \A A \in Nonterminals :
    /\ \A j \in DOMAIN Grammar[A] : IF d.cost[A][j] = None THEN CostOpen(d, A, j)
                                                           ELSE CostIs(d, A, j)
    /\ IF d.depth[A] = None THEN NoCheaper(d, A) ELSE DepthIs(d, A)

\* From d to e no known value has changed.
KeepsKnown(d, e) ==
  /\ e.cut = d.cut
  /\ \A A \in Nonterminals :
       /\ d.depth[A] # None => e.depth[A] = d.depth[A]
       /\ \A j \in DOMAIN Grammar[A] : d.cost[A][j] # None => e.cost[A][j] = d.cost[A][j]

\* From d to e no value has become known.
NoProgress(d, e) ==
  \A A \in Nonterminals :
    /\ d.depth[A] = None => e.depth[A] = None
    /\ \A j \in DOMAIN Grammar[A] : d.cost[A][j] = None => e.cost[A][j] = None

\* Nothing can become known of a token at this minimum_cut, before some other depth.
Stuck(d, A) ==
  /\ d.depth[A] = None => \A j \in DOMAIN Grammar[A] : d.cost[A][j] # d.cut
  /\ \A j \in DOMAIN Grammar[A] : d.cost[A][j] = None =>
       /\ A \notin Inside(Grammar[A][j].exp)
       /\ \E B \in Inside(Grammar[A][j].exp) : d.depth[B] = None

\* A family of subsets of D, and that one of them is minimal.
FamilyOf(Family, D) == Family # {} /\ \A T \in Family : T \subseteq D
HasMinimal(Family) == \E T \in Family : \A U \in Family : U \subseteq T => U = T

LEMMA MinimalMember ==
  ASSUME NEW D, IsFiniteSet(D), NEW Family, FamilyOf(Family, D)
  PROVE  HasMinimal(Family)
<1>1. IsFiniteSet(D) /\ Family \in SUBSET (SUBSET D) /\ Family # {}
  BY DEF FamilyOf
<1>2. \E T \in Family : \A U \in Family : U \subseteq T => U = T
  BY <1>1, MinimalSet
<1> QED BY <1>2 DEF HasMinimal

\* A finite, nonempty set of natural numbers has a greatest element.
LEMMA GreatestIs ==
  ASSUME NEW D, D \subseteq Nat, IsFiniteSet(D), D # {}
  PROVE  Max(D) \in D /\ \A x \in D : Max(D) >= x
<1> DEFINE Above(x) == {y \in D : y >= x}
           Family == {Above(x) : x \in D}
<1>1. PICK T \in Family : \A U \in Family : U \subseteq T => U = T
  <2>1. FamilyOf(Family, D)
    BY DEF FamilyOf
  <2>2. IsFiniteSet(D)
    OBVIOUS
  <2> HIDE DEF Family
  <2>3. HasMinimal(Family)
    BY <2>1, <2>2, MinimalMember
  <2> QED BY <2>3 DEF HasMinimal
<1>2. PICK x \in D : T = Above(x)
  OBVIOUS
<1>3. ASSUME NEW y \in D PROVE x >= y
  <2> SUFFICES ASSUME y > x PROVE FALSE
    OBVIOUS
  <2>1. Above(y) \subseteq Above(x) /\ Above(y) \in Family
    <3>1. \A z \in D : z >= y => z >= x
      OBVIOUS
    <3> QED BY <3>1
  <2>2. Above(y) = T
    BY <1>1, <1>2, <2>1
  <2>3. x \in Above(x)
    OBVIOUS
  <2> QED BY <1>2, <2>2, <2>3
<1>4. \E z \in D : \A y \in D : z >= y
  BY <1>3
<1> QED BY <1>4 DEF Max

\* So has it a least.
LEMMA LeastIs ==
  ASSUME NEW S, S \subseteq Nat, S # {}
  PROVE  Min(S) \in S /\ \A x \in S : Min(S) <= x
BY LeastNat DEF Min

\* The alternatives of a nonterminal and the symbols of an expansion.
LEMMA ExpansionsAre ==
  ASSUME NEW A \in Nonterminals
  PROVE  /\ Len(Grammar[A]) \in Nat /\ DOMAIN Grammar[A] = 1 .. Len(Grammar[A])
         /\ 1 \in DOMAIN Grammar[A]
         /\ \A j \in DOMAIN Grammar[A] :
              /\ IsFiniteSet(Inside(Grammar[A][j].exp))
              /\ Inside(Grammar[A][j].exp) \subseteq Nonterminals
              /\ Range(Grammar[A][j].exp) \cap Nonterminals = Inside(Grammar[A][j].exp)
<1>1. Grammar[A] \in Seq(Alternative) /\ Grammar[A] # <<>>
  BY GrammarAssumption DEF GrammarAssumption, Alternative
<1>2. ASSUME NEW j \in DOMAIN Grammar[A]
      PROVE  /\ IsFiniteSet(Inside(Grammar[A][j].exp))
             /\ Inside(Grammar[A][j].exp) \subseteq Nonterminals
             /\ Range(Grammar[A][j].exp) \cap Nonterminals = Inside(Grammar[A][j].exp)
  <2> DEFINE exp == Grammar[A][j].exp
             K == {k \in DOMAIN exp : exp[k] \in Nonterminals}
  <2>1. exp \in Seq(Symbols)
    BY GrammarType DEF Alternative
  <2> HIDE DEF exp
  <2>2. DOMAIN exp = 1 .. Len(exp) /\ Len(exp) \in Nat
    BY <2>1
  <2>3. IsFiniteSet(DOMAIN exp)
    BY <2>2, FS_Interval
  <2>4. IsFiniteSet(K)
    BY <2>3, FS_Subset
  <2> HIDE DEF K
  <2>5. IsFiniteSet({exp[k] : k \in K})
    BY <2>4, FiniteImage
  <2>6. Inside(exp) = {exp[k] : k \in K}
    BY DEF Inside, K
  <2>7. Inside(exp) \subseteq Nonterminals /\ Range(exp) \cap Nonterminals = Inside(exp)
    BY DEF Inside, Range
  <2> QED BY <2>5, <2>6, <2>7 DEF exp
<1> QED BY <1>1, <1>2

\* The cost of an expansion, from the depths that are known.
LEMMA ExpansionDepthIs ==
  ASSUME NEW d \in DepthsDicts, NEW A \in Nonterminals, NEW j \in DOMAIN Grammar[A]
  PROVE  LET exp == Grammar[A][j].exp
             c   == ExpansionDepth(d, A, exp)
         IN  /\ c \in MaybeDepth
             /\ A \in Inside(exp) => c = 999
             /\ c = None <=> A \notin Inside(exp) /\ \E B \in Inside(exp) : d.depth[B] = None
             /\ c # None /\ A \notin Inside(exp) =>
                  /\ \A B \in Inside(exp) : d.depth[B] \in Nat /\ d.depth[B] <= c
                  /\ c = 0 \/ \E B \in Inside(exp) : c = d.depth[B]
<1> DEFINE exp   == Grammar[A][j].exp
           c     == ExpansionDepth(d, A, exp)
           below == {d.depth[exp[k]] : k \in {k \in DOMAIN exp : exp[k] \in DOMAIN d.depth}}
           low   == {0} \cup below
<1>1. d.depth \in [Nonterminals -> MaybeDepth] /\ DOMAIN d.depth = Nonterminals
  BY DEF DepthsDicts
<1>2. /\ IsFiniteSet(Inside(exp)) /\ Inside(exp) \subseteq Nonterminals
      /\ Range(exp) \cap Nonterminals = Inside(exp)
  BY ExpansionsAre
<1>3. below = {d.depth[B] : B \in Inside(exp)}
  BY <1>1 DEF Inside
<1>4. c = CASE A \in Range(exp) -> 999
            [] A \notin Range(exp) /\ None \in below -> None
            [] OTHER -> Max(low)
  BY DEF ExpansionDepth
<1>5. A \in Range(exp) <=> A \in Inside(exp)
  BY <1>2
<1>6. None \in below <=> \E B \in Inside(exp) : d.depth[B] = None
  BY <1>3
<1>7. None \notin Nat /\ 999 \in Nat
  BY DEF None
<1> HIDE DEF exp, c, below
<1>8. CASE A \in Inside(exp)
  <2>1. c = 999
    BY <1>4, <1>5, <1>8
  <2> QED BY <1>7, <1>8, <2>1 DEF MaybeDepth, exp, c
<1>9. CASE A \notin Inside(exp) /\ None \in below
  <2>1. c = None
    BY <1>4, <1>5, <1>9
  <2> QED BY <1>6, <1>7, <1>9, <2>1 DEF MaybeDepth, exp, c
<1>10. CASE A \notin Inside(exp) /\ None \notin below
  <2>1. c = Max(low)
    BY <1>4, <1>5, <1>10
  <2>2. \A B \in Inside(exp) : d.depth[B] \in Nat
    BY <1>1, <1>2, <1>6, <1>10 DEF MaybeDepth
  <2>3. low \subseteq Nat /\ low # {}
    BY <1>3, <2>2
  <2>4. IsFiniteSet(low)
    <3> DEFINE f == d.depth
    <3>1. IsFiniteSet({f[B] : B \in Inside(exp)})
      <4> HIDE DEF f
      <4> QED BY <1>2, FiniteImage
    <3> QED BY <1>3, <3>1, FS_Union, FS_Singleton
  <2> HIDE DEF low
  <2>5. Max(low) \in low /\ \A x \in low : Max(low) >= x
    BY <2>3, <2>4, GreatestIs
  <2>6. low = {0} \cup {d.depth[B] : B \in Inside(exp)}
    BY <1>3 DEF low
  <2>7. c \in Nat
    BY <2>1, <2>3, <2>5
  <2>8. \A B \in Inside(exp) : d.depth[B] <= c
    BY <2>1, <2>2, <2>5, <2>6, <2>7
  <2>9. c = 0 \/ \E B \in Inside(exp) : c = d.depth[B]
    BY <2>1, <2>5, <2>6
  <2> QED BY <1>6, <1>7, <1>10, <2>2, <2>7, <2>8, <2>9 DEF MaybeDepth, exp, c
<1> QED BY <1>8, <1>9, <1>10

\* What a visit leaves of a token.
LEMMA TokenVisitIs ==
  ASSUME NEW d \in DepthsDicts, NEW A \in Nonterminals
  PROVE  LET v == VisitToken(Grammar, d, A)
             t == v.depth[A]
         IN  /\ v \in DepthsDicts /\ v.cut = d.cut
             /\ \A B \in Nonterminals \ {A} : v.depth[B] = d.depth[B] /\ v.cost[B] = d.cost[B]
             /\ \A j \in DOMAIN Grammar[A] :
                  v.cost[A][j] = IF d.cost[A][j] # None THEN d.cost[A][j]
                                 ELSE ExpansionDepth(d, A, Grammar[A][j].exp)
             /\ \/ /\ d.depth[A] = None /\ t = d.cut + 1
                   /\ \E j \in DOMAIN Grammar[A] : v.cost[A][j] = d.cut
                \/ /\ \A j \in DOMAIN Grammar[A] : v.cost[A][j] \in Nat
                   /\ t = Min(Range(v.cost[A])) + 1
                \/ /\ t = d.depth[A]
                   /\ d.depth[A] = None => \A j \in DOMAIN Grammar[A] : v.cost[A][j] # d.cut
<1> DEFINE v == VisitToken(Grammar, d, A)
           J == DOMAIN Grammar[A]
           costs == [j \in J |-> IF d.cost[A][j] # None THEN d.cost[A][j]
                                 ELSE ExpansionDepth(d, A, Grammar[A][j].exp)]
           known == Range(costs)
           t == CASE d.depth[A] = None /\ d.cut \in known -> d.cut + 1
                  [] ~ (d.depth[A] = None /\ d.cut \in known) /\ None \notin known -> Min(known) + 1
                  [] OTHER -> d.depth[A]
<1>1. /\ d.cost \in [Nonterminals -> PartialFunctions(Nat, MaybeDepth)]
      /\ d.depth \in [Nonterminals -> MaybeDepth] /\ d.cut \in Nat
      /\ \A B \in Nonterminals : DOMAIN d.cost[B] = DOMAIN Grammar[B]
      /\ d = [cost |-> d.cost, depth |-> d.depth, cut |-> d.cut]
  BY DEF DepthsDicts
<1>2. v = [d EXCEPT !.cost[A] = costs, !.depth[A] = t]
  BY DEF VisitToken
<1>3. /\ v = [cost |-> [d.cost EXCEPT ![A] = costs], depth |-> [d.depth EXCEPT ![A] = t],
              cut |-> d.cut]
  <2> HIDE DEF v, costs, t
  <2>1. v = [[d EXCEPT !.cost = [d.cost EXCEPT ![A] = costs]]
               EXCEPT !.depth = [d.depth EXCEPT ![A] = t]]
    BY <1>1, <1>2
  <2> QED BY <1>1, <2>1
<1> HIDE DEF v
<1>4. d.cost[A] \in PartialFunctions(Nat, MaybeDepth) /\ DOMAIN d.cost[A] = J
  BY <1>1
<1>5. \A j \in J : d.cost[A][j] \in MaybeDepth
  BY <1>4 DEF PartialFunctions
<1>6. \A j \in J : costs[j] \in MaybeDepth
  BY <1>5, ExpansionDepthIs
<1>7. J \subseteq Nat /\ 1 \in J
  BY ExpansionsAre
<1>8. costs \in [J -> MaybeDepth] /\ costs \in PartialFunctions(Nat, MaybeDepth)
  <2>1. costs = [j \in J |-> costs[j]]
    OBVIOUS
  <2> HIDE DEF costs, J
  <2>2. costs \in [J -> MaybeDepth]
    BY <1>6, <2>1
  <2>3. J \in SUBSET Nat
    BY <1>7
  <2> QED BY <2>2, <2>3 DEF PartialFunctions
<1>9. known = {costs[j] : j \in J}
  BY DEF Range
<1>10. None \notin known => known \subseteq Nat /\ known # {} /\ Min(known) \in Nat
  <2> SUFFICES ASSUME None \notin known
               PROVE  known \subseteq Nat /\ known # {} /\ Min(known) \in Nat
    OBVIOUS
  <2> HIDE DEF known, costs
  <2>0. costs[1] \in known
    BY <1>7, <1>9
  <2>1. known \subseteq Nat /\ known # {}
    BY <1>6, <1>9, <2>0 DEF MaybeDepth
  <2> QED BY <2>1, LeastIs
<1>11. /\ v.cut = d.cut
       /\ v.cost = [d.cost EXCEPT ![A] = costs] /\ v.depth = [d.depth EXCEPT ![A] = t]
  BY <1>3
<1>12. t \in MaybeDepth
  <2> HIDE DEF known
  <2>1. CASE d.depth[A] = None /\ d.cut \in known
    BY <1>1, <2>1 DEF MaybeDepth
  <2>2. CASE ~ (d.depth[A] = None /\ d.cut \in known) /\ None \notin known
    BY <1>10, <2>2 DEF MaybeDepth
  <2>3. CASE ~ (d.depth[A] = None /\ d.cut \in known) /\ None \in known
    BY <1>1, <2>3
  <2> QED BY <2>1, <2>2, <2>3
<1>13. v \in DepthsDicts
  <2> HIDE DEF t, costs
  <2>1. [d.depth EXCEPT ![A] = t] \in [Nonterminals -> MaybeDepth]
    BY <1>1, <1>12
  <2>2. [d.cost EXCEPT ![A] = costs] \in [Nonterminals -> PartialFunctions(Nat, MaybeDepth)]
    BY <1>1, <1>8
  <2>3. \A B \in Nonterminals : DOMAIN ([d.cost EXCEPT ![A] = costs][B]) = DOMAIN Grammar[B]
    BY <1>1, <1>8
  <2> QED BY <1>1, <1>3, <2>1, <2>2, <2>3 DEF DepthsDicts
<1>14. v.cost[A] = costs /\ v.depth[A] = t
  <2> HIDE DEF t, costs
  <2> QED BY <1>1, <1>11
<1>15. \A B \in Nonterminals \ {A} : v.depth[B] = d.depth[B] /\ v.cost[B] = d.cost[B]
  <2> HIDE DEF t, costs
  <2> QED BY <1>1, <1>11
<1>16. \/ /\ d.depth[A] = None /\ t = d.cut + 1
          /\ \E j \in J : costs[j] = d.cut
       \/ /\ \A j \in J : costs[j] \in Nat
          /\ t = Min(known) + 1
       \/ /\ t = d.depth[A]
          /\ d.depth[A] = None => \A j \in J : costs[j] # d.cut
  <2>0. /\ d.cut \in known <=> \E j \in J : costs[j] = d.cut
        /\ None \notin known => \A j \in J : costs[j] \in Nat
    <3> HIDE DEF costs
    <3> QED BY <1>6, <1>9 DEF MaybeDepth
  <2> HIDE DEF known, costs
  <2>1. CASE d.depth[A] = None /\ d.cut \in known
    BY <2>0, <2>1
  <2>2. CASE ~ (d.depth[A] = None /\ d.cut \in known) /\ None \notin known
    BY <2>0, <2>2
  <2>3. CASE ~ (d.depth[A] = None /\ d.cut \in known) /\ None \in known
    BY <2>0, <2>3
  <2> QED BY <2>1, <2>2, <2>3
<1>17. \A j \in J : v.cost[A][j] = IF d.cost[A][j] # None THEN d.cost[A][j]
                                   ELSE ExpansionDepth(d, A, Grammar[A][j].exp)
  BY <1>14
<1>18. \/ /\ d.depth[A] = None /\ v.depth[A] = d.cut + 1
          /\ \E j \in J : v.cost[A][j] = d.cut
       \/ /\ \A j \in J : v.cost[A][j] \in Nat
          /\ v.depth[A] = Min(Range(v.cost[A])) + 1
       \/ /\ v.depth[A] = d.depth[A]
          /\ d.depth[A] = None => \A j \in J : v.cost[A][j] # d.cut
  <2> HIDE DEF costs, t
  <2> QED BY <1>14, <1>16 DEF known
<1> HIDE DEF costs, known, t
<1> QED BY <1>11, <1>13, <1>15, <1>17, <1>18 DEF v

\* A visit keeps what is known and the invariant, and leaves nothing of its token
\* that could become known now.
LEMMA TokenVisitKeeps ==
  ASSUME NEW d \in DepthsDicts, DepthsInv(d), NEW A \in Nonterminals
  PROVE  LET v == VisitToken(Grammar, d, A)
         IN  /\ v \in DepthsDicts /\ DepthsInv(v) /\ KeepsKnown(d, v)
             /\ Stuck(v, A)
<1> DEFINE v == VisitToken(Grammar, d, A)
           t == v.depth[A]
           J == DOMAIN Grammar[A]
           Symb(j) == Inside(Grammar[A][j].exp)
           Low == \A j \in J : v.cost[A][j] # None => v.cost[A][j] >= d.cut
<1>1. /\ v \in DepthsDicts /\ v.cut = d.cut
      /\ \A B \in Nonterminals \ {A} : v.depth[B] = d.depth[B] /\ v.cost[B] = d.cost[B]
      /\ \A j \in J :
           v.cost[A][j] = IF d.cost[A][j] # None THEN d.cost[A][j]
                          ELSE ExpansionDepth(d, A, Grammar[A][j].exp)
  BY TokenVisitIs
<1>2. \/ /\ d.depth[A] = None /\ t = d.cut + 1
         /\ \E j \in J : v.cost[A][j] = d.cut
      \/ /\ \A j \in J : v.cost[A][j] \in Nat
         /\ t = Min(Range(v.cost[A])) + 1
      \/ /\ t = d.depth[A]
         /\ d.depth[A] = None => \A j \in J : v.cost[A][j] # d.cut
  BY TokenVisitIs
<1> HIDE DEF v
<1>3. /\ d.cut \in Nat /\ None = -1
      /\ \A B \in Nonterminals : d.depth[B] \in MaybeDepth /\ v.depth[B] \in MaybeDepth
      /\ \A B \in Nonterminals : DOMAIN d.cost[B] = DOMAIN Grammar[B]
      /\ \A B \in Nonterminals : DOMAIN v.cost[B] = DOMAIN Grammar[B]
      /\ \A B \in Nonterminals : \A j \in DOMAIN Grammar[B] :
           d.cost[B][j] \in MaybeDepth /\ v.cost[B][j] \in MaybeDepth
  <2>1. ASSUME NEW e \in DepthsDicts, NEW B \in Nonterminals
        PROVE  /\ e.cut \in Nat /\ e.depth[B] \in MaybeDepth /\ DOMAIN e.cost[B] = DOMAIN Grammar[B]
               /\ \A j \in DOMAIN Grammar[B] : e.cost[B][j] \in MaybeDepth
    <3>1. e.cost[B] \in PartialFunctions(Nat, MaybeDepth) /\ DOMAIN e.cost[B] = DOMAIN Grammar[B]
      BY DEF DepthsDicts
    <3>2. \A j \in DOMAIN Grammar[B] : e.cost[B][j] \in MaybeDepth
      BY <3>1 DEF PartialFunctions
    <3> QED BY <3>1, <3>2 DEF DepthsDicts
  <2> QED BY <1>1, <2>1 DEF None
<1>4. /\ \A j \in J : IF d.cost[A][j] = None THEN CostOpen(d, A, j) ELSE CostIs(d, A, j)
      /\ IF d.depth[A] = None THEN NoCheaper(d, A) ELSE DepthIs(d, A)
  BY DEF DepthsInv
<1>5. ASSUME NEW j \in J, d.cost[A][j] = None
      PROVE  LET c == v.cost[A][j]
             IN  /\ c = None => A \notin Symb(j) /\ \E B \in Symb(j) : d.depth[B] = None
                 /\ c # None => c >= d.cut
                 /\ A \in Symb(j) => c = 999
                 /\ c # None /\ A \notin Symb(j) =>
                      /\ \A B \in Symb(j) : d.depth[B] \in Nat /\ d.depth[B] <= c
                      /\ c = 0 \/ \E B \in Symb(j) : c = d.depth[B]
  <2> DEFINE c == v.cost[A][j]
  <2>1. c = ExpansionDepth(d, A, Grammar[A][j].exp)
    BY <1>1, <1>5
  <2>2. /\ c \in MaybeDepth
        /\ A \in Symb(j) => c = 999
        /\ c = None <=> A \notin Symb(j) /\ \E B \in Symb(j) : d.depth[B] = None
        /\ c # None /\ A \notin Symb(j) =>
             /\ \A B \in Symb(j) : d.depth[B] \in Nat /\ d.depth[B] <= c
             /\ c = 0 \/ \E B \in Symb(j) : c = d.depth[B]
    BY <2>1, ExpansionDepthIs
  <2>3. d.cut = 0 \/ (A \notin Symb(j) /\ \E B \in Symb(j) : d.depth[B] = None \/ d.depth[B] > d.cut)
    BY <1>4, <1>5 DEF CostOpen
  <2> HIDE DEF c, Symb
  <2>4. ASSUME c # None PROVE c >= d.cut
    <3>1. c \in Nat
      BY <2>2, <2>4 DEF MaybeDepth
    <3>2. CASE d.cut = 0
      BY <3>1, <3>2
    <3>3. CASE d.cut # 0
      <4>1. PICK B \in Symb(j) : d.depth[B] = None \/ d.depth[B] > d.cut
        BY <2>3, <3>3
      <4>2. d.depth[B] \in Nat /\ d.depth[B] <= c
        BY <2>2, <2>3, <2>4, <3>3
      <4> QED BY <1>3, <3>1, <4>1, <4>2
    <3> QED BY <3>2, <3>3
  <2> QED BY <2>2, <2>4 DEF c
<1> HIDE DEF Symb
<1>6. /\ d.depth[A] = None => Low
      /\ d.depth[A] # None =>
           /\ \A j \in J : v.cost[A][j] # None => d.depth[A] <= v.cost[A][j] + 1
           /\ \E j \in J : v.cost[A][j] # None /\ d.depth[A] = v.cost[A][j] + 1
  <2>1. CASE d.depth[A] = None
    BY <1>1, <1>4, <1>5, <2>1 DEF NoCheaper
  <2>2. CASE d.depth[A] # None
    <3>1. /\ \E j \in J : d.cost[A][j] # None /\ d.depth[A] = d.cost[A][j] + 1
          /\ \A j \in J : d.cost[A][j] # None => d.depth[A] <= d.cost[A][j] + 1
          /\ d.depth[A] <= d.cut + 1 \/ \A j \in J : d.cost[A][j] # None
      BY <1>4, <2>2 DEF DepthIs
    <3>2. ASSUME NEW j \in J, v.cost[A][j] # None PROVE d.depth[A] <= v.cost[A][j] + 1
      <4>1. CASE d.cost[A][j] # None
        BY <1>1, <3>1, <4>1
      <4>2. CASE d.cost[A][j] = None
        <5>1. v.cost[A][j] >= d.cut
          BY <1>5, <3>2, <4>2
        <5>2. d.depth[A] <= d.cut + 1
          BY <3>1, <4>2
        <5>3. v.cost[A][j] \in Int /\ d.depth[A] \in Int /\ d.cut \in Int
          BY <1>3 DEF MaybeDepth
        <5> QED BY <5>1, <5>2, <5>3
      <4> QED BY <4>1, <4>2
    <3>3. \E j \in J : v.cost[A][j] # None /\ d.depth[A] = v.cost[A][j] + 1
      BY <1>1, <3>1
    <3> QED BY <2>2, <3>2, <3>3
  <2> QED BY <2>1, <2>2
<1>7. ASSUME \A j \in J : v.cost[A][j] \in Nat
      PROVE  LET m == Min(Range(v.cost[A]))
             IN  /\ m \in Nat /\ \E j \in J : v.cost[A][j] = m
                 /\ \A j \in J : m <= v.cost[A][j]
  <2> DEFINE R == Range(v.cost[A])
  <2>1. R = {v.cost[A][j] : j \in J}
    BY <1>3 DEF Range
  <2>2. 1 \in J
    BY ExpansionsAre
  <2>3. R \subseteq Nat /\ R # {}
    BY <1>7, <2>1, <2>2
  <2>4. Min(R) \in R /\ \A x \in R : Min(R) <= x
    <3> HIDE DEF R
    <3> QED BY <2>3, LeastIs
  <2> HIDE DEF R
  <2>5. Min(R) \in Nat
    BY <2>3, <2>4
  <2>6. \E j \in J : v.cost[A][j] = Min(R)
    BY <2>1, <2>4
  <2>7. \A j \in J : Min(R) <= v.cost[A][j]
    BY <2>1, <2>4
  <2> QED BY <2>5, <2>6, <2>7 DEF R
<1> DEFINE m == Min(Range(v.cost[A]))
<1> HIDE DEF m
<1>8. d.depth[A] # None => t = d.depth[A]
  <2> SUFFICES ASSUME d.depth[A] # None, \A j \in J : v.cost[A][j] \in Nat, t = m + 1
               PROVE  t = d.depth[A]
    BY <1>2 DEF m
  <2>1. m \in Nat /\ (\E j \in J : v.cost[A][j] = m) /\ \A j \in J : m <= v.cost[A][j]
    BY <1>7 DEF m
  <2>2. PICK j \in J : v.cost[A][j] = m
    BY <2>1
  <2>3. PICK k \in J : d.depth[A] = v.cost[A][k] + 1
    BY <1>6
  <2>4. v.cost[A][j] # None
    BY <1>3, <2>1, <2>2
  <2>5. d.depth[A] <= m + 1
    BY <1>6, <2>2, <2>4
  <2>6. m <= v.cost[A][k]
    BY <2>1
  <2> QED BY <2>1, <2>3, <2>5, <2>6
<1>9. KeepsKnown(d, v)
  <2>1. ASSUME NEW B \in Nonterminals
        PROVE  /\ d.depth[B] # None => v.depth[B] = d.depth[B]
               /\ \A j \in DOMAIN Grammar[B] : d.cost[B][j] # None => v.cost[B][j] = d.cost[B][j]
    BY <1>1, <1>8
  <2> QED BY <1>1, <2>1 DEF KeepsKnown
<1>10. d.depth[A] = None /\ t # None => t > d.cut
  <2> SUFFICES ASSUME d.depth[A] = None, t # None PROVE t > d.cut
    OBVIOUS
  <2>1. CASE t = d.cut + 1
    BY <1>3, <2>1
  <2>2. CASE (\A j \in J : v.cost[A][j] \in Nat) /\ t = m + 1
    <3>1. m \in Nat /\ \E j \in J : v.cost[A][j] = m
      BY <1>7, <2>2 DEF m
    <3>2. PICK j \in J : v.cost[A][j] = m
      BY <3>1
    <3>3. m >= d.cut
      BY <1>3, <1>6, <3>1, <3>2
    <3> QED BY <1>3, <2>2, <3>1, <3>3
  <2> QED BY <1>2, <2>1, <2>2 DEF m
<1>11. t = None => NoCheaper(v, A)
  <2> SUFFICES ASSUME t = None PROVE NoCheaper(v, A)
    OBVIOUS
  <2>1. d.depth[A] = None
    BY <1>8
  <2> QED BY <1>1, <1>6, <2>1 DEF NoCheaper
<1>12. t # None => DepthIs(v, A)
  <2> SUFFICES ASSUME t # None PROVE DepthIs(v, A)
    OBVIOUS
  <2>1. CASE d.depth[A] = None /\ t = d.cut + 1 /\ \E j \in J : v.cost[A][j] = d.cut
    <3>1. PICK j \in J : v.cost[A][j] = d.cut
      BY <2>1
    <3>2. v.cost[A][j] # None /\ v.depth[A] = v.cost[A][j] + 1
      BY <1>3, <2>1, <3>1
    <3>3. ASSUME NEW k \in J, v.cost[A][k] # None PROVE v.depth[A] <= v.cost[A][k] + 1
      <4>1. v.cost[A][k] >= d.cut /\ v.cost[A][k] \in Int /\ d.cut \in Int
        BY <1>3, <1>6, <2>1, <3>3 DEF MaybeDepth
      <4> QED BY <2>1, <4>1
    <3>4. v.depth[A] <= v.cut + 1
      BY <1>1, <1>3, <2>1
    <3> QED BY <3>2, <3>3, <3>4 DEF DepthIs
  <2>2. CASE (\A j \in J : v.cost[A][j] \in Nat) /\ t = m + 1
    <3>1. m \in Nat /\ (\E j \in J : v.cost[A][j] = m) /\ \A j \in J : m <= v.cost[A][j]
      BY <1>7, <2>2 DEF m
    <3>2. \E j \in J : v.cost[A][j] # None /\ v.depth[A] = v.cost[A][j] + 1
      BY <1>3, <2>2, <3>1
    <3>3. \A j \in J : v.depth[A] <= v.cost[A][j] + 1
      BY <2>2, <3>1
    <3>4. \A j \in J : v.cost[A][j] # None
      BY <1>3, <2>2
    <3> QED BY <3>2, <3>3, <3>4 DEF DepthIs
  <2>3. CASE t = d.depth[A]
    <3>1. d.depth[A] <= d.cut + 1 \/ \A j \in J : d.cost[A][j] # None
      BY <1>4, <2>3 DEF DepthIs
    <3>2. v.depth[A] <= v.cut + 1 \/ \A j \in J : v.cost[A][j] # None
      BY <1>1, <2>3, <3>1
    <3> QED BY <1>6, <2>3, <3>2 DEF DepthIs
  <2> QED BY <1>2, <2>1, <2>2, <2>3 DEF m
<1>13. ASSUME NEW B \in Nonterminals, NEW j \in DOMAIN Grammar[B], v.cost[B][j] = None
       PROVE  CostOpen(v, B, j)
  <2> DEFINE I == Inside(Grammar[B][j].exp)
  <2>0. I \subseteq Nonterminals
    BY ExpansionsAre
  <2>1. CASE B = A
    <3>1. d.cost[A][j] = None
      BY <1>1, <1>13, <2>1
    <3>2. A \notin I /\ \E C \in I : d.depth[C] = None
      BY <1>5, <1>13, <2>1, <3>1 DEF Symb
    <3>3. \E C \in I : v.depth[C] = None
      BY <1>1, <2>0, <3>2
    <3> QED BY <2>1, <3>2, <3>3 DEF CostOpen
  <2>2. CASE B # A
    <3>1. d.cost[B][j] = None
      BY <1>1, <1>13, <2>2
    <3>2. d.cut = 0 \/ (B \notin I /\ \E C \in I : d.depth[C] = None \/ d.depth[C] > d.cut)
      BY <3>1 DEF DepthsInv, CostOpen
    <3>3. ASSUME NEW C \in I, d.depth[C] = None \/ d.depth[C] > d.cut
          PROVE  v.depth[C] = None \/ v.depth[C] > v.cut
      <4>1. CASE C = A
        BY <1>1, <1>8, <1>10, <3>3, <4>1
      <4>2. CASE C # A
        BY <1>1, <2>0, <3>3, <4>2
      <4> QED BY <4>1, <4>2
    <3> QED BY <1>1, <3>2, <3>3 DEF CostOpen
  <2> QED BY <2>1, <2>2
<1>14. ASSUME NEW B \in Nonterminals, NEW j \in DOMAIN Grammar[B], v.cost[B][j] # None
       PROVE  CostIs(v, B, j)
  <2> DEFINE I == Inside(Grammar[B][j].exp)
             c == v.cost[B][j]
  <2>0. I \subseteq Nonterminals
    BY ExpansionsAre
  <2>1. /\ B \in I => c = 999
        /\ B \notin I => /\ \A C \in I : d.depth[C] \in Nat /\ d.depth[C] <= c
                         /\ c = 0 \/ \E C \in I : c = d.depth[C]
    <3>1. CASE d.cost[B][j] # None
      <4>1. CostIs(d, B, j)
        BY <3>1 DEF DepthsInv
      <4>2. c = d.cost[B][j]
        BY <1>9, <3>1 DEF KeepsKnown
      <4> QED BY <4>1, <4>2 DEF CostIs
    <3>2. CASE d.cost[B][j] = None
      <4>1. B = A
        BY <1>1, <1>14, <3>2
      <4> QED BY <1>5, <1>14, <3>2, <4>1 DEF Symb
    <3> QED BY <3>1, <3>2
  <2>2. \A C \in I : d.depth[C] \in Nat => v.depth[C] = d.depth[C]
    BY <1>3, <1>9, <2>0 DEF KeepsKnown
  <2> HIDE DEF I, c
  <2>3. B \notin I => /\ \A C \in I : v.depth[C] \in Nat /\ v.depth[C] <= c
                      /\ c = 0 \/ \E C \in I : c = v.depth[C]
    BY <2>1, <2>2
  <2> QED BY <2>1, <2>3 DEF CostIs, I, c
<1>15. DepthsInv(v)
  <2>1. ASSUME NEW B \in Nonterminals
        PROVE  IF v.depth[B] = None THEN NoCheaper(v, B) ELSE DepthIs(v, B)
    <3>1. CASE B = A
      BY <1>11, <1>12, <3>1
    <3>2. CASE B # A
      <4>1. IF d.depth[B] = None THEN NoCheaper(d, B) ELSE DepthIs(d, B)
        BY DEF DepthsInv
      <4>2. v.depth[B] = d.depth[B] /\ v.cost[B] = d.cost[B] /\ v.cut = d.cut
        BY <1>1, <3>2
      <4> QED BY <4>1, <4>2 DEF NoCheaper, DepthIs
    <3> QED BY <3>1, <3>2
  <2> QED BY <1>13, <1>14, <2>1 DEF DepthsInv
<1>16. Stuck(v, A)
  <2>1. ASSUME t = None PROVE \A j \in J : v.cost[A][j] # v.cut
    <3>1. d.depth[A] = None
      BY <1>8, <2>1
    <3>2. ~ ((\A j \in J : v.cost[A][j] \in Nat) /\ t = m + 1)
      <4> SUFFICES ASSUME \A j \in J : v.cost[A][j] \in Nat, t = m + 1 PROVE FALSE
        OBVIOUS
      <4>1. m \in Nat
        BY <1>7 DEF m
      <4> QED BY <1>3, <2>1, <4>1
    <3>3. t # d.cut + 1
      BY <1>3, <2>1
    <3> QED BY <1>1, <1>2, <3>1, <3>2, <3>3 DEF m
  <2>2. ASSUME NEW j \in J, v.cost[A][j] = None
        PROVE  A \notin Symb(j) /\ \E B \in Symb(j) : v.depth[B] = None
    <3>1. d.cost[A][j] = None
      BY <1>1, <2>2
    <3>2. A \notin Symb(j) /\ \E B \in Symb(j) : d.depth[B] = None
      BY <1>5, <2>2, <3>1
    <3>3. Symb(j) \subseteq Nonterminals
      BY ExpansionsAre DEF Symb
    <3> QED BY <1>1, <3>2, <3>3
  <2> QED BY <2>1, <2>2 DEF Stuck, Symb
<1> QED BY <1>1, <1>9, <1>15, <1>16 DEF v

\* Steps that keep what is known add up; if nothing became known in both of them,
\* the second changed nothing.
LEMMA KeepsBoth ==
  ASSUME NEW d, NEW u, NEW v, KeepsKnown(d, u), KeepsKnown(u, v)
  PROVE  /\ KeepsKnown(d, v)
         /\ NoProgress(d, v) =>
              /\ NoProgress(d, u)
              /\ \A A \in Nonterminals : Stuck(u, A) => Stuck(v, A)
<1>1. /\ u.cut = d.cut /\ v.cut = u.cut
      /\ \A A \in Nonterminals :
           /\ d.depth[A] # None => u.depth[A] = d.depth[A]
           /\ u.depth[A] # None => v.depth[A] = u.depth[A]
      /\ \A A \in Nonterminals : \A j \in DOMAIN Grammar[A] :
           /\ d.cost[A][j] # None => u.cost[A][j] = d.cost[A][j]
           /\ u.cost[A][j] # None => v.cost[A][j] = u.cost[A][j]
  BY DEF KeepsKnown
<1>2. KeepsKnown(d, v)
  BY <1>1 DEF KeepsKnown
<1>3. ASSUME NoProgress(d, v)
      PROVE  /\ NoProgress(d, u)
             /\ \A A \in Nonterminals : Stuck(u, A) => Stuck(v, A)
  <2>1. \A A \in Nonterminals : v.depth[A] = u.depth[A]
    BY <1>1, <1>3 DEF NoProgress
  <2>2. \A A \in Nonterminals : \A j \in DOMAIN Grammar[A] : v.cost[A][j] = u.cost[A][j]
    BY <1>1, <1>3 DEF NoProgress
  <2>3. NoProgress(d, u)
    BY <1>3, <2>1, <2>2 DEF NoProgress
  <2>4. ASSUME NEW A \in Nonterminals, Stuck(u, A) PROVE Stuck(v, A)
    <3>1. v.depth[A] = None => \A j \in DOMAIN Grammar[A] : v.cost[A][j] # v.cut
      BY <1>1, <2>1, <2>2, <2>4 DEF Stuck
    <3>2. ASSUME NEW j \in DOMAIN Grammar[A], v.cost[A][j] = None
          PROVE  /\ A \notin Inside(Grammar[A][j].exp)
                 /\ \E B \in Inside(Grammar[A][j].exp) : v.depth[B] = None
      <4>1. /\ A \notin Inside(Grammar[A][j].exp)
            /\ \E B \in Inside(Grammar[A][j].exp) : u.depth[B] = None
        BY <2>2, <2>4, <3>2 DEF Stuck
      <4>2. Inside(Grammar[A][j].exp) \subseteq Nonterminals
        BY ExpansionsAre
      <4> QED BY <2>1, <4>1, <4>2
    <3> QED BY <3>1, <3>2 DEF Stuck
  <2> QED BY <2>3, <2>4
<1> QED BY <1>2, <1>3

\* The visits of a pass.
Visits(d, tokens) == FoldLeft(LAMBDA e, token : VisitToken(Grammar, e, token), d, tokens)

LEMMA VisitsKeep ==
  ASSUME NEW tokens \in Seq(Nonterminals), NEW d \in DepthsDicts, DepthsInv(d)
  PROVE  LET v == Visits(d, tokens)
         IN  /\ v \in DepthsDicts /\ DepthsInv(v) /\ KeepsKnown(d, v)
             /\ NoProgress(d, v) => \A i \in DOMAIN tokens : Stuck(v, tokens[i])
<1> DEFINE N == Nonterminals
           D == DOMAIN tokens
           Acc == {u \in DepthsDicts : DepthsInv(u)}
           AtToken(u, A) == VisitToken(Grammar, u, A)
           Op == [x \in Acc \X N |-> AtToken(x[1], x[2])]
           Step(g) == [s \in SUBSET D |-> IF s = {} THEN d
                         ELSE AtToken(g[s \ {Max(s)}], tokens[Max(s)])]
           h == CHOOSE g : g = Step(g)
           Rel == {r \in (SUBSET D) \X Acc :
                     /\ KeepsKnown(d, r[2])
                     /\ NoProgress(d, r[2]) => \A i \in r[1] : Stuck(r[2], tokens[i])}
<1>1. Visits(d, tokens) = h[D]
  BY DEF Visits, FoldLeft, MapThenFoldSet
<1>2. ASSUME NEW u \in Acc, NEW A \in N
      PROVE  AtToken(u, A) \in Acc /\ KeepsKnown(u, AtToken(u, A)) /\ Stuck(AtToken(u, A), A)
  BY TokenVisitKeeps
<1>3. d \in Acc /\ KeepsKnown(d, d)
  BY DEF KeepsKnown
<1>4. Positions(D) /\ \A i \in D : tokens[i] \in N
  <2>1. D = 1 .. Len(tokens) /\ Len(tokens) \in Nat /\ \A i \in D : tokens[i] \in N
    OBVIOUS
  <2> QED BY <2>1, PositionsAre
<1>5. \A s \in SUBSET D : s # {} => Max(s) \in s /\ tokens[Max(s)] \in N
  BY <1>4 DEF Positions
<1>6. tokens \in Seq(N)
  OBVIOUS
<1> HIDE DEF N, D, Acc, AtToken
<1>7. h = Step(h)
  <2>1. Op \in [Acc \X N -> Acc]
    BY <1>2
  <2>2. \A u \in Acc, A \in N : Op[u, A] = AtToken(u, A)
    OBVIOUS
  <2> HIDE DEF Op
  <2>3. PICK g \in [SUBSET D -> Acc] : Folded(Op, d, tokens, D, g)
    BY <1>3, <1>6, <2>1, FoldExists DEF D
  <2>4. \A s \in SUBSET D :
          g[s] = IF s = {} THEN d ELSE AtToken(g[s \ {Max(s)}], tokens[Max(s)])
    <3> SUFFICES ASSUME NEW s \in SUBSET D, s # {}
                 PROVE  g[s] = AtToken(g[s \ {Max(s)}], tokens[Max(s)])
      BY <2>3 DEF Folded
    <3>1. g[s] = Op[g[s \ {Max(s)}], tokens[Max(s)]]
      BY <2>3 DEF Folded
    <3>2. g[s \ {Max(s)}] \in Acc /\ tokens[Max(s)] \in N
      BY <1>5, <2>3
    <3> QED BY <2>2, <3>1, <3>2
  <2>5. g = Step(g)
    BY <2>3, <2>4
  <2> HIDE DEF Step
  <2> QED BY <2>5
<1> HIDE DEF h
<1>8. <<{}, h[{}]>> \in Rel
  BY <1>3, <1>7
<1>9. ASSUME NEW s \in SUBSET D, s # {}, <<s \ {Max(s)}, h[s \ {Max(s)}]>> \in Rel
      PROVE  <<s, h[s]>> \in Rel
  <2> DEFINE u == h[s \ {Max(s)}]
             m == Max(s)
             v == h[s]
  <2>1. /\ u \in Acc /\ KeepsKnown(d, u)
        /\ NoProgress(d, u) => \A i \in s \ {m} : Stuck(u, tokens[i])
    BY <1>9
  <2>2. m \in s /\ tokens[m] \in N /\ \A i \in s : tokens[i] \in N
    BY <1>4, <1>5, <1>9
  <2>3. v = AtToken(u, tokens[m])
    BY <1>7, <1>9
  <2> HIDE DEF u, m, v
  <2>4. v \in Acc /\ KeepsKnown(u, v) /\ Stuck(v, tokens[m])
    BY <1>2, <2>1, <2>2, <2>3
  <2>5. /\ KeepsKnown(d, v)
        /\ NoProgress(d, v) => /\ NoProgress(d, u)
                               /\ \A A \in N : Stuck(u, A) => Stuck(v, A)
    BY <2>1, <2>4, KeepsBoth DEF N
  <2>6. NoProgress(d, v) => \A i \in s : Stuck(v, tokens[i])
    BY <2>1, <2>2, <2>4, <2>5
  <2>7. <<s, v>> \in Rel
    BY <2>4, <2>5, <2>6
  <2> QED BY <2>7 DEF v
<1>10. <<D, h[D]>> \in Rel
  <2> HIDE DEF Rel
  <2> QED BY <1>4, <1>8, <1>9, FoldKeeps
<1> QED BY <1>1, <1>10 DEF Acc, D

\* What count_none counts.
AllAlternatives == UNION {{<<A, j>> : j \in DOMAIN Grammar[A]} : A \in Nonterminals}
NoneDepths(d) == {A \in Nonterminals : d.depth[A] = None}
NoneCosts(d)  == {p \in AllAlternatives : d.cost[p[1]][p[2]] = None}

LEMMA CountNoneIs ==
  ASSUME IsFiniteSet(Nonterminals), NEW d \in DepthsDicts
  PROVE  /\ IsFiniteSet(NoneDepths(d)) /\ IsFiniteSet(NoneCosts(d))
         /\ CountNone(d) = Cardinality(NoneDepths(d)) + Cardinality(NoneCosts(d))
<1>1. /\ DOMAIN d.depth = Nonterminals /\ DOMAIN d.cost = Nonterminals
      /\ \A A \in Nonterminals : DOMAIN d.cost[A] = DOMAIN Grammar[A]
  BY DEF DepthsDicts
<1>2. IsFiniteSet(NoneDepths(d))
  BY FS_Subset DEF NoneDepths
<1>3. IsFiniteSet(AllAlternatives)
  <2> DEFINE Of == [A \in Nonterminals |-> {<<A, j>> : j \in DOMAIN Grammar[A]}]
             Family == {Of[A] : A \in Nonterminals}
  <2>1. IsFiniteSet(Family)
    <3> HIDE DEF Of
    <3> QED BY FiniteImage
  <2>2. ASSUME NEW A \in Nonterminals PROVE IsFiniteSet(Of[A])
    <3> DEFINE Pair == [j \in DOMAIN Grammar[A] |-> <<A, j>>]
    <3>1. IsFiniteSet(DOMAIN Grammar[A])
      BY ExpansionsAre, FS_Interval
    <3>2. IsFiniteSet({Pair[j] : j \in DOMAIN Grammar[A]})
      <4> HIDE DEF Pair
      <4> QED BY <3>1, FiniteImage
    <3>3. Of[A] = {Pair[j] : j \in DOMAIN Grammar[A]}
      OBVIOUS
    <3> QED BY <3>2, <3>3
  <2>3. \A S \in Family : IsFiniteSet(S)
    BY <2>2
  <2>4. AllAlternatives = UNION Family
    BY DEF AllAlternatives
  <2> HIDE DEF Family
  <2>5. IsFiniteSet(UNION Family)
    BY <2>1, <2>3, FS_UNION
  <2> QED BY <2>4, <2>5
<1>4. IsFiniteSet(NoneCosts(d))
  BY <1>3, FS_Subset DEF NoneCosts
<1>5. UNION {{<<A, j>> : j \in DOMAIN d.cost[A]} : A \in DOMAIN d.cost} = AllAlternatives
  BY <1>1 DEF AllAlternatives
<1>6. CountNone(d) = Cardinality(NoneDepths(d)) + Cardinality(NoneCosts(d))
  BY <1>1, <1>5 DEF CountNone, NoneDepths, NoneCosts
<1> QED BY <1>2, <1>4, <1>6

\* A pass after which as much is unknown as before has changed nothing.
LEMMA SameCountNone ==
  ASSUME IsFiniteSet(Nonterminals), NEW d \in DepthsDicts, NEW e \in DepthsDicts,
         KeepsKnown(d, e), CountNone(e) = CountNone(d)
  PROVE  NoProgress(d, e)
<1> DEFINE F == NoneDepths(d)  G == NoneDepths(e)
           P == NoneCosts(d)   Q == NoneCosts(e)
<1>1. /\ IsFiniteSet(F) /\ IsFiniteSet(P)
      /\ CountNone(d) = Cardinality(F) + Cardinality(P)
      /\ CountNone(e) = Cardinality(G) + Cardinality(Q)
  BY CountNoneIs
<1>2. G \subseteq F /\ Q \subseteq P
  <2>1. G \subseteq F
    BY DEF KeepsKnown, NoneDepths
  <2>2. ASSUME NEW p \in Q PROVE p \in P
    <3>1. PICK A \in Nonterminals : \E j \in DOMAIN Grammar[A] : p = <<A, j>>
      BY DEF NoneCosts, AllAlternatives
    <3>2. PICK j \in DOMAIN Grammar[A] : p = <<A, j>>
      BY <3>1
    <3>3. e.cost[A][j] = None
      BY <3>2 DEF NoneCosts
    <3>4. d.cost[A][j] = None
      BY <3>3 DEF KeepsKnown
    <3> QED BY <3>2, <3>4 DEF NoneCosts
  <2> QED BY <2>1, <2>2
<1> HIDE DEF F, G, P, Q
<1>3. /\ Cardinality(G) <= Cardinality(F) /\ (Cardinality(F) = Cardinality(G) => F = G)
      /\ Cardinality(Q) <= Cardinality(P) /\ (Cardinality(P) = Cardinality(Q) => P = Q)
      /\ IsFiniteSet(G) /\ IsFiniteSet(Q)
  BY <1>1, <1>2, FS_Subset
<1>4. /\ Cardinality(F) \in Nat /\ Cardinality(G) \in Nat
      /\ Cardinality(P) \in Nat /\ Cardinality(Q) \in Nat
  BY <1>1, <1>3, FS_CardinalityType
<1>5. F = G /\ P = Q
  BY <1>1, <1>3, <1>4
<1>6. ASSUME NEW A \in Nonterminals, d.depth[A] = None PROVE e.depth[A] = None
  <2>1. A \in F
    BY <1>6 DEF F, NoneDepths
  <2> QED BY <1>5, <2>1 DEF G, NoneDepths
<1>7. ASSUME NEW A \in Nonterminals, NEW j \in DOMAIN Grammar[A], d.cost[A][j] = None
      PROVE  e.cost[A][j] = None
  <2>1. <<A, j>> \in P
    BY <1>7 DEF P, NoneCosts, AllAlternatives
  <2>2. <<A, j>> \in Q
    BY <1>5, <2>1
  <2> QED BY <2>2 DEF Q, NoneCosts
<1> QED BY <1>6, <1>7 DEF NoProgress

\* A pass keeps the invariant, minimum_cut raised or not.
LEMMA PassKeeps ==
  ASSUME NEW tokens \in Seq(Nonterminals), Range(tokens) = Nonterminals,
         NEW d \in DepthsDicts, DepthsInv(d)
  PROVE  Pass(Grammar, tokens, d) \in DepthsDicts /\ DepthsInv(Pass(Grammar, tokens, d))
<1> DEFINE v == Visits(d, tokens)
           w == [v EXCEPT !.cut = @ + 1]
<1>1. Pass(Grammar, tokens, d) = IF CountNone(v) = CountNone(d) THEN w ELSE v
  BY DEF Pass, Visits
<1>2. /\ v \in DepthsDicts /\ DepthsInv(v) /\ KeepsKnown(d, v)
      /\ NoProgress(d, v) => \A i \in DOMAIN tokens : Stuck(v, tokens[i])
  BY VisitsKeep
<1> HIDE DEF v
<1>3. CASE CountNone(v) = CountNone(d)
  <2>1. IsFiniteSet(Nonterminals)
    <3>1. IsFiniteSet(DOMAIN tokens)
      <4>1. DOMAIN tokens = 1 .. Len(tokens) /\ Len(tokens) \in Nat
        OBVIOUS
      <4> QED BY <4>1, FS_Interval
    <3>2. IsFiniteSet({tokens[i] : i \in DOMAIN tokens})
      BY <3>1, FiniteImage
    <3> QED BY <3>2 DEF Range
  <2>2. NoProgress(d, v)
    BY <1>2, <1>3, <2>1, SameCountNone
  <2>3. \A A \in Nonterminals : Stuck(v, A)
    BY <1>2, <2>2 DEF Range
  <2>4. /\ w.cost = v.cost /\ w.depth = v.depth /\ w.cut = v.cut + 1
        /\ v.cut \in Nat /\ w \in DepthsDicts
    BY <1>2 DEF DepthsDicts
  <2>5. \A A \in Nonterminals : /\ v.depth[A] \in MaybeDepth
                                /\ \A j \in DOMAIN Grammar[A] : v.cost[A][j] \in MaybeDepth
    <3> TAKE A \in Nonterminals
    <3>1. /\ v.depth[A] \in MaybeDepth
          /\ v.cost[A] \in PartialFunctions(Nat, MaybeDepth) /\ DOMAIN v.cost[A] = DOMAIN Grammar[A]
      BY <1>2 DEF DepthsDicts
    <3> QED BY <3>1 DEF PartialFunctions
  <2> HIDE DEF w
  <2>6. ASSUME NEW A \in Nonterminals, NEW j \in DOMAIN Grammar[A]
        PROVE  IF w.cost[A][j] = None THEN CostOpen(w, A, j) ELSE CostIs(w, A, j)
    <3>1. CASE v.cost[A][j] = None
      BY <2>3, <2>4, <3>1 DEF Stuck, CostOpen
    <3>2. CASE v.cost[A][j] # None
      <4>1. CostIs(v, A, j)
        BY <1>2, <3>2 DEF DepthsInv
      <4> QED BY <2>4, <3>2, <4>1 DEF CostIs
    <3> QED BY <3>1, <3>2
  <2>7. ASSUME NEW A \in Nonterminals
        PROVE  IF w.depth[A] = None THEN NoCheaper(w, A) ELSE DepthIs(w, A)
    <3>1. CASE v.depth[A] = None
      <4>1. \A j \in DOMAIN Grammar[A] : v.cost[A][j] # v.cut
        BY <2>3, <3>1 DEF Stuck
      <4>2. NoCheaper(v, A)
        BY <1>2, <3>1 DEF DepthsInv
      <4>3. ASSUME NEW j \in DOMAIN Grammar[A], v.cost[A][j] # None
            PROVE  v.cost[A][j] >= v.cut + 1
        <5>1. v.cost[A][j] \in Nat
          BY <2>5, <4>3 DEF MaybeDepth
        <5> QED BY <2>4, <4>1, <4>2, <4>3, <5>1 DEF NoCheaper
      <4> QED BY <2>4, <3>1, <4>3 DEF NoCheaper
    <3>2. CASE v.depth[A] # None
      <4>1. DepthIs(v, A)
        BY <1>2, <3>2 DEF DepthsInv
      <4>2. v.depth[A] \in Nat
        BY <2>5, <3>2 DEF MaybeDepth
      <4> QED BY <2>4, <3>2, <4>1, <4>2 DEF DepthIs
    <3> QED BY <3>1, <3>2
  <2>8. DepthsInv(w)
    BY <2>6, <2>7 DEF DepthsInv
  <2> QED BY <1>1, <1>3, <2>4, <2>8 DEF w
<1>4. CASE CountNone(v) # CountNone(d)
  BY <1>1, <1>2, <1>4
<1> QED BY <1>3, <1>4

\* At first nothing is known, and any cost may still be found.
LEMMA UnknownKeeps == Unknown(Grammar) \in DepthsDicts /\ DepthsInv(Unknown(Grammar))
<1> DEFINE d == Unknown(Grammar)
           costs(A) == [j \in DOMAIN Grammar[A] |-> None]
<1>1. DOMAIN Grammar = Nonterminals
  BY GrammarAssumption DEF GrammarAssumption
<1>2. /\ d.cost = [A \in Nonterminals |-> costs(A)]
      /\ d.depth = [A \in Nonterminals |-> None] /\ d.cut = 0
      /\ d = [cost |-> d.cost, depth |-> d.depth, cut |-> d.cut]
  BY <1>1 DEF Unknown
<1>3. ASSUME NEW A \in Nonterminals
      PROVE  costs(A) \in PartialFunctions(Nat, MaybeDepth) /\ DOMAIN costs(A) = DOMAIN Grammar[A]
  <2> DEFINE J == DOMAIN Grammar[A]
  <2>1. J \in SUBSET Nat
    BY ExpansionsAre
  <2> HIDE DEF J
  <2>2. [j \in J |-> None] \in [J -> MaybeDepth]
    BY DEF MaybeDepth
  <2>3. [j \in J |-> None] \in PartialFunctions(Nat, MaybeDepth)
    BY <2>1, <2>2 DEF PartialFunctions
  <2> QED BY <2>3 DEF J
<1>4. d \in DepthsDicts
  <2> HIDE DEF d, costs
  <2>1. d.cost \in [Nonterminals -> PartialFunctions(Nat, MaybeDepth)]
    BY <1>2, <1>3
  <2>2. d.depth \in [Nonterminals -> MaybeDepth]
    BY <1>2 DEF MaybeDepth
  <2>3. \A A \in Nonterminals : DOMAIN d.cost[A] = DOMAIN Grammar[A]
    BY <1>2, <1>3
  <2>4. d.cut \in Nat
    BY <1>2
  <2>5. d \in [cost  : [Nonterminals -> PartialFunctions(Nat, MaybeDepth)],
               depth : [Nonterminals -> MaybeDepth], cut : Nat]
    BY <1>2, <2>1, <2>2, <2>4
  <2> QED BY <2>3, <2>5 DEF DepthsDicts
<1>5. \A A \in Nonterminals : /\ d.depth[A] = None
                              /\ \A j \in DOMAIN Grammar[A] : d.cost[A][j] = None
  BY <1>2
<1> HIDE DEF d
<1>6. DepthsInv(d)
  BY <1>2, <1>5 DEF DepthsInv, CostOpen, NoCheaper
<1> QED BY <1>4, <1>6 DEF d

\* So the invariant holds after any number of passes.
LEMMA PassesKeep ==
  ASSUME NEW tokens \in Seq(Nonterminals), Range(tokens) = Nonterminals, NEW n \in Nat
  PROVE  Passes(Grammar, tokens, n) \in DepthsDicts /\ DepthsInv(Passes(Grammar, tokens, n))
<1> DEFINE Acc == {d \in DepthsDicts : DepthsInv(d)}
           rounds == [i \in 1 .. n |-> i]
           D == DOMAIN rounds
           base == Unknown(Grammar)
           Round(d) == IF CountNone(d) = 0 THEN d ELSE Pass(Grammar, tokens, d)
           Op == [x \in Acc \X Nat |-> Round(x[1])]
           Step(g) == [s \in SUBSET D |-> IF s = {} THEN base ELSE Round(g[s \ {Max(s)}])]
           h == CHOOSE g : g = Step(g)
<1>1. Passes(Grammar, tokens, n) = h[D]
  BY DEF Passes, FoldLeft, MapThenFoldSet
<1>2. \A d \in Acc : Round(d) \in Acc
  BY PassKeeps
<1>3. base \in Acc
  BY UnknownKeeps
<1>4. rounds \in Seq(Nat)
  OBVIOUS
<1> HIDE DEF Acc, Round, base
<1>5. Op \in [Acc \X Nat -> Acc] /\ \A d \in Acc, i \in Nat : Op[d, i] = Round(d)
  BY <1>2
<1> HIDE DEF Op
<1>6. PICK g \in [SUBSET D -> Acc] : Folded(Op, base, rounds, D, g)
  <2> HIDE DEF rounds
  <2> QED BY <1>3, <1>4, <1>5, FoldExists
<1>7. Positions(D) /\ D = 1 .. n
  BY PositionsAre
<1>8. \A s \in SUBSET D : g[s] = IF s = {} THEN base ELSE Round(g[s \ {Max(s)}])
  <2> SUFFICES ASSUME NEW s \in SUBSET D, s # {} PROVE g[s] = Round(g[s \ {Max(s)}])
    BY <1>6 DEF Folded
  <2>1. g[s] = Op[g[s \ {Max(s)}], rounds[Max(s)]]
    BY <1>6 DEF Folded
  <2>2. Max(s) \in s
    BY <1>7 DEF Positions
  <2>3. rounds[Max(s)] \in Nat
    <3>1. \A i \in D : rounds[i] \in Nat
      BY <1>7
    <3> HIDE DEF rounds, D
    <3> QED BY <2>2, <3>1
  <2>4. g[s \ {Max(s)}] \in Acc
    BY <1>6
  <2> QED BY <1>5, <2>1, <2>3, <2>4
<1>9. g = Step(g)
  <2> HIDE DEF D
  <2> QED BY <1>6, <1>8
<1>10. h = Step(h)
  <2> HIDE DEF Step
  <2> QED BY <1>9
<1>11. \A s \in SUBSET D : h[s] \in Acc
  <2> DEFINE Bad == {s \in SUBSET D : h[s] \notin Acc}
  <2> SUFFICES ASSUME Bad # {} PROVE FALSE
    OBVIOUS
  <2> HIDE DEF h, D
  <2>1. PICK s \in Bad : s # {} => s \ {Max(s)} \subseteq s /\ s \ {Max(s)} \notin Bad
    <3>1. Bad \subseteq SUBSET D /\ Bad # {}
      OBVIOUS
    <3> HIDE DEF Bad
    <3>2. \E T \in Bad : /\ \A U \in Bad : U \subseteq T => U = T
                         /\ T # {} => /\ Max(T) \in T
                                      /\ T \ {Max(T)} \subseteq T /\ T \ {Max(T)} \notin Bad
      BY <1>7, <3>1, MinimalPositions
    <3> QED BY <3>2
  <2>2. s \in SUBSET D /\ h[s] \notin Acc
    OBVIOUS
  <2>3. h[s] = IF s = {} THEN base ELSE Round(h[s \ {Max(s)}])
    BY <1>10, <2>2
  <2>4. s # {}
    BY <1>3, <2>2, <2>3
  <2>5. h[s \ {Max(s)}] \in Acc
    BY <2>1, <2>2, <2>4
  <2> QED BY <1>2, <2>2, <2>3, <2>4, <2>5
<1>12. h[D] \in Acc
  <2> HIDE DEF h, D
  <2> QED BY <1>11
<1> QED BY <1>1, <1>12 DEF Acc

\* When nothing is unknown any more, the depth of a token is one more than the cost
\* of its cheapest expansion.
LEMMA DepthsAreLeast ==
  ASSUME NEW d \in DepthsDicts, DepthsInv(d), IsFiniteSet(Nonterminals), CountNone(d) = 0,
         NEW A \in Nonterminals
  PROVE  /\ \A j \in DOMAIN Grammar[A] :
              d.cost[A][j] \in Nat /\ d.depth[A] <= d.cost[A][j] + 1 /\ CostIs(d, A, j)
         /\ d.depth[A] \in Nat
         /\ \E j \in DOMAIN Grammar[A] : d.depth[A] = d.cost[A][j] + 1
<1>1. NoneDepths(d) = {} /\ NoneCosts(d) = {}
  <2> DEFINE F == NoneDepths(d)
             P == NoneCosts(d)
  <2>1. IsFiniteSet(F) /\ IsFiniteSet(P) /\ Cardinality(F) + Cardinality(P) = 0
    BY CountNoneIs
  <2> HIDE DEF F, P
  <2>2. Cardinality(F) \in Nat /\ Cardinality(P) \in Nat
    BY <2>1, FS_CardinalityType
  <2>3. Cardinality(F) = 0 /\ Cardinality(P) = 0
    BY <2>1, <2>2
  <2>4. F = {} /\ P = {}
    BY <2>1, <2>3, FS_EmptySet
  <2> QED BY <2>4 DEF F, P
<1>2. d.depth[A] # None
  BY <1>1 DEF NoneDepths
<1>3. ASSUME NEW j \in DOMAIN Grammar[A] PROVE d.cost[A][j] # None
  <2>1. <<A, j>> \in AllAlternatives
    BY DEF AllAlternatives
  <2> QED BY <1>1, <2>1 DEF NoneCosts
<1>4. /\ d.depth[A] \in MaybeDepth
      /\ \A j \in DOMAIN Grammar[A] : d.cost[A][j] \in MaybeDepth
  <2>1. /\ d.depth[A] \in MaybeDepth
        /\ d.cost[A] \in PartialFunctions(Nat, MaybeDepth) /\ DOMAIN d.cost[A] = DOMAIN Grammar[A]
    BY DEF DepthsDicts
  <2> QED BY <2>1 DEF PartialFunctions
<1>5. d.depth[A] \in Nat /\ \A j \in DOMAIN Grammar[A] : d.cost[A][j] \in Nat
  BY <1>2, <1>3, <1>4 DEF MaybeDepth
<1>6. DepthIs(d, A) /\ \A j \in DOMAIN Grammar[A] : CostIs(d, A, j)
  BY <1>2, <1>3 DEF DepthsInv
<1> QED BY <1>3, <1>5, <1>6 DEF DepthIs

\* Equal expansions have equal costs.
LEMMA EqualExpansions ==
  ASSUME NEW d, NEW A \in Nonterminals, NEW i \in DOMAIN Grammar[A], NEW j \in DOMAIN Grammar[A],
         Grammar[A][i].exp = Grammar[A][j].exp, CostIs(d, A, i), CostIs(d, A, j),
         d.cost[A][i] \in Nat, d.cost[A][j] \in Nat
  PROVE  d.cost[A][i] = d.cost[A][j]
<1> DEFINE I == Inside(Grammar[A][i].exp)
           c == d.cost[A][i]
           e == d.cost[A][j]
<1>1. /\ A \in I => c = 999 /\ e = 999
      /\ A \notin I => /\ \A B \in I : d.depth[B] \in Nat /\ d.depth[B] <= c /\ d.depth[B] <= e
                       /\ c = 0 \/ \E B \in I : c = d.depth[B]
                       /\ e = 0 \/ \E B \in I : e = d.depth[B]
  BY DEF CostIs
<1>2. c \in Nat /\ e \in Nat
  OBVIOUS
<1> HIDE DEF I, c, e
<1>3. c = e
  BY <1>1, <1>2
<1> QED BY <1>3 DEF c, e

\* Theorem: what calculate_depths returns is a cost table as the generators assume
\* it.  Whenever its loop ends, for any grammar and any order of the grammar's keys,
\* all costs are known and a cheapest expansion has only tokens that are cheaper
\* than its own, although depths are fixed before all costs are known, at a
\* minimum_cut that rises when a pass has made no progress.  Costs of 999 stand for
\* expansions into their own token, so no token may be as costly as that.
THEOREM CostTableFits ==
  ASSUME NEW tokens \in Seq(Nonterminals), Range(tokens) = Nonterminals, NEW n \in Nat,
         Ends(Grammar, tokens, n), CostMap = CalculateDepths(Grammar, tokens, n),
         CostBound < 999, \A A \in Nonterminals : MinCost(A) <= CostBound
  PROVE  CostAssumption
<1> DEFINE d == Passes(Grammar, tokens, n)
<1>1. d \in DepthsDicts /\ DepthsInv(d) /\ CountNone(d) = 0
  BY PassesKeep DEF Ends
<1>2. IsFiniteSet(Nonterminals)
  <2>1. DOMAIN tokens = 1 .. Len(tokens) /\ Len(tokens) \in Nat
    OBVIOUS
  <2>2. IsFiniteSet(DOMAIN tokens)
    BY <2>1, FS_Interval
  <2>3. IsFiniteSet({tokens[i] : i \in DOMAIN tokens})
    BY <2>2, FiniteImage
  <2> QED BY <2>3 DEF Range
<1>3. DOMAIN Grammar = Nonterminals
  BY GrammarAssumption DEF GrammarAssumption
<1>4. CostMap = [A \in DOMAIN Grammar |->
                   [exp \in {Grammar[A][j].exp : j \in DOMAIN Grammar[A]} |->
                      d.cost[A][Max({j \in DOMAIN Grammar[A] : Grammar[A][j].exp = exp})]]]
  BY DEF CalculateDepths
<1> HIDE DEF d
<1>5. ASSUME NEW A \in Nonterminals, NEW j \in DOMAIN Grammar[A]
      PROVE  Cost(A, j) = d.cost[A][j]
  <2> DEFINE exp == Grammar[A][j].exp
             Same == {i \in DOMAIN Grammar[A] : Grammar[A][i].exp = exp}
             last == Max(Same)
  <2>1. last \in DOMAIN Grammar[A] /\ Grammar[A][last].exp = exp
    <3>1. Positions(DOMAIN Grammar[A])
      BY ExpansionsAre, PositionsAre
    <3>2. Same \in SUBSET DOMAIN Grammar[A] /\ Same # {}
      OBVIOUS
    <3>3. Max(Same) \in Same
      <4> HIDE DEF Same
      <4> QED BY <3>1, <3>2 DEF Positions
    <3> QED BY <3>3
  <2>2. Cost(A, j) = d.cost[A][last]
    <3>1. A \in DOMAIN CostMap /\ exp \in DOMAIN CostMap[A] /\ CostMap[A][exp] = d.cost[A][last]
      <4> DEFINE row(B) == [x \in {Grammar[B][i].exp : i \in DOMAIN Grammar[B]} |->
                              d.cost[B][Max({i \in DOMAIN Grammar[B] : Grammar[B][i].exp = x})]]
      <4>1. CostMap = [B \in Nonterminals |-> row(B)]
        BY <1>3, <1>4
      <4>2. exp \in DOMAIN row(A) /\ row(A)[exp] = d.cost[A][last]
        OBVIOUS
      <4> HIDE DEF row, exp, last
      <4> QED BY <4>1, <4>2
    <3> QED BY <3>1 DEF Cost, ExpansionCost, Lookup
  <2> HIDE DEF last, Same
  <2>3. /\ CostIs(d, A, last) /\ CostIs(d, A, j)
        /\ d.cost[A][last] \in Nat /\ d.cost[A][j] \in Nat
    BY <1>1, <1>2, <2>1, DepthsAreLeast
  <2>4. d.cost[A][last] = d.cost[A][j]
    BY <2>1, <2>3, EqualExpansions
  <2> QED BY <2>2, <2>4
<1>6. ASSUME NEW A \in Nonterminals PROVE MinCost(A) \in Nat /\ MinCost(A) + 1 = d.depth[A]
  <2>1. /\ \A j \in DOMAIN Grammar[A] : d.cost[A][j] \in Nat /\ d.depth[A] <= d.cost[A][j] + 1
        /\ d.depth[A] \in Nat
        /\ \E j \in DOMAIN Grammar[A] : d.depth[A] = d.cost[A][j] + 1
    BY <1>1, <1>2, DepthsAreLeast
  <2>2. Costs(A) = {d.cost[A][j] : j \in DOMAIN Grammar[A]}
    BY <1>5 DEF Costs
  <2>3. PICK j \in DOMAIN Grammar[A] : d.depth[A] = d.cost[A][j] + 1
    BY <2>1
  <2>4. d.cost[A][j] \in Costs(A) /\ \A c \in Costs(A) : c \in Nat /\ d.cost[A][j] <= c
    BY <2>1, <2>2, <2>3
  <2>5. MinCost(A) \in Costs(A) /\ \A c \in Costs(A) : MinCost(A) <= c
    BY <2>4 DEF MinCost
  <2>6. MinCost(A) = d.cost[A][j]
    BY <2>4, <2>5
  <2> QED BY <2>1, <2>3, <2>6
<1>7. ASSUME NEW A \in Nonterminals
      PROVE  /\ \A j \in DOMAIN Grammar[A] : Cost(A, j) \in Nat
             /\ MinCost(A) <= CostBound
             /\ \A j \in DOMAIN Grammar[A] : Cost(A, j) = MinCost(A) =>
                  \A k \in DOMAIN Grammar[A][j].exp :
                    Grammar[A][j].exp[k] \in Nonterminals =>
                      MinCost(Grammar[A][j].exp[k]) < MinCost(A)
  <2>1. \A j \in DOMAIN Grammar[A] : d.cost[A][j] \in Nat /\ CostIs(d, A, j)
    BY <1>1, <1>2, DepthsAreLeast
  <2>2. ASSUME NEW j \in DOMAIN Grammar[A], Cost(A, j) = MinCost(A),
               NEW k \in DOMAIN Grammar[A][j].exp, Grammar[A][j].exp[k] \in Nonterminals
        PROVE  MinCost(Grammar[A][j].exp[k]) < MinCost(A)
    <3> DEFINE B == Grammar[A][j].exp[k]
               I == Inside(Grammar[A][j].exp)
    <3>1. B \in I
      BY <2>2 DEF Inside
    <3>2. d.cost[A][j] = MinCost(A) /\ d.cost[A][j] \in Nat /\ d.cost[A][j] < 999
      <4>1. d.cost[A][j] = MinCost(A) /\ d.cost[A][j] \in Nat
        BY <1>5, <2>1, <2>2
      <4>2. MinCost(A) <= CostBound /\ CostBound \in Nat /\ CostBound < 999
        BY BoundAssumption DEF BoundAssumption
      <4> QED BY <4>1, <4>2
    <3>3. A \notin I
      BY <2>1, <3>2 DEF CostIs
    <3>4. d.depth[B] \in Nat /\ d.depth[B] <= d.cost[A][j]
      BY <2>1, <3>1, <3>3 DEF CostIs
    <3>5. MinCost(B) \in Nat /\ MinCost(B) + 1 = d.depth[B]
      BY <1>6, <2>2
    <3> HIDE DEF B
    <3>6. MinCost(B) < MinCost(A)
      BY <3>2, <3>4, <3>5
    <3> QED BY <3>6 DEF B
  <2> QED BY <1>5, <2>1, <2>2
<1> QED BY <1>7 DEF CostAssumption
=============================================================================
