--------------------------- MODULE TribbleGenerator ---------------------------
(***************************************************************************)
(* The k-path generator, InputGenerator.generate_input and main of         *)
(* tribbleGenerator.py.  A call of generate_input takes k-paths off a work *)
(* list until it is empty; for each it builds one tree with cheapest       *)
(* expansions, guided along a target path through one slot per level, and  *)
(* takes the k-paths of that tree off the list as well.  main calls it     *)
(* until there are Num inputs or more.                                     *)
(*                                                                         *)
(* Nodes, pruning and the visit of a level are those of InputGenerator,    *)
(* which tribbleGenerator.py has a copy of.                                *)
(***************************************************************************)
EXTENDS InputGenerator, SequencesExt

CONSTANTS
  KValue,     \* k_value
  KPaths,     \* possible_kpaths
  PrefixDict    \* prefix_dict: nonterminal -> the paths that lead to it

GrammarPath(p) ==
  /\ p \in Seq(Nonterminals)
  /\ \A k \in 1 .. Len(p) - 1 :
       \E alt \in Range(Grammar[p[k]]) : p[k + 1] \in Range(alt.exp)

\* The k-paths of the grammar, and prefixes from its start to each of them.
ASSUME PathAssumption ==
  /\ KValue \in Nat \ {0, 1}
  /\ KPaths # {}
  /\ \A path \in KPaths :
       /\ GrammarPath(path) /\ Len(path) = KValue
       /\ path[1] \in DOMAIN PrefixDict /\ PrefixDict[path[1]] # {}
  /\ \A A \in DOMAIN PrefixDict : \A p \in PrefixDict[A] :
       GrammarPath(p) /\ p # <<>> /\ p[1] = StartRule /\ p[Len(p)] = A

VARIABLES
  uncovered,  \* uncovered_paths
  target,     \* target_path, <<>> between two trees
  slot,       \* selected_slot: a node of the last level, or NoSlot
  nextSlot    \* next_slot

pathVars == <<uncovered, target, slot, nextSlot>>
allVars  == <<vars, pathVars>>

NoSlot == 0
-------------------------------------------------------------------------------
(* Choosing an expansion.                                                  *)

NextSymbol == target[depth + 2]

Has(alt, symbol) == symbol \in Range(alt.exp)

\* In the slot: the cheapest of those with the next symbol of the target, no
\* matter what is pruned.
SlotCandidates(symbol) ==
  LET with == {j \in DOMAIN Grammar[symbol] : Has(Grammar[symbol][j], NextSymbol)}
  IN  {j \in with : \A k \in with : Cost(symbol, j) <= Cost(symbol, k)}

\* Mutants: any expansion may be chosen near the root, whatever is pruned, and
\* so it may one level further down.
OtherCandidatesDeeper(symbol, pruned) ==
  LET free == {j \in Cheapest(symbol) : Grammar[symbol][j].dn \notin pruned}
  IN  CASE free # {}                           -> free
        [] free = {} /\ Len(tree) <= MaxDepths -> DOMAIN Grammar[symbol]
        [] free = {} /\ Len(tree) > MaxDepths  -> Cheapest(symbol)

OtherCandidatesAny(symbol, pruned) ==
  IF Len(tree) < MaxDepths THEN DOMAIN Grammar[symbol]
                           ELSE Unpruned(symbol, Cheapest(symbol), pruned)

\* Elsewhere: a cheapest one that is not pruned; where all of them are, any
\* expansion near the root, and any cheapest one below.
OtherCandidates(symbol, pruned) ==
  LET free == {j \in Cheapest(symbol) : Grammar[symbol][j].dn \notin pruned}
  IN  CASE free # {}                           -> free
        [] free = {} /\ Len(tree) < MaxDepths  -> DOMAIN Grammar[symbol]
        [] free = {} /\ Len(tree) >= MaxDepths -> Cheapest(symbol)
-------------------------------------------------------------------------------
TribbleInit ==
  /\ table \in Tables
  /\ phase = "path"
  /\ tree = RootTree /\ node = 0 /\ next = <<>>
  /\ tmpSubSeqs = {}
  /\ depth = 0
  /\ inputs = 0
  /\ uncovered = KPaths
  /\ target = <<>> /\ slot = NoSlot /\ nextSlot = NoSlot

BeginPathWith(subSeqs) ==
  /\ phase = "path" /\ uncovered # {}
  /\ \E path \in uncovered : \E prefix \in PrefixDict[path[1]] :
       /\ uncovered' = uncovered \ {path}
       /\ target' = Front(prefix) \o path
  /\ phase' = "minimum"
  /\ tree' = RootTree
  /\ tmpSubSeqs' = subSeqs
  /\ depth' = 0
  /\ slot' = 1
  /\ UNCHANGED <<table, node, next, inputs, nextSlot>>

\* The head of the loop of generate_input: the next target.
BeginPath == BeginPathWith({})

BeginLevel == BeginMinimumLevel /\ UNCHANGED pathVars

Visit == VisitLeaf /\ UNCHANGED pathVars

\* The places in the next level that go on with the target.
ChildSlots(alt) == {Start + k : k \in {k \in DOMAIN alt.exp : alt.exp[k] = NextSymbol}}

\* expand_minimum_node_guided, the selected node.
ExpandSlot ==
  /\ phase = "minimum" /\ node \in DOMAIN Level /\ Level[node].status = "open"
  /\ node = slot
  /\ \E j \in SlotCandidates(Level[node].symbol) :
       LET alt == Grammar[Level[node].symbol][j]
       IN  ExpandWith(alt) /\ nextSlot' \in ChildSlots(alt)
  /\ UNCHANGED <<uncovered, target, slot>>

\* expand_minimum_node_guided, any other open node.
ExpandOther ==
  /\ phase = "minimum" /\ node \in DOMAIN Level /\ Level[node].status = "open"
  /\ node # slot
  /\ \E j \in OtherCandidates(Level[node].symbol, PrunedHere) :
       ExpandWith(Grammar[Level[node].symbol][j])
  /\ UNCHANGED pathVars

\* Mutant: guidance stops one symbol early.
LastGuidedEarly == Len(target) - 2

LastGuided == Len(target) - 1

EndGuidedLevelAs(atNext) ==
  /\ EndLevel
  /\ slot' = IF depth' = LastGuided THEN NoSlot ELSE nextSlot
  /\ nextSlot' = atNext
  /\ UNCHANGED <<uncovered, target>>

\* The next level is appended; at the end of the target there is no slot.
EndGuidedLevel == EndGuidedLevelAs(NoSlot)

\* The paths of KValue nodes from parent to child that a tree contains.
KPathsOf(t) ==
  {LET path == RootPath(Skeleton(t, p[1]), p[2])
   IN  SubSeq(path, p[1] - KValue + 1, p[1]) :
     p \in UNION {{<<d, i>> : i \in DOMAIN t[d]} : d \in KValue .. Len(t)}}

\* Mutant: every path that ends like one of the tree is taken for covered.
CoveredByEnd(t) == {p \in KPaths : \E q \in KPathsOf(t) : p[KValue] = q[KValue]}

\* The stack search through the tree.
Covered(t) == KPaths \cap KPathsOf(t)

\* The tree is complete: its files are written, and its paths come off the
\* list.
WriteTree ==
  /\ phase = "minimum" /\ node = 0 /\ ~ AnyOpen(Level)
  /\ inputs' = inputs + 1
  /\ uncovered' = uncovered \ Covered(tree)
  /\ phase' = "path"
  /\ target' = <<>>
  /\ UNCHANGED <<table, tree, node, next, tmpSubSeqs, depth, slot, nextSlot>>

\* generate_input returns; main calls it again unless there are enough inputs.
CallAgain ==
  /\ phase = "path" /\ uncovered = {}
  /\ IF inputs >= Num THEN phase' = "done" /\ UNCHANGED uncovered
               ELSE uncovered' = KPaths /\ UNCHANGED phase
  /\ UNCHANGED <<table, tree, node, next, tmpSubSeqs, depth, inputs, target,
                 slot, nextSlot>>

Finished == phase = "done" /\ UNCHANGED allVars

TribbleNext ==
  \/ BeginPath \/ BeginLevel \/ Visit \/ ExpandSlot \/ ExpandOther
  \/ EndGuidedLevel \/ WriteTree \/ CallAgain \/ Finished

\* As for InputGenerator: one thread, and nothing in it blocks.
TribbleSpec == TribbleInit /\ [][TribbleNext]_allVars /\ WF_allVars(TribbleNext)
-------------------------------------------------------------------------------
(* Properties.                                                             *)

TribbleTypeOK ==
  /\ phase \in {"path", "minimum", "done"}
  /\ tree \in Seq(Seq(NodeType)) /\ tree # <<>>
  /\ node \in 0 .. Len(Level) + 1
  /\ tmpSubSeqs \subseteq DOMAIN table.paths
  /\ depth = Len(tree) - 1
  /\ uncovered \subseteq KPaths
  /\ phase = "minimum" <=> target # <<>>
  /\ slot \in {NoSlot} \cup DOMAIN Level /\ nextSlot \in {NoSlot} \cup DOMAIN next

\* A finished tree has its target path from the root, although the slot is
\* handed from level to level as an offset into a level under construction.
TargetReached ==
  phase = "minimum" /\ node = 0 /\ ~ AnyOpen(Level) =>
    /\ Len(target) <= Len(tree)
    /\ \E i \in DOMAIN tree[Len(target)] :
         RootPath(Skeleton(tree, Len(target)), i) = target

\* The trees are well formed, and of the sub-sequences matched in one nothing is
\* left for the next, which a call builds right after it.
GuidedTrees == TribbleTypeOK /\ MatchedExact /\ TargetReached

\* A guided tree closes within CostBound + 1 levels of its target's end or of
\* the depth limit, although near the root any expansion may be chosen.
GuidedHeightBounded ==
  phase = "minimum" =>
    \/ Len(tree) <= Len(target) + CostBound + 1
    \/ Len(tree) <= MaxDepths + CostBound + 1

\* Off the target, a step that completes a rule of which one sub-sequence was
\* missing found every cheapest expansion pruned.
OffTargetWhenCornered ==
  [][\A rule \in RuleSets :
       /\ Completes(rule, tmpSubSeqs, tmpSubSeqs')
       /\ \E id \in rule : rule \ tmpSubSeqs = {id}
       => \/ node = slot
          \/ \A j \in Cheapest(Level[node].symbol) :
               Grammar[Level[node].symbol][j].dn \in PrunedHere
    ]_allVars

\* Each k-path is in some tree, whichever targets are drawn and whichever
\* paths other trees happen to cover: a path that leaves the list has been
\* generated.
EveryPathGenerated ==
  \A path \in KPaths :
    <>(phase = "minimum" /\ node = 0 /\ ~ AnyOpen(Level) /\ path \in KPathsOf(tree))

\* So main ends, with the inputs it was asked for and every path in one of them.
GeneratorEnds == EveryPathGenerated /\ <>(phase = "done" /\ inputs >= Num)
===============================================================================
