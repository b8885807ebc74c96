---------------------------- MODULE RuleExtraction ----------------------------
(***************************************************************************)
(* One update of the rules, from the sub-sequences of the inputs of each   *)
(* cluster to the table of the generator: capture_rule_from_cluster for    *)
(* every cluster to update, then "Make PL for generator" of run, in        *)
(* generateRS.py and in the versions of naive_genRS.py.                    *)
(*                                                                         *)
(* Where mean-shift clustering cuts the ranking of sub-sequences, and how  *)
(* many of its groups a recapture uses, is any cut between two different   *)
(* ratios.                                                                 *)
(***************************************************************************)
EXTENDS SubSequences

CONSTANTS
  RuleDict,     \* rule_dict: nonterminal -> sequence of [exp, dn, ...]
  Analysed,     \* what the clusters to update may hold: functions from
                \* clusters to sets of lists of sub-sequences
  Versions      \* "rsfuzz" for generateRS, else options.naive_version

ASSUME VersionAssumption ==
  Versions \subseteq {"rsfuzz", "naive", "select", "capture"}

\* rule_dict lists the expansions of a nonterminal, each with its number.
ASSUME RuleDictAssumption ==
  \A A \in DOMAIN RuleDict :
    /\ RuleDict[A] \in Seq(Range(RuleDict[A]))
    /\ \A alt \in Range(RuleDict[A]) : alt.dn \in Nat

\* A path down some derivation tree, in which no symbol follows itself any more,
\* and a derivation number of its end.
Derivable(s) ==
  /\ s \in [path : Seq(DOMAIN RuleDict) \ {<<>>}, dn : Nat]
  /\ \A k \in 1 .. Len(s.path) - 1 :
       /\ s.path[k] # s.path[k + 1]
       /\ \E alt \in Range(RuleDict[s.path[k]]) : s.path[k + 1] \in Range(alt.exp)
  /\ \E alt \in Range(RuleDict[LastSymbol(s)]) : s.dn = alt.dn

\* Finitely many inputs, of which dt_to_sequences read finitely many of those.
ASSUME AnalysedAssumption ==
  \A f \in Analysed :
    /\ IsFiniteSet(DOMAIN f)
    /\ \A c \in DOMAIN f :
         IsFiniteSet(f[c]) /\ \A l \in f[c] : IsFiniteSet(l) /\ \A s \in l : Derivable(s)

VARIABLES
  version,
  clusters,     \* the lists of each cluster to update, seqs_list
  rules,        \* recurrent_sequences: captured cluster -> set of rules
  listed,       \* tmp_rss, the rules of the table
  forGenerator, \* (subseq_for_generator, idx_subseq, rs_for_generator)
  stage         \* "capture", "done", or "failed" by an IndexError

updateVars == <<version, clusters, rules, listed, forGenerator, stage>>

UpdateInit ==
  /\ version \in Versions
  /\ clusters \in Analysed
  /\ rules = <<>>
  /\ listed = {}
  /\ forGenerator = EmptyTable
  /\ stage = "capture"
-------------------------------------------------------------------------------
(* capture_rule_from_cluster                                               *)

\* Versions that shorten and thin out; the others take everything as it is.
Refines == version \in {"rsfuzz", "capture"}

\* One way to simplify every list.
Simplified(lists) ==
  IF ~ Refines THEN {lists} ELSE
  {{RemainingSeqs(sorted[l]) : l \in lists} :
     sorted \in {f \in [lists -> UNION {ByLength({Refined(s) : s \in l}) : l \in lists}] :
                   \A l \in lists : f[l] \in ByLength({Refined(s) : s \in l})}}

\* The number of lists with a sub-sequence, and with those it takes off.
Occurrences(lists, sorted, s) ==
  MapThenSumSet(LAMBDA k : Cardinality({l \in lists : sorted[k] \in l}),
                {k \in DOMAIN sorted :
                   /\ \E i \in 1 .. k : sorted[i] = s
                   /\ CompareSubpaths(sorted[k], s)})

\* min(x / total_cnt, 1.0), in units of 1 / total_cnt.
Value(lists, sorted, s) == Min({Occurrences(lists, sorted, s), Cardinality(lists)})

\* tmp_captured_sequences: all down to some value.
Captured(lists, sorted) ==
  LET remaining == RemainingSeqs(sorted)
  IN  {{s \in remaining : Value(lists, sorted, s) >= Value(lists, sorted, cut)} :
         cut \in remaining}

\* Mutant: the paths are not compared.
RulesOfListsByEnding(lists, captured) ==
  {{s \in captured : \E t \in l : Ending(t) = Ending(s)} : l \in lists} \ {{}}

\* tmp_pl: what each list has of the captured sub-sequences.
RulesOfLists(lists, captured) ==
  {{s \in captured : \E t \in l : CompareSubpaths(s, t)} : l \in lists} \ {{}}

\* redundant_seqs
Redundant(found) ==
  IF Refines THEN {RemoveIncludedSeqs(sorted) : sorted \in BySize(found)} ELSE {found}

CaptureRuleFromCluster(c) ==
  /\ stage = "capture" /\ c \notin DOMAIN rules
  /\ \E lists \in Simplified(clusters[c]) :
       \E sorted \in ByLength(UNION lists) :
         \E captured \in Captured(lists, sorted) :
           \E kept \in Redundant(RulesOfLists(lists, captured)) :
             rules' = With(rules, c, kept)
  /\ UNCHANGED <<version, clusters, listed, forGenerator, stage>>
-------------------------------------------------------------------------------
(* Make PL for generator                                                   *)

CapturedRules == UNION {rules[c] : c \in DOMAIN rules}

AllCaptured == stage = "capture" /\ DOMAIN rules = DOMAIN clusters

MakePL ==
  /\ AllCaptured /\ Refines
  /\ \E first \in BySize(CapturedRules) :
       LET kept == RemoveIncludedSeqs(first)
       IN  IF MergeFails(RuleDict, kept)
           THEN stage' = "failed" /\ UNCHANGED <<listed, forGenerator>>
           ELSE /\ stage' = "done"
                /\ \E second \in BySize(MergeRules(RuleDict, kept)) :
                     listed' = RemoveIncludedSeqs(second)
                /\ forGenerator' = MakeTable(SetToSeq(listed'))
  /\ UNCHANGED <<version, clusters, rules>>

\* Every captured rule goes into the table.
MakePLOfAll ==
  /\ AllCaptured /\ ~ Refines
  /\ stage' = "done"
  /\ listed' = CapturedRules
  /\ forGenerator' = MakeTable(SetToSeq(listed'))
  /\ UNCHANGED <<version, clusters, rules>>

\* The process ends, or the update is over and the next batch generated.
Ended == stage # "capture" /\ UNCHANGED updateVars

UpdateNext ==
  \/ \E c \in DOMAIN clusters : CaptureRuleFromCluster(c)
  \/ MakePL \/ MakePLOfAll
  \/ Ended

UpdateSpec == UpdateInit /\ [][UpdateNext]_updateVars
-------------------------------------------------------------------------------
(* Properties.                                                             *)

\* In every derivation tree that has s, satisfy_pre_seq finds m as well.
IsPart(m, s) ==
  /\ Ending(m) = Ending(s)
  /\ \E at \in [DOMAIN m.path -> DOMAIN s.path] :
       /\ \A i, j \in DOMAIN at : i < j => at[i] < at[j]
       /\ \A i \in DOMAIN at : s.path[at[i]] = m.path[i]

\* compare_subpaths takes one of two sub-sequences for a part of the other
\* although the scan went backwards.
Confused(S) == \E s, t \in S : CompareSubpaths(s, t) /\ ~ IsPart(t, s)

\* One of the lists has the combination.
Occurs(rule, lists) ==
  \E l \in lists : \A m \in rule : \E s \in l : IsPart(m, s)

\* What simplify_subpaths and capture_rule_from_cluster compare.
Compared(lists) == IF Refines THEN {Refined(s) : s \in UNION lists} ELSE UNION lists

\* A rule captured from a cluster is a combination that an input of the
\* cluster really has, although it is put together from a ranking over all of
\* them, unless compare_subpaths confuses two of their sub-sequences.
CapturedOccur ==
  \A c \in DOMAIN rules :
    ~ Confused(Compared(clusters[c])) => \A r \in rules[c] : Occurs(r, clusters[c])

\* merge_rules replaces a rule that has only a part of the intersection.
PartlyMerged ==
  Refines /\ \E m \in Merging(RuleDict, CapturedRules) : ~ (m.inter \subseteq m.entry[1])

\* A member of the rule is an expansion of the parent of a symbol, and with each
\* expansion of that symbol below it instead, the rule is one that occurs.
StandsForOccurring(rule, lists) ==
  \E m \in rule : \E X \in DOMAIN RuleDict :
    /\ \E alt \in Range(RuleDict[LastSymbol(m)]) : alt.dn = m.dn /\ X \in Range(alt.exp)
    /\ \A below \in Range(RuleDict[X]) :
         Occurs((rule \ {m}) \cup {SubSequence(Append(m.path, X), below.dn)}, lists)

\* The table excludes a combination only on the evidence of inputs: either one of
\* them has it, or merging put it in place of combinations that inputs have, one
\* for every way to expand the symbol it no longer tells apart.  (merge_rules takes
\* every expansion of the parent with that symbol, also one that no input took.)
TableOccurs ==
  LET all == UNION {clusters[c] : c \in DOMAIN clusters}
  IN  ~ Confused(Compared(all)) /\ ~ PartlyMerged =>
        \A r \in RulesOf(forGenerator) : Occurs(r, all) \/ StandsForOccurring(r, all)

\* The table says exactly what the list said: ids are dense and lead to the
\* paths they stand for, every rule is found at each node that could complete
\* it, under the derivation number that would, and no two rules run into each
\* other although they share sub-sequences, symbols and derivation numbers.
RulesReadBack == WellFormed(forGenerator) /\ RulesOf(forGenerator) = listed

\* The expansion m ends with can put the last symbol of s into a tree.
Produces(m, s) ==
  \E alt \in Range(RuleDict[LastSymbol(m)]) :
    alt.dn = m.dn /\ LastSymbol(s) \in Range(alt.exp)

\* No captured rule is lost without trace in the three passes over the list:
\* the table has a rule whose members all end like one of its members, or in
\* the expansion above it.
RulesLeaveTrace ==
  stage = "done" /\ ~ PartlyMerged =>
    \A r \in CapturedRules : \E k \in RulesOf(forGenerator) : \A m \in k : \E s \in r :
      Ending(m) = Ending(s) \/ Produces(m, s)

\* What else a tree with s has at the parent of s's last node: one of these.
ParentsOf(s) ==
  IF Len(s.path) = 1 THEN {}
  ELSE {SubSequence(Before(s), alt.dn) : alt \in
          {a \in Range(RuleDict[s.path[Len(s.path) - 1]]) : LastSymbol(s) \in Range(a.exp)}}

\* All that is known of a tree with the sub-sequences of S, for each way the
\* parents may have been expanded.
Trees(S) ==
  LET up == {s \in S : ParentsOf(s) # {}}
  IN  {S \cup {f[s] : s \in up} :
         f \in {f \in [up -> UNION {ParentsOf(s) : s \in up}] :
                  \A s \in up : f[s] \in ParentsOf(s)}}

\* What the project promises (README, "automatically identifies main causes of
\* redundancy and guides the base fuzzer to avoid them"): an input that has a
\* captured rule has a rule of the table.
CapturedAvoided ==
  stage = "done" =>
    \A r \in CapturedRules : \A T \in Trees(r) :
      \E k \in RulesOf(forGenerator) : \A m \in k : \E s \in T : IsPart(m, s)
===============================================================================
