------------------------------ MODULE RuleTable ------------------------------
(***************************************************************************)
(* The rule table that the capture phase hands to the input generator      *)
(* (generateRS.py, "Make PL for generator").  A captured rule (a           *)
(* "recurrent sequence") is a set of sub-sequences; a sub-sequence is a    *)
(* path of nonterminals from the root of a derivation tree followed by the *)
(* derivation number applied to the last one of them.  The table has three *)
(* parts, which the generator indexes while it expands a tree:             *)
(*                                                                         *)
(*   subs   <<symbol, dn, path>> :> id       sub_sequences[sym][dn][path]  *)
(*   paths  id :> path                       idx_subseq_dict[id]           *)
(*   rules  symbol :> {<<dn, set of ids>>}   recurrent_sequence[sym]       *)
(*                                                                         *)
(* The nested dictionaries are functions keyed by a tuple, and the list    *)
(* recurrent_sequence[sym], which the code keeps free of duplicates and    *)
(* only ever scans whole, is a set.                                        *)
(***************************************************************************)
EXTENDS Naturals, FiniteSets, SequencesExt

\* A sub-sequence: the tuple (path..., dn) split at its last element.
SubSequence(path, dn) == [path |-> path, dn |-> dn]

LastSymbol(sub) == sub.path[Len(sub.path)]

Key(sub) == <<LastSymbol(sub), sub.dn, sub.path>>

EmptyTable == [subs  |-> <<>>, paths |-> <<>>, rules |-> <<>>]

\* The value of a partial function, with a default where it is undefined.
Lookup(f, x, default) == IF x \in DOMAIN f THEN f[x] ELSE default

With(f, x, v) == [y \in DOMAIN f \cup {x} |-> IF y = x THEN v ELSE f[y]]

\* A sub-sequence gets the next free id the first time it is met.
AddSubSequence(table, sub) ==
  IF Key(sub) \in DOMAIN table.subs
  THEN table
  ELSE LET id == Cardinality(DOMAIN table.subs)
       IN  [table EXCEPT !.subs  = With(@, Key(sub), id),
                         !.paths = With(@, id, sub.path)]

\* Mutant: the list of a symbol is made anew for every rule.
ListRuleAlone(table, converted, sub) ==
  [table EXCEPT !.rules = With(@, LastSymbol(sub), {<<sub.dn, converted>>})]

\* The rule is listed once under the last symbol of each of its members,
\* next to the derivation number that member ends with.
ListRule(table, converted, sub) ==
  LET symbol == LastSymbol(sub)
  IN  [table EXCEPT !.rules =
         With(@, symbol, Lookup(@, symbol, {}) \cup {<<sub.dn, converted>>})]

AddRule(table, rule) ==
  LET members   == SetToSeq(rule)
      numbered  == FoldLeft(AddSubSequence, table, members)
      converted == {numbered.subs[Key(sub)] : sub \in rule}
  IN  FoldLeft(LAMBDA t, sub : ListRule(t, converted, sub), numbered, members)

\* The table of a list of rules.
MakeTable(rules) == FoldLeft(AddRule, EmptyTable, rules)
-------------------------------------------------------------------------------
(* What a table says of rules.                                             *)

\* The rule that a set of ids stands for.
Decode(table, ids) ==
  {SubSequence(k[3], k[2]) : k \in {k \in DOMAIN table.subs : table.subs[k] \in ids}}

\* Ids are numbered from 0 without gaps, distinct, and lead to the path the
\* generator looks for; every listed rule has a member that asks for the
\* listed derivation number at the symbol it is listed under, and all of its
\* members are listed in the same way.
WellFormed(table) ==
  /\ DOMAIN table.paths = 0 .. Cardinality(DOMAIN table.subs) - 1
  /\ \A k \in DOMAIN table.subs :
       /\ table.subs[k] \in DOMAIN table.paths
       /\ table.paths[table.subs[k]] = k[3]
       /\ k[1] = k[3][Len(k[3])]
       /\ \A m \in DOMAIN table.subs : table.subs[k] = table.subs[m] => k = m
  /\ \A symbol \in DOMAIN table.rules : \A rule \in table.rules[symbol] :
       /\ rule[2] # {} /\ rule[2] \subseteq DOMAIN table.paths
       /\ \E sub \in Decode(table, rule[2]) : LastSymbol(sub) = symbol /\ sub.dn = rule[1]
       /\ \A sub \in Decode(table, rule[2]) :
            <<sub.dn, rule[2]>> \in Lookup(table.rules, LastSymbol(sub), {})

\* The rules a table was made of can be read back from it.
RulesOf(table) ==
  {Decode(table, rule[2]) : rule \in UNION {table.rules[A] : A \in DOMAIN table.rules}}
==============================================================================
