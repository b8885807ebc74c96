----------------------------- MODULE SubSequences -----------------------------
(***************************************************************************)
(* From derivation trees to rules: the pure functions of generateRS.py     *)
(* that read the sub-sequences off a tree (dt_to_sequences), shorten and   *)
(* compare them (simplify_subpaths, compare_subpaths), and thin out a list *)
(* of rules (remove_included_seqs, merge_rules).                           *)
(*                                                                         *)
(* A sub-sequence is the code's tuple (path..., dn) as SubSequence(path,   *)
(* dn) of RuleTable, so the code's seq[-2:] is Ending and seq[:-2] Before. *)
(* Lists of sub-sequences and of rules are sets.  Where the code sorts one *)
(* by length, which leaves the order among equals to hashes, and the       *)
(* result depends on it, an operator takes the sorted list, one of Orders. *)
(***************************************************************************)
EXTENDS Integers, Sequences, FiniteSets, RuleTable

Ending(s) == <<LastSymbol(s), s.dn>>
Before(s) == Front(s.path)
-------------------------------------------------------------------------------
(* dt_to_sequences                                                         *)

\* The nodes from the root to node i of level d, by parent pointers.
Lineage(t, d, i) ==
  LET at[k \in 1..d] == IF k = d THEN <<d, i>> ELSE t[at[k+1][1]][at[k+1][2]].parent
  IN  [k \in 1..d |-> t[at[k][1]][at[k][2]]]

\* Mutant: the derivation number is the one next to the token.
LeafSequenceUnclimbed(t, d, i, oneChildSymbols) ==
  LET up   == Front(Lineage(t, d, i))
      last == Max({1} \cup {k \in DOMAIN up : up[k].symbol \notin oneChildSymbols})
  IN  SubSequence([k \in 1..last |-> up[k].symbol], up[Len(up)].dn)

\* The path to the nearest ancestor of a token that had a choice, and the
\* derivation number of that choice.
LeafSequence(t, d, i, oneChildSymbols) ==
  LET up   == Front(Lineage(t, d, i))
      last == Max({1} \cup {k \in DOMAIN up : up[k].symbol \notin oneChildSymbols})
  IN  SubSequence([k \in 1..last |-> up[k].symbol], up[last].dn)

\* The next stride symbols of path are the last ones that were kept.
RepeatsAt(path, stride, kept, i) ==
  /\ i + stride - 1 <= Len(path)
  /\ SubSeq(path, i, i + stride - 1) = SubSeq(kept, Len(kept) - stride + 1, Len(kept))

\* tmp_idx moves over a repeated block at once, and else keeps one symbol.
WithoutRepeats(path, stride) ==
  FoldLeftDomain(
    LAMBDA st, i :
      IF i < st.tmpIdx THEN st
      ELSE IF RepeatsAt(path, stride, st.kept, i) THEN [st EXCEPT !.tmpIdx = i + stride]
      ELSE [kept |-> Append(st.kept, path[i]), tmpIdx |-> i + 1],
    [kept |-> SubSeq(path, 1, stride), tmpIdx |-> stride + 1], path).kept

\* A block of symbols that follows itself is dropped, shorter blocks first.
\* (The tuple is one longer than its path, and dn never belongs to a block.)
RefinedPath(path) ==
  FoldLeftDomain(LAMBDA refined, stride : IF 2 * stride >= Len(refined) + 1 THEN refined
                                          ELSE WithoutRepeats(refined, stride),
                 path, path)

Refined(s) == SubSequence(RefinedPath(s.path), s.dn)

DtToSequences(t, oneChildSymbols) ==
  {Refined(LeafSequence(t, p[1], p[2], oneChildSymbols)) :
     p \in {q \in UNION {{<<d, i>> : i \in DOMAIN t[d]} : d \in DOMAIN t} :
              t[q[1]][q[2]].dn = -1}}
-------------------------------------------------------------------------------
(* simplify_subpaths                                                       *)

\* compare_subpaths: each symbol of short is looked for from idx on, and idx
\* is then set to its first place in long, which may lie further back.
CompareSubpaths(long, short) ==
  \/ long = short
  \/ /\ Ending(long) = Ending(short)
     /\ FoldLeft(LAMBDA idx, x :
                   IF \E k \in DOMAIN Before(long) : k >= idx /\ Before(long)[k] = x
                   THEN Min({k \in DOMAIN long.path : long.path[k] = x})
                   ELSE Len(long.path) + 1,
                 1, Before(short)) <= Len(long.path)

\* Sorted by a size, in every order among equals.
Orders(S, size) ==
  LET Into(o, x) == {InsertAt(o, k, x) : k \in
                       {i \in 1 .. Len(o) + 1 :
                          /\ \A j \in 1 .. i - 1 : size[o[j]] <= size[x]
                          /\ \A j \in i .. Len(o) : size[x] <= size[o[j]]}}
  IN  FoldLeft(LAMBDA orders, x : UNION {Into(o, x) : o \in orders}, {<<>>}, SetToSeq(S))

ByLength(subpaths) == Orders(subpaths, [s \in subpaths |-> Len(s.path)])
BySize(rules)      == Orders(rules, [r \in rules |-> Cardinality(r)])

\* Each one that is kept takes those after it off the list that compare with it.
RemainingSeqs(sorted) ==
  FoldLeft(LAMBDA kept, l : IF \E s \in kept : CompareSubpaths(l, s)
                            THEN kept ELSE kept \cup {l},
           {}, sorted)
-------------------------------------------------------------------------------
(* remove_included_seqs                                                    *)

\* Mutant: what the sub-sequences end with is not compared.
IncludingSequenceAnyEnd(seq1, seq2) == Len(seq1.path) <= Len(seq2.path)

\* including_sequence: the cursor moves to the next occurrence of a token, or
\* to the end of seq2's front if there is none.
IncludingSequence(seq1, seq2) ==
  LET end == Len(Before(seq2)) + 1
      Find(cur, x) == Min({end} \cup {k \in DOMAIN Before(seq2) :
                                        k >= cur /\ Before(seq2)[k] = x})
  IN  /\ Len(seq1.path) <= Len(seq2.path)
      /\ Ending(seq1) = Ending(seq2)
      /\ FoldLeft(LAMBDA st, x : [ok |-> st.ok /\ st.cur <= end, cur |-> Find(st.cur, x)],
                  [ok |-> TRUE, cur |-> 1], Before(seq1)).ok

IncludingSeqs(seqs1, seqs2) ==
  \A seq1 \in seqs1 \ seqs2 : \E seq2 \in seqs2 : IncludingSequence(seq1, seq2)

RemoveIncludedSeqs(sorted) ==
  FoldLeft(LAMBDA kept, l : IF \E r \in kept : IncludingSeqs(r, l)
                            THEN kept ELSE kept \cup {l},
           {}, sorted)
-------------------------------------------------------------------------------
(* merge_rules                                                             *)

Intersections(rules) ==
  {p[1] \cap p[2] : p \in
     {q \in rules \X rules : /\ Cardinality(q[1]) = Cardinality(q[2])
                             /\ Cardinality(q[1] \cap q[2]) + 1 = Cardinality(q[1])}}

\* subpaths_to_merge: what a rule has besides the intersection, if it is one.
ToMerge(rules, inter) ==
  {p \in UNION {{<<r, s>> : s \in r \ inter} : r \in rules} :
     Cardinality(p[1] \ inter) = 1}

\* The entries that differ from one in at most the derivation number.
Similar(candidates, p) ==
  {p} \cup {q \in candidates : q[2].path = p[2].path /\ q[2].dn # p[2].dn}

\* The similar ones exhaust the expansions of the last symbol.
Exhausts(grammar, candidates, p) ==
  Cardinality({q[2] : q \in Similar(candidates, p)}) = Len(grammar[LastSymbol(p[2])])

\* Mutant: all expansions of the parent, with the symbol in them or not.
ParentsAny(grammar, s) ==
  LET path == Before(s)
  IN  {SubSequence(path, alt.dn) : alt \in Range(grammar[path[Len(path)]])}

\* The sub-sequences that stand for all of them: the parent's expansions that
\* have the symbol.
Parents(grammar, s) ==
  LET path == Before(s)
  IN  {SubSequence(path, alt.dn) : alt \in
         {a \in Range(grammar[path[Len(path)]]) : LastSymbol(s) \in Range(a.exp)}}

Merging(grammar, rules) ==
  {m \in [inter : Intersections(rules), entry : UNION {ToMerge(rules, i) :
                                                        i \in Intersections(rules)}] :
     /\ m.entry \in ToMerge(rules, m.inter)
     /\ Exhausts(grammar, ToMerge(rules, m.inter), m.entry)}

\* The root has no parent: the code reads past the start of the tuple.
MergeFails(grammar, rules) ==
  \E m \in Merging(grammar, rules) : Len(m.entry[2].path) = 1

MergeRules(grammar, rules) ==
  LET mergings == Merging(grammar, rules)
      merged   == UNION {{q[1] : q \in Similar(ToMerge(rules, m.inter), m.entry)} :
                         m \in mergings}
  IN  (rules \ merged) \cup
      UNION {{m.inter \cup {s} : s \in Parents(grammar, m.entry[2])} : m \in mergings}
===============================================================================
