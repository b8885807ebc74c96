---------------------------- MODULE ExtractedTrees ----------------------------
(***************************************************************************)
(* From the generator to the capture phase: what dt_to_sequences will read *)
(* off a tree that rsfuzzGenerator.py has finished, next to what the       *)
(* generator found in it while it grew.                                    *)
(***************************************************************************)
EXTENDS InputGenerator, SubSequences

OneChildSymbols == {A \in Nonterminals : Len(Grammar[A]) = 1}

\* Once a tree is complete, the generator finds in it each sub-sequence that
\* dt_to_sequences will read off it: the rules speak of what pruning sees,
\* although one walks down from the root, drops symbols without alternatives
\* and repeated blocks, and the other matches paths upwards.
SequencesFound ==
  phase = "minimum" /\ node = 0 /\ ~ AnyOpen(Level) =>
    \A s \in DtToSequences(tree, OneChildSymbols) : TreeContains(Key(s))
===============================================================================
