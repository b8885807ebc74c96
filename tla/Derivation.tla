------------------------------ MODULE Derivation ------------------------------
(***************************************************************************)
(* What any input generator of the repository promises, whatever order it  *)
(* expands in and whatever it prunes: it derives sentences of the grammar. *)
(* The state is the sentential form and the number of sentences produced;  *)
(* a step rewrites one nonterminal by one of its expansions, or produces   *)
(* the form once no nonterminal is left and starts again.                  *)
(***************************************************************************)
EXTENDS Naturals, Sequences
LOCAL INSTANCE Functions

CONSTANTS Nonterminals, StartRule, Grammar, Num

VARIABLES form, produced

Init == form = <<StartRule>> /\ produced = 0

Rewrites(f) ==
  UNION {{SubSeq(f, 1, k - 1) \o alt.exp \o SubSeq(f, k + 1, Len(f)) :
            alt \in Range(Grammar[f[k]])} :
         k \in {k \in DOMAIN f : f[k] \in Nonterminals}}

Rewrite == form' \in Rewrites(form) /\ UNCHANGED produced

Produce ==
  /\ \A k \in DOMAIN form : form[k] \notin Nonterminals
  /\ produced < Num
  /\ produced' = produced + 1
  /\ form' = <<StartRule>>

Spec == Init /\ [][Rewrite \/ Produce]_<<form, produced>>
===============================================================================
