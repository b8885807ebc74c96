---------------------------- MODULE UpdateSchedule ----------------------------
(***************************************************************************)
(* When the capture phase re-analyses its clusters, abstracted from run in *)
(* generateRS.py and naive_genRS.py to the coverage reached and the three  *)
(* variables of the schedule.  A batch of inputs either covers a new line  *)
(* or is barren; max_n_chance barren batches in a row, a number that grows *)
(* by one each time, call for an update before the next batch.             *)
(***************************************************************************)
EXTENDS Naturals

CONSTANTS
  Lines,       \* the lines of the program under test
  MaxChance    \* bound: max_n_chance does not grow past it

ASSUME ChanceAssumption == MaxChance \in Nat \ {0}

VARIABLES
  started,     \* whether the first batch was measured
  cov,         \* the lines covered so far
  nChance, maxNChance, doUpdate

vars == <<started, cov, nChance, maxNChance, doUpdate>>

Init ==
  /\ started = FALSE
  /\ cov = {}
  /\ nChance = 0
  /\ maxNChance = 1
  /\ doUpdate = TRUE

\* The first batch: whatever it covers is what later ones are compared with.
FirstBatch ==
  /\ ~ started /\ started' = TRUE
  /\ cov' \in SUBSET Lines
  /\ UNCHANGED <<nChance, maxNChance, doUpdate>>

\* Mutant: a streak goes on past a batch with new lines.
NewLineKeepsStreak ==
  /\ started
  /\ \E new \in SUBSET (Lines \ cov) : new # {} /\ cov' = cov \cup new
  /\ doUpdate' = FALSE
  /\ UNCHANGED <<started, nChance, maxNChance>>

\* A batch that covers lines that no batch before it covered.
NewLine ==
  /\ started
  /\ \E new \in SUBSET (Lines \ cov) : new # {} /\ cov' = cov \cup new
  /\ nChance' = 0
  /\ doUpdate' = FALSE
  /\ UNCHANGED <<started, maxNChance>>

BarrenWith(counted, atEnd, longer) ==
  /\ started
  /\ IF nChance + 1 = maxNChance
     THEN /\ doUpdate' = TRUE
          /\ nChance' = atEnd
          /\ maxNChance' = longer
     ELSE /\ doUpdate' = FALSE
          /\ nChance' = counted
          /\ UNCHANGED maxNChance
  /\ UNCHANGED <<started, cov>>

Longer == IF maxNChance < MaxChance THEN maxNChance + 1 ELSE maxNChance

\* Mutants: the counter is not reset at the end of a streak, and it is reset by
\* every barren batch.
BarrenNoReset   == BarrenWith(nChance + 1, nChance + 1, Longer)
BarrenForgetful == BarrenWith(0, 0, Longer)

\* A batch that covers nothing new (no_newline).  The streak that is asked for
\* next is longer by one, up to the bound.
Barren == BarrenWith(nChance + 1, 0, Longer)

Next == FirstBatch \/ NewLine \/ Barren

Spec == Init /\ [][Next]_vars
-------------------------------------------------------------------------------
(* Properties.                                                             *)

TypeOK ==
  /\ started \in BOOLEAN
  /\ cov \subseteq Lines
  /\ nChance \in Nat
  /\ maxNChance \in 1..MaxChance
  /\ doUpdate \in BOOLEAN

\* The test n_chance == max_n_chance is an equality: were n_chance ever to
\* pass max_n_chance, no later batch would call for an update.
ChanceBelowMax == nChance < maxNChance

\* New rules keep being captured: there are finitely many lines to cover, so
\* barren streaks of every length come.
UpdatesRecur == []<>doUpdate
===============================================================================
