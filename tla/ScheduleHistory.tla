---------------------------- MODULE ScheduleHistory ----------------------------
(***************************************************************************)
(* The update schedule with the history of its batches, to say of run in   *)
(* generateRS.py and naive_genRS.py what its counters are for: when an     *)
(* update is due, in terms of what the batches covered.                    *)
(***************************************************************************)
EXTENDS UpdateSchedule, Sequences, FiniteSets

CONSTANT MaxBatches  \* bound: the batches after the first that are recorded;
                     \* the loop goes on after them

ASSUME HistoryAssumption == MaxBatches \in Nat /\ MaxBatches < MaxChance

VARIABLE batches     \* what each batch after the first covered and called for

Recorded == [news : BOOLEAN, update : BOOLEAN]

HistoryInit == Init /\ batches = <<>>

Record ==
  batches' = IF Len(batches) < MaxBatches
             THEN Append(batches, [news |-> cov' # cov, update |-> doUpdate'])
             ELSE batches

HistoryNext ==
  \/ FirstBatch /\ UNCHANGED batches
  \/ NewLine /\ Record
  \/ Barren /\ Record

HistorySpec == HistoryInit /\ [][HistoryNext]_<<vars, batches>>

\* The loop of run has no exit and no wait: it goes on until it is killed.
FairHistorySpec == HistorySpec /\ WF_<<vars, batches>>(HistoryNext)
-------------------------------------------------------------------------------
\* The batches up to the n-th since which nothing was covered or updated.
Streak(n) ==
  {i \in 1 .. n : \A j \in i .. n : ~ batches[j].news /\ ~ batches[j].update}

Updates(n) == {i \in 1 .. n : batches[i].update}

\* An update is due exactly when a batch completes a streak: after n updates,
\* n + 1 batches in a row that covered nothing new, none of them counted for an
\* update before.  No batch calls for one early, and none is passed over: the two
\* counters, which three branches set and reset, never lose count of the batches.
UpdatesOnTime ==
  \A i \in DOMAIN batches :
    batches[i].update <=>
      ~ batches[i].news /\ Cardinality(Streak(i - 1)) = Cardinality(Updates(i - 1))
===============================================================================
