------------------------ MODULE UpdateScheduleProofs ------------------------
(* What the update schedule guarantees, for every program and every bound.  *)
EXTENDS ScheduleHistory, FiniteSetTheorems, TLAPS

\* The counter of barren batches stays below the number that ends a streak,
\* which makes the code's test for equality as good as one for "reached".
IInv == TypeOK /\ ChanceBelowMax

LEMMA InitIInv == Init => IInv
<1> SUFFICES ASSUME Init PROVE IInv
  OBVIOUS
<1>1. started \in BOOLEAN /\ doUpdate \in BOOLEAN /\ cov \subseteq Lines
  BY DEF Init
<1>2. nChance \in Nat /\ maxNChance \in 1..MaxChance /\ nChance < maxNChance
  BY ChanceAssumption DEF ChanceAssumption, Init
<1> QED BY <1>1, <1>2 DEF IInv, TypeOK, ChanceBelowMax

LEMMA NextIInv == IInv /\ [Next]_vars => IInv'
<1> SUFFICES ASSUME IInv, [Next]_vars PROVE IInv'
  OBVIOUS
<1>1. started' \in BOOLEAN /\ doUpdate' \in BOOLEAN
  BY DEF IInv, TypeOK, Next, vars, FirstBatch, NewLine, Barren, BarrenWith
<1>2. cov' \subseteq Lines
  BY DEF IInv, TypeOK, Next, vars, FirstBatch, NewLine, Barren, BarrenWith
<1>3. nChance' \in Nat /\ maxNChance' \in 1..MaxChance /\ nChance' < maxNChance'
  <2> USE ChanceAssumption DEF ChanceAssumption, IInv, TypeOK, ChanceBelowMax
  <2>1. CASE FirstBatch
    BY <2>1 DEF FirstBatch
  <2>2. CASE NewLine
    <3>1. nChance' = 0 /\ maxNChance' = maxNChance
      BY <2>2 DEF NewLine
    <3> QED BY <3>1
  <2>3. CASE Barren
    <3>1. CASE nChance + 1 = maxNChance
      BY <2>3, <3>1 DEF Barren, BarrenWith, Longer
    <3>2. CASE nChance + 1 # maxNChance
      BY <2>3, <3>2 DEF Barren, BarrenWith, Longer
    <3> QED BY <3>1, <3>2
  <2>4. CASE UNCHANGED vars
    BY <2>4 DEF vars
  <2> QED BY <2>1, <2>2, <2>3, <2>4 DEF Next
<1> QED BY <1>1, <1>2, <1>3 DEF IInv, TypeOK, ChanceBelowMax

\* The schedule's variables keep their types.
THEOREM TypeCorrect == Spec => []TypeOK
<1>1. IInv => TypeOK
  BY DEF IInv
<1> QED BY <1>1, InitIInv, NextIInv, PTL DEF Spec

\* n_chance never reaches max_n_chance: no update is missed by stepping over
\* the equality that calls for it.
THEOREM NoStepOver == Spec => []ChanceBelowMax
<1>1. IInv => ChanceBelowMax
  BY DEF IInv
<1> QED BY <1>1, InitIInv, NextIInv, PTL DEF Spec
-----------------------------------------------------------------------------
(* When updates come, in terms of the batches.                              *)

\* Streak and Updates of any history.
StreakIn(h, n) == {i \in 1 .. n : \A j \in i .. n : ~ h[j].news /\ ~ h[j].update}
UpdatesIn(h, n) == {i \in 1 .. n : h[i].update}

\* They are finite, and there are at most as many updates as batches.
LEMMA SetsFinite ==
  ASSUME NEW h, NEW n \in Nat
  PROVE  /\ IsFiniteSet(StreakIn(h, n)) /\ Cardinality(StreakIn(h, n)) \in Nat
         /\ IsFiniteSet(UpdatesIn(h, n)) /\ Cardinality(UpdatesIn(h, n)) \in 0 .. n
<1>1. IsFiniteSet(1 .. n) /\ Cardinality(1 .. n) = n
  <2>1. 1 \in Int /\ n \in Int /\ ~ (1 > n /\ n # 0) /\ n - 1 + 1 = n
    OBVIOUS
  <2> QED BY <2>1, FS_Interval
<1>2. StreakIn(h, n) \subseteq 1 .. n /\ UpdatesIn(h, n) \subseteq 1 .. n
  BY DEF StreakIn, UpdatesIn
<1>3. IsFiniteSet(StreakIn(h, n))
  BY <1>1, <1>2, FS_Subset
<1>4. IsFiniteSet(UpdatesIn(h, n)) /\ Cardinality(UpdatesIn(h, n)) <= n
  BY <1>1, <1>2, FS_Subset
<1>5. Cardinality(StreakIn(h, n)) \in Nat /\ Cardinality(UpdatesIn(h, n)) \in Nat
  BY <1>3, <1>4, FS_CardinalityType
<1> QED BY <1>3, <1>4, <1>5

\* A batch more leaves those of the batches before it as they are.
LEMMA BeforeIsKept ==
  ASSUME NEW h \in Seq(Recorded), NEW r \in Recorded, NEW n \in 0 .. Len(h)
  PROVE  /\ StreakIn(Append(h, r), n) = StreakIn(h, n)
         /\ UpdatesIn(Append(h, r), n) = UpdatesIn(h, n)
<1>1. \A i \in 1 .. n : Append(h, r)[i] = h[i]
  OBVIOUS
<1>2. \A i \in 1 .. n : \A j \in i .. n : j \in 1 .. n
  OBVIOUS
<1> HIDE DEF Recorded
<1>3. StreakIn(Append(h, r), n) = StreakIn(h, n)
  BY <1>1, <1>2 DEF StreakIn
<1>4. UpdatesIn(Append(h, r), n) = UpdatesIn(h, n)
  BY <1>1 DEF UpdatesIn
<1> QED BY <1>3, <1>4

\* It may be an update itself.
LEMMA UpdatesMore ==
  ASSUME NEW h \in Seq(Recorded), NEW r \in Recorded
  PROVE  Cardinality(UpdatesIn(Append(h, r), Len(h) + 1)) =
           IF r.update THEN Cardinality(UpdatesIn(h, Len(h))) + 1
                       ELSE Cardinality(UpdatesIn(h, Len(h)))
<1> DEFINE n == Len(h)
           m == n + 1
           more == Append(h, r)
<1>1. n \in Nat /\ n \in 0 .. n /\ m \in 1 .. m /\ m \notin 1 .. n /\ more[m] = r
      /\ (\A i \in 1 .. m : i # m => i \in 1 .. n) /\ 1 .. n \subseteq 1 .. m
  OBVIOUS
<1>2. UpdatesIn(more, n) = UpdatesIn(h, n)
  BY <1>1, BeforeIsKept
<1>3. m \notin UpdatesIn(h, n) /\ IsFiniteSet(UpdatesIn(h, n))
  BY <1>1, SetsFinite DEF UpdatesIn
<1> HIDE DEF more, n, m
<1>4. CASE r.update
  <2>1. UpdatesIn(more, m) = UpdatesIn(h, n) \cup {m}
    BY <1>1, <1>2, <1>4 DEF UpdatesIn
  <2> QED BY <1>3, <1>4, <2>1, FS_AddElement DEF n, m, more
<1>5. CASE ~ r.update
  <2>1. UpdatesIn(more, m) = UpdatesIn(h, n)
    BY <1>1, <1>2, <1>5 DEF UpdatesIn
  <2> QED BY <1>5, <2>1 DEF n, m, more
<1> QED BY <1>4, <1>5

\* It ends the streak or makes it longer by one.
LEMMA OneMore ==
  ASSUME NEW h \in Seq(Recorded), NEW r \in Recorded
  PROVE  LET n == Len(h)
             more == Append(h, r)
         IN  Cardinality(StreakIn(more, n + 1)) =
               IF r.news \/ r.update THEN 0 ELSE Cardinality(StreakIn(h, n)) + 1
<1> DEFINE n == Len(h)
           m == n + 1
           more == Append(h, r)
<1>1. n \in Nat /\ n \in 0 .. n /\ m \in 1 .. m /\ m \notin 1 .. n /\ more[m] = r
      /\ (\A i \in 1 .. m : i # m => i \in 1 .. n) /\ 1 .. n \subseteq 1 .. m
  OBVIOUS
<1>2. StreakIn(more, n) = StreakIn(h, n)
  BY <1>1, BeforeIsKept
<1>3. \A i \in 1 .. m : \A j \in i .. m : j = m \/ j \in i .. n
  BY <1>1
<1>4. \A i \in 1 .. m : m \in i .. m
  BY <1>1
<1>5. \A i \in 1 .. n : i .. n \subseteq i .. m
  BY <1>1
<1>6. m .. m = {m}
  BY <1>1
<1> HIDE DEF more, n, m
<1>7. CASE r.news \/ r.update
  <2>1. StreakIn(more, m) = {}
    BY <1>1, <1>4, <1>7 DEF StreakIn
  <2>2. Cardinality(StreakIn(more, m)) = 0
    BY <2>1, FS_EmptySet
  <2> QED BY <1>7, <2>2 DEF n, m, more
<1>8. CASE ~ (r.news \/ r.update)
  <2>1. StreakIn(more, m) = StreakIn(h, n) \cup {m}
    <3>1. \A i \in StreakIn(more, m) : i = m \/ i \in StreakIn(more, n)
      BY <1>1, <1>5 DEF StreakIn
    <3>2. \A i \in StreakIn(more, n) : i \in StreakIn(more, m)
      BY <1>1, <1>3, <1>8 DEF StreakIn
    <3>3. m \in StreakIn(more, m)
      BY <1>1, <1>6, <1>8 DEF StreakIn
    <3> QED BY <1>2, <3>1, <3>2, <3>3
  <2>2. m \notin StreakIn(h, n) /\ IsFiniteSet(StreakIn(h, n))
    BY <1>1, SetsFinite DEF StreakIn
  <2>3. Cardinality(StreakIn(more, m)) = Cardinality(StreakIn(h, n)) + 1
    BY <2>1, <2>2, FS_AddElement
  <2> QED BY <1>8, <2>3 DEF n, m, more
<1> QED BY <1>7, <1>8

\* UpdatesOnTime of any history.
DueIn(h, i) == Cardinality(StreakIn(h, i - 1)) = Cardinality(UpdatesIn(h, i - 1))
OnTime(h) == \A i \in DOMAIN h : h[i].update <=> ~ h[i].news /\ DueIn(h, i)

LEMMA OnTimeIs == UpdatesOnTime <=> OnTime(batches)
BY DEF UpdatesOnTime, OnTime, DueIn, StreakIn, UpdatesIn, Streak, Updates

\* One more batch is on time if its record says what was due.
LEMMA OnTimeMore ==
  ASSUME NEW h \in Seq(Recorded), NEW r \in Recorded, OnTime(h),
         r.update <=> /\ ~ r.news
                      /\ Cardinality(StreakIn(h, Len(h))) = Cardinality(UpdatesIn(h, Len(h)))
  PROVE  OnTime(Append(h, r))
<1> DEFINE n == Len(h)
           more == Append(h, r)
<1>1. n \in Nat /\ DOMAIN h = 1 .. n /\ DOMAIN more = 1 .. n + 1 /\ more[n + 1] = r
      /\ \A i \in 1 .. n : more[i] = h[i]
  OBVIOUS
<1>2. \A i \in 1 .. n + 1 : i - 1 \in 0 .. n /\ (i \in 1 .. n \/ i = n + 1)
  BY <1>1
<1>3. ASSUME NEW i \in 1 .. n + 1 PROVE DueIn(more, i) <=> DueIn(h, i)
  BY <1>2, BeforeIsKept DEF DueIn
<1>4. (n + 1) - 1 = n
  BY <1>1
<1> HIDE DEF more, n
<1>5. DueIn(h, n + 1) <=> Cardinality(StreakIn(h, n)) = Cardinality(UpdatesIn(h, n))
  BY <1>4 DEF DueIn
<1>6. ASSUME NEW i \in 1 .. n + 1 PROVE more[i].update <=> ~ more[i].news /\ DueIn(more, i)
  <2>1. CASE i \in 1 .. n
    BY <1>1, <1>3, <2>1 DEF OnTime
  <2>2. CASE i = n + 1
    BY <1>1, <1>3, <1>5, <2>2 DEF n
  <2> QED BY <1>2, <2>1, <2>2
<1>7. OnTime(more)
  BY <1>1, <1>6 DEF OnTime
<1> QED BY <1>7 DEF more

\* The counters say what the history says, while it is recorded.
CountersTell ==
  /\ nChance = Cardinality(StreakIn(batches, Len(batches)))
  /\ maxNChance = Cardinality(UpdatesIn(batches, Len(batches))) + 1

HistoryInv ==
  /\ IInv
  /\ batches \in Seq(Recorded)
  /\ Len(batches) < MaxBatches => CountersTell
  /\ OnTime(batches)

LEMMA InitHistory == HistoryInit => HistoryInv
<1> SUFFICES ASSUME HistoryInit PROVE HistoryInv
  OBVIOUS
<1>1. IInv
  BY InitIInv DEF HistoryInit
<1>2. batches = <<>> /\ nChance = 0 /\ maxNChance = 1
  BY DEF HistoryInit, Init
<1>3. batches \in Seq(Recorded) /\ Len(batches) = 0 /\ DOMAIN batches = {}
  BY <1>2
<1>4. StreakIn(batches, 0) = {} /\ UpdatesIn(batches, 0) = {}
  BY DEF StreakIn, UpdatesIn
<1>5. CountersTell
  BY <1>2, <1>3, <1>4, FS_EmptySet DEF CountersTell
<1>6. OnTime(batches)
  BY <1>3 DEF OnTime
<1> QED BY <1>1, <1>3, <1>5, <1>6 DEF HistoryInv

\* A batch that is recorded keeps it.
LEMMA RecordHistory ==
  ASSUME HistoryInv, NewLine \/ Barren, Record, Len(batches) < MaxBatches
  PROVE  HistoryInv'
<1> DEFINE n == Len(batches)
           r == [news |-> cov' # cov, update |-> doUpdate']
           s == Cardinality(StreakIn(batches, n))
           u == Cardinality(UpdatesIn(batches, n))
<1>1. IInv'
  BY NextIInv DEF HistoryInv, Next
<1>2. n \in Nat /\ n < MaxBatches /\ batches' = Append(batches, r) /\ batches \in Seq(Recorded)
  BY DEF HistoryInv, Record
<1>3. r \in Recorded /\ r.news = (cov' # cov) /\ r.update = doUpdate'
  <2>1. doUpdate' \in BOOLEAN
    BY <1>1 DEF IInv, TypeOK
  <2> QED BY <2>1 DEF Recorded
<1> HIDE DEF r
<1>4. batches' \in Seq(Recorded) /\ Len(batches') = n + 1
  BY <1>2, <1>3
<1>5. /\ Cardinality(StreakIn(batches', n + 1)) = IF r.news \/ r.update THEN 0 ELSE s + 1
      /\ Cardinality(UpdatesIn(batches', n + 1)) = IF r.update THEN u + 1 ELSE u
  BY <1>2, <1>3, OneMore, UpdatesMore
<1>6. nChance = s /\ maxNChance = u + 1 /\ s \in Nat /\ u \in 0 .. n
  BY <1>2, SetsFinite DEF HistoryInv, CountersTell
<1>7. maxNChance < MaxChance
  <2>1. MaxBatches \in Nat /\ MaxBatches < MaxChance /\ MaxChance \in Nat
    BY HistoryAssumption, ChanceAssumption DEF HistoryAssumption, ChanceAssumption
  <2> HIDE DEF n, u
  <2> QED BY <1>2, <1>6, <2>1
<1> HIDE DEF n, s, u
<1>8. /\ nChance' = IF r.news \/ r.update THEN 0 ELSE s + 1
      /\ maxNChance' = IF r.update THEN u + 2 ELSE u + 1
      /\ r.update <=> ~ r.news /\ s = u
  <2>1. CASE NewLine
    <3>1. cov' # cov /\ doUpdate' = FALSE /\ nChance' = 0 /\ maxNChance' = maxNChance
      BY <2>1 DEF NewLine
    <3> QED BY <1>3, <1>6, <3>1
  <2>2. CASE Barren
    <3>1. cov' = cov
      BY <2>2 DEF Barren, BarrenWith
    <3>2. CASE nChance + 1 = maxNChance
      <4>1. doUpdate' = TRUE /\ nChance' = 0 /\ maxNChance' = maxNChance + 1
        BY <1>7, <2>2, <3>2 DEF Barren, BarrenWith, Longer
      <4>2. s = u /\ maxNChance + 1 = u + 2
        BY <1>6, <3>2
      <4> QED BY <1>3, <3>1, <4>1, <4>2
    <3>3. CASE nChance + 1 # maxNChance
      <4>1. doUpdate' = FALSE /\ nChance' = nChance + 1 /\ maxNChance' = maxNChance
        BY <2>2, <3>3 DEF Barren, BarrenWith
      <4>2. s # u
        BY <1>6, <3>3
      <4> QED BY <1>3, <1>6, <3>1, <4>1, <4>2
    <3> QED BY <3>2, <3>3
  <2> QED BY <2>1, <2>2
<1>9. OnTime(batches')
  BY <1>2, <1>3, <1>8, OnTimeMore DEF HistoryInv, n, s, u
<1>10. CountersTell'
  <2>1. u \in Nat
    BY <1>2, <1>6
  <2> QED BY <1>4, <1>5, <1>8, <2>1 DEF CountersTell
<1> QED BY <1>1, <1>4, <1>9, <1>10 DEF HistoryInv

\* So does every step.
LEMMA NextHistory == HistoryInv /\ [HistoryNext]_<<vars, batches>> => HistoryInv'
<1> SUFFICES ASSUME HistoryInv, [HistoryNext]_<<vars, batches>> PROVE HistoryInv'
  OBVIOUS
<1>1. ASSUME UNCHANGED <<nChance, maxNChance, batches>>, IInv' PROVE HistoryInv'
  BY <1>1 DEF HistoryInv, CountersTell
<1>2. CASE FirstBatch /\ UNCHANGED batches
  BY <1>1, <1>2, NextIInv DEF HistoryInv, Next, FirstBatch
<1>3. CASE (NewLine \/ Barren) /\ Record
  <2>1. CASE Len(batches) < MaxBatches
    BY <1>3, <2>1, RecordHistory
  <2>2. CASE ~ (Len(batches) < MaxBatches)
    <3>1. batches' = batches
      BY <1>3, <2>2 DEF Record
    <3> QED BY <1>3, <2>2, <3>1, NextIInv DEF HistoryInv, Next
  <2> QED BY <2>1, <2>2
<1>4. CASE UNCHANGED <<vars, batches>>
  BY <1>1, <1>4, NextIInv DEF HistoryInv, vars
<1> QED BY <1>2, <1>3, <1>4 DEF HistoryNext

\* Theorem: an update of the rules is due exactly when a batch completes the streak
\* of barren batches that is asked for (run of generateRS.py and naive_genRS.py),
\* as long as the streaks do not reach the bound.
THEOREM UpdatesAlwaysOnTime == HistorySpec => []UpdatesOnTime
<1>1. HistoryInv => UpdatesOnTime
  BY OnTimeIs DEF HistoryInv
<1> QED BY <1>1, InitHistory, NextHistory, PTL DEF HistorySpec
=============================================================================
