----------------------------- MODULE CaptureLoop -----------------------------
(***************************************************************************)
(* The capture phase: run, create_csv and update_recurrent_sequences of    *)
(* generateRS.py, and of its variants in naive_genRS.py.  Batches of       *)
(* inputs are generated and run; when an update is due, the inputs of the  *)
(* last batch are clustered by the coverage of their programs' runs, and   *)
(* clusters are selected whose common sub-sequences become rules.          *)
(*                                                                         *)
(* A tree stands for an input and its derivation tree, SeqsOf[tree] for    *)
(* the hash of its sequence list, and a coverage vector for the set of its *)
(* covered lines.  Keys are handed out in the order of discovery, from 0   *)
(* in the code and from 1 here, so a dictionary from hashes to keys is the *)
(* sequence of hashes, and a dictionary from keys is a sequence.  Captured *)
(* rules are abstracted to the sequence lists they were computed from.     *)
(***************************************************************************)
EXTENDS Integers, FiniteSets, SequencesExt

CONSTANTS
  Trees,       \* the inputs the generator may produce
  SeqsOf,      \* tree -> dt_to_sequences(tree)
  Lines,       \* the lines of the program under test
  Coverage,    \* tree -> the lines its run covers
  Slow,        \* trees whose run may exceed the timeout
  Crashing,    \* trees whose run ends in an exception or a signal
  Shifted,     \* error files are named as get_dir_coverage_javaprog_1 does
  NoVector,    \* an empty coverage vector, of a run without a report
  BatchSize,   \* number_individuals
  MaxIter,     \* bound: the last value of info_num explored
  Versions     \* "rsfuzz" for generateRS, else options.naive_version

ASSUME CaptureAssumption ==
  /\ Coverage \in [Trees -> (SUBSET Lines) \ {{}}]
  /\ DOMAIN SeqsOf = Trees
  /\ Slow \subseteq Trees /\ Crashing \subseteq Trees
  /\ Shifted \in BOOLEAN
  /\ \A v \in SUBSET Lines : v # NoVector
  /\ Lines # {}
  /\ BatchSize \in Nat \ {0} /\ MaxIter \in Nat \ {0}
  /\ Versions \subseteq {"rsfuzz", "naive", "select", "capture"}

VARIABLES
  version, pc,
  testcases,     \* the inputs in testcase_dir, a batch
  input,         \* create_csv: the input to analyse next
  dtIdx,         \* dt_idx_dict: the trees met so far, in the order of their keys
  seqsIdx,       \* seqs_idx_dict
  covIdx,        \* cov_idx_dict
  uniqueSeqs,    \* unique_seqs: tree key -> sequences key
  uniqueDt,      \* unique_dt: sequences key -> coverage key
  clusters,      \* total_clusters: coverage key -> (sequences key -> count)
  updatedCovs,   \* updated_covs: the clusters the batch has hit
  capturedCovs,  \* captured_covs
  rules,         \* recurrent_sequences: coverage key -> what was captured from
  parameters,    \* parameter_dict: coverage key -> the n_used_clusters so far
  prevCaptured,  \* prev_captured_*.pickle: coverage key -> n_used_clusters
  nChance, maxNChance, doUpdate,
  beforeCov,     \* before_cov_vec
  infoNum,       \* info_num
  covFiles,      \* coverage/*_cov.pickle, in the order written
  totalFile,     \* total_coverage.pickle, NoVector while it does not exist
  errors         \* error/: <<info_num, i>> -> tree

indexVars    == <<dtIdx, seqsIdx, covIdx, uniqueSeqs, uniqueDt, clusters>>
captureVars  == <<capturedCovs, rules, parameters, prevCaptured>>
scheduleVars == <<nChance, maxNChance, doUpdate, beforeCov, covFiles, totalFile>>

vars == <<version, pc, testcases, input, indexVars, updatedCovs, captureVars,
          scheduleVars, infoNum, errors>>

Batches == [1..BatchSize -> Trees]

\* The key of a hash in a dictionary of hashes, and the dictionary with it.
KeyOf(hashes, h) ==
  IF \E k \in DOMAIN hashes : hashes[k] = h
  THEN CHOOSE k \in DOMAIN hashes : hashes[k] = h
  ELSE Len(hashes) + 1

Indexed(hashes, h) ==
  IF KeyOf(hashes, h) \in DOMAIN hashes THEN hashes ELSE Append(hashes, h)

Put(f, x, v) == [y \in DOMAIN f \cup {x} |-> IF y = x THEN v ELSE f[y]]

Size(c) == SumFunction(clusters[c])
-------------------------------------------------------------------------------
(* Running a batch: test_input_files.                                      *)

\* The vectors a batch may be measured with: runs that time out leave no
\* trace, and the report of the whole batch may be missing.
Measured(batch) ==
  {UNION {Coverage[batch[j]] : j \in DOMAIN batch \ late} :
     late \in SUBSET {j \in DOMAIN batch : batch[j] \in Slow}} \cup {NoVector}

\* Mutant: the index is left out of the name.
ErrorNameAlone(j) == 1

\* The error files a batch leaves.  get_dir_coverage_javaprog_1 names the
\* first input's files by 0 and those of every later input by the index
\* before its own; the other handlers use the input's own index.
ErrorName(j) == IF Shifted /\ j > 1 THEN j - 1 ELSE j

\* A later input overwrites the files of an earlier one of its name.
SaveErrors(batch) ==
  LET named(k) == {j \in DOMAIN batch : batch[j] \in Crashing /\ ErrorName(j) = k}
      saved == {<<infoNum, k>> : k \in {k \in 1..BatchSize : named(k) # {}}}
  IN  [name \in DOMAIN errors \cup saved |->
         IF name \in saved THEN batch[Max(named(name[2]))] ELSE errors[name]]
-------------------------------------------------------------------------------
Init ==
  /\ version \in Versions
  /\ pc = "start" /\ testcases = <<>> /\ input = 0
  /\ dtIdx = <<>> /\ seqsIdx = <<>> /\ covIdx = <<>>
  /\ uniqueSeqs = <<>> /\ uniqueDt = <<>> /\ clusters = <<>>
  /\ updatedCovs = {} /\ capturedCovs = {}
  /\ rules = <<>> /\ parameters = <<>> /\ prevCaptured = <<>>
  /\ nChance = 0 /\ maxNChance = 1 /\ doUpdate = TRUE
  /\ beforeCov = NoVector /\ infoNum = 0
  /\ covFiles = <<>> /\ totalFile = NoVector /\ errors = <<>>

\* Iteration 0, unguided.  An empty vector is an array, with which the program
\* goes on, or, where names are not shifted, may be a list, which has no sum and
\* ends it.
FirstBatch ==
  /\ pc = "start"
  /\ \E batch \in Batches : \E new \in Measured(batch) :
       /\ testcases' = batch
       /\ beforeCov' = new
       /\ covFiles' = <<new>>
       /\ errors' = SaveErrors(batch)
       /\ \/ pc' = "head"
          \/ new = NoVector /\ ~ Shifted /\ pc' = "crashed"
  /\ infoNum' = 1
  /\ UNCHANGED <<version, input, indexVars, updatedCovs, captureVars, nChance,
                 maxNChance, doUpdate, totalFile>>

\* The head of the loop: analyse the batch in testcase_dir, or drop it.
DecideUpdate ==
  /\ pc = "head"
  /\ IF doUpdate THEN pc' = "analyse" /\ input' = 1 /\ updatedCovs' = {}
                 ELSE pc' = "generate" /\ UNCHANGED <<input, updatedCovs>>
  /\ UNCHANGED <<version, testcases, indexVars, captureVars, scheduleVars,
                 infoNum, errors>>

Count(c, s) == clusters' = [clusters EXCEPT ![c][s] = @ + 1]

Hit(c) ==
  /\ updatedCovs' = updatedCovs \cup {c}
  /\ input' = input + 1
  /\ UNCHANGED <<version, pc, testcases, captureVars, scheduleVars, infoNum>>

\* create_csv, an input whose tree was met before.
AnalyseKnownTree ==
  /\ pc = "analyse" /\ input <= BatchSize
  /\ LET t == testcases[input] IN
       /\ t \in Range(dtIdx)
       /\ LET s == uniqueSeqs[KeyOf(dtIdx, t)]
              c == uniqueDt[s]
          IN  Count(c, s) /\ Hit(c)
  /\ UNCHANGED <<dtIdx, seqsIdx, covIdx, uniqueSeqs, uniqueDt, errors>>

\* create_csv, a new tree whose sequence list was met before: it is counted
\* in the cluster of that list, without being run.
AnalyseKnownSequences ==
  /\ pc = "analyse" /\ input <= BatchSize
  /\ LET t == testcases[input]
         s == KeyOf(seqsIdx, SeqsOf[t])
     IN  /\ t \notin Range(dtIdx)
         /\ s \in DOMAIN uniqueDt
         /\ dtIdx' = Append(dtIdx, t)
         /\ uniqueSeqs' = Append(uniqueSeqs, s)
         /\ Count(uniqueDt[s], s) /\ Hit(uniqueDt[s])
  /\ UNCHANGED <<seqsIdx, covIdx, uniqueDt, errors>>

\* create_csv, a new sequence list: its input is run.  A run that times out
\* has no vector: the input is saved as an error under the number of the
\* iteration to come, and it counts as covering nothing, for good.
AnalyseNew ==
  /\ pc = "analyse" /\ input <= BatchSize
  /\ LET t == testcases[input]
         s == KeyOf(seqsIdx, SeqsOf[t])
     IN  /\ t \notin Range(dtIdx)
         /\ s \notin DOMAIN uniqueDt
         /\ \E late \in IF t \in Slow THEN BOOLEAN ELSE {FALSE} :
              LET cov == IF late THEN {} ELSE Coverage[t]
                  c   == KeyOf(covIdx, cov)
                  old == IF c \in DOMAIN clusters THEN clusters[c] ELSE <<>>
              IN  /\ errors' = IF late THEN Put(errors, <<infoNum, input>>, t)
                                       ELSE errors
                  /\ covIdx' = Indexed(covIdx, cov)
                  /\ clusters' = Put(clusters, c, Put(old, s, 1))
                  /\ uniqueDt' = Append(uniqueDt, c)
                  /\ Hit(c)
         /\ dtIdx' = Append(dtIdx, t)
         /\ seqsIdx' = Append(seqsIdx, SeqsOf[t])
         /\ uniqueSeqs' = Append(uniqueSeqs, s)
-------------------------------------------------------------------------------
(* update_recurrent_sequences.                                             *)

Uncaptured == DOMAIN clusters \ capturedCovs

\* Mutant: the smallest clusters come first.
RankingsAscending ==
  {r \in SetToSeqs(Uncaptured) :
     \A j, k \in DOMAIN r : j < k => Size(r[j]) <= Size(r[k])}

\* The uncaptured clusters by decreasing size, ties in any order.
Rankings ==
  {r \in SetToSeqs(Uncaptured) :
     \A j, k \in DOMAIN r : j < k => Size(r[j]) >= Size(r[k])}

\* Cut the ranking at its first largest gap.
TopK(ranking) ==
  LET n      == Len(ranking)
      gap(j) == Size(ranking[j]) - Size(ranking[j + 1])
  IN  IF n <= 1 THEN n
      ELSE Min({j \in 1 .. n - 1 : \A k \in 1 .. n - 1 : gap(k) <= gap(j)})

Selects == version \in {"rsfuzz", "select"}

\* Mutant: captured clusters are not captured again.
NoRecapture ==
  IF Selects THEN {Range(SubSeq(r, 1, TopK(r))) : r \in Rankings} ELSE {Uncaptured}

\* clusters_to_update
ClustersToUpdate ==
  IF Selects
  THEN {Range(SubSeq(r, 1, TopK(r))) \cup (updatedCovs \cap capturedCovs) :
          r \in Rankings}
  ELSE {Uncaptured}

\* capture_rule_from_cluster: how many groups of sub-sequences the rules of
\* cluster c are made of.  A first capture uses one group; a recapture reads
\* what the last one saved, and uses one more unless the groups moved.
UsedClusters(c) ==
  IF c \in capturedCovs /\ version \in {"rsfuzz", "capture"}
  THEN {prevCaptured[c], prevCaptured[c] + 1}
  ELSE {1}

\* Mutant: a recapture does not save what it used.
SaveFirstOnly(chosen, used) ==
  [c \in DOMAIN prevCaptured \cup chosen |->
     IF c \in DOMAIN prevCaptured THEN prevCaptured[c] ELSE used[c]]

SavePrevCaptured(chosen, used) ==
  [c \in DOMAIN prevCaptured \cup chosen |->
     IF c \in chosen THEN used[c] ELSE prevCaptured[c]]

\* The versions that reduce the captured rules by merge_rules.
Merges == version \in {"rsfuzz", "capture"}

\* Clusters are chosen and captured, and the rules are made a table, over which
\* merge_rules may end the program (RuleExtraction says when).
Update ==
  /\ pc = "analyse" /\ input > BatchSize
  /\ \E chosen \in ClustersToUpdate :
     \E used \in [chosen -> UNION {UsedClusters(c) : c \in chosen}] :
       /\ \A c \in chosen : used[c] \in UsedClusters(c)
       /\ capturedCovs' = capturedCovs \cup chosen
       /\ rules' = [c \in DOMAIN rules \cup chosen |->
                      IF c \in chosen THEN DOMAIN clusters[c] ELSE rules[c]]
       /\ parameters' = [c \in DOMAIN parameters \cup chosen |->
                           IF c \notin chosen THEN parameters[c]
                           ELSE IF c \in capturedCovs
                                THEN Append(parameters[c], used[c])
                                ELSE <<used[c]>>]
       /\ prevCaptured' = SavePrevCaptured(chosen, used)
  /\ \/ pc' = "generate"
     \/ Merges /\ pc' = "crashed"
  /\ UNCHANGED <<version, testcases, input, indexVars, updatedCovs,
                 scheduleVars, infoNum, errors>>
-------------------------------------------------------------------------------
\* testcase_dir is wiped and refilled.  Guidance shifts the choice of trees
\* but, since it gives way when everything is pruned, rules out none for good.
Generate ==
  /\ pc = "generate" /\ infoNum <= MaxIter
  /\ testcases' \in Batches
  /\ pc' = "test"
  /\ UNCHANGED <<version, input, indexVars, updatedCovs, captureVars,
                 scheduleVars, infoNum, errors>>

\* no_newline, of two vectors of which the second is not empty or both are.
NoNewLine(new) == beforeCov = NoVector \/ new \subseteq beforeCov

\* Mutant: barren batches are counted on past the end of a streak.
BarrenNoReset ==
  /\ doUpdate' = (nChance + 1 = maxNChance)
  /\ nChance' = nChance + 1
  /\ maxNChance' = IF doUpdate' THEN maxNChance + 1 ELSE maxNChance
  /\ UNCHANGED <<beforeCov, totalFile>>

ExtendTotal(new) == beforeCov \cup new

\* One more barren batch: at the end of a streak an update is due, and the
\* next streak is longer.
Barren ==
  /\ doUpdate' = (nChance + 1 = maxNChance)
  /\ nChance' = IF doUpdate' THEN 0 ELSE nChance + 1
  /\ maxNChance' = IF doUpdate' THEN maxNChance + 1 ELSE maxNChance
  /\ UNCHANGED <<beforeCov, totalFile>>

\* New lines extend the total, which is saved.
NewLine(new) ==
  /\ doUpdate' = FALSE
  /\ nChance' = 0
  /\ beforeCov' = ExtendTotal(new)
  /\ totalFile' = beforeCov'
  /\ UNCHANGED maxNChance

\* The rest of the iteration.  Comparing the total with a shorter vector ends
\* the program.
Test(new) ==
  /\ covFiles' = Append(covFiles, new)
  /\ errors' = SaveErrors(testcases)
  /\ UNCHANGED <<version, testcases, input, indexVars, updatedCovs, captureVars>>
  /\ IF new = NoVector /\ beforeCov # NoVector
     THEN /\ pc' = "crashed"
          /\ UNCHANGED <<nChance, maxNChance, doUpdate, beforeCov, totalFile, infoNum>>
     ELSE /\ pc' = "head"
          /\ infoNum' = infoNum + 1
          /\ IF NoNewLine(new) THEN Barren ELSE NewLine(new)

TestBatch == pc = "test" /\ \E new \in Measured(testcases) : Test(new)

\* The phase ends by a crash, or at the bound on iterations.
Stopped ==
  /\ pc = "crashed" \/ (pc = "generate" /\ infoNum > MaxIter)
  /\ UNCHANGED vars

Next ==
  \/ FirstBatch \/ DecideUpdate
  \/ AnalyseKnownTree \/ AnalyseKnownSequences \/ AnalyseNew \/ Update
  \/ Generate \/ TestBatch \/ Stopped

Spec == Init /\ [][Next]_vars
-------------------------------------------------------------------------------
(* Properties.                                                             *)

Vectors == {NoVector} \cup SUBSET Lines

TypeOK ==
  /\ version \in Versions
  /\ pc \in {"start", "head", "analyse", "generate", "test", "crashed"}
  /\ testcases \in Batches \cup {<<>>}
  /\ input \in 0 .. BatchSize + 1
  /\ Range(dtIdx) \subseteq Trees
  /\ Range(seqsIdx) \subseteq Range(SeqsOf)
  /\ Range(covIdx) \subseteq SUBSET Lines
  /\ uniqueSeqs \in [DOMAIN dtIdx -> DOMAIN seqsIdx]
  /\ uniqueDt \in [DOMAIN seqsIdx -> DOMAIN covIdx]
  /\ DOMAIN clusters = DOMAIN covIdx
  /\ \A c \in DOMAIN clusters : DOMAIN clusters[c] \subseteq DOMAIN seqsIdx
  /\ updatedCovs \subseteq DOMAIN clusters
  /\ capturedCovs \subseteq DOMAIN clusters
  /\ nChance \in Nat /\ maxNChance \in Nat \ {0} /\ doUpdate \in BOOLEAN
  /\ beforeCov \in Vectors /\ totalFile \in Vectors
  /\ Range(covFiles) \subseteq Vectors
  /\ infoNum \in 0 .. MaxIter + 1
  /\ Range(errors) \subseteq Trees

\* The dictionaries of create_csv, filled at different places of its loop and
\* kept from one update to the next, agree: no hash has two keys, a cluster
\* counts exactly the sequence lists mapped to it, and nothing is counted
\* twice or dropped: the counts sum up to the inputs analysed since the start.
Pending == pc = "start" \/ (pc = "head" /\ doUpdate)
             \/ (pc = "crashed" /\ input = 0)

Analysed ==
  CASE pc = "analyse" -> (maxNChance - 1) * BatchSize + input - 1
    [] Pending        -> (maxNChance - 1) * BatchSize
    [] OTHER          -> maxNChance * BatchSize

ClusterAccounts ==
  /\ IsInjective(dtIdx) /\ IsInjective(seqsIdx) /\ IsInjective(covIdx)
  /\ \A c \in DOMAIN clusters :
       DOMAIN clusters[c] = {s \in DOMAIN uniqueDt : uniqueDt[s] = c}
  /\ SumFunction([c \in DOMAIN clusters |-> Size(c)]) = Analysed

\* The four records of what was captured agree, so a recapture always finds
\* the prev_captured file it reads, with the last parameter of its cluster.
CaptureAccounts ==
  /\ DOMAIN rules = capturedCovs
  /\ DOMAIN parameters = capturedCovs
  /\ DOMAIN prevCaptured = capturedCovs
  /\ \A c \in capturedCovs : Last(parameters[c]) = prevCaptured[c]

\* With selection, the rules of a captured cluster are those of every sequence list
\* the cluster has.
SelectedFresh == Selects => \A c \in capturedCovs : rules[c] = DOMAIN clusters[c]

\* Without it a cluster is captured once, with the sequence lists it has then, and
\* never again: its rules may fall behind, but every cluster has been captured.
OthersCaptured == ~ Selects => capturedCovs = DOMAIN clusters

\* What an update leaves to the next one.
RulesFresh == pc # "analyse" => SelectedFresh /\ OthersCaptured

\* before_cov_vec, and total_coverage.pickle once there is one, is the union of
\* the vectors in coverage/, provided the first one was not empty, although
\* barren batches are never added to it.
CoverageComplete ==
  /\ covFiles # <<>>
  /\ covFiles[1] # NoVector
  => /\ beforeCov = UNION (Range(covFiles) \ {NoVector})
     /\ totalFile \in {NoVector, beforeCov}

\* The records the loop keeps in several places, filled at different points of
\* an iteration and kept from one update to the next, agree.
RecordsAgree == TypeOK /\ ClusterAccounts /\ CaptureAccounts /\ CoverageComplete

\* Selection takes the largest uncaptured clusters, and at least one if there
\* is any: no cluster that is passed over is larger than one that is taken.
SelectsLargest ==
  [][pc = "analyse" /\ pc' # "analyse" =>
       LET taken == capturedCovs' \ capturedCovs
           left  == DOMAIN clusters \ capturedCovs'
       IN  /\ Uncaptured # {} => taken # {}
           /\ \A c \in taken, d \in left : Size(c) >= Size(d)]_vars

\* After a batch is run, each of its crashing inputs has its files under the
\* number of the iteration, whatever crashed before; only where names are
\* shifted the second takes the name of the first.
CrashesSaved ==
  [][pc = "start" \/ pc = "test" =>
       \A j \in DOMAIN testcases' :
         /\ testcases'[j] \in Crashing
         /\ ~ (Shifted /\ j = 1 /\ testcases'[2] \in Crashing)
         => \E k \in 1..BatchSize :
              <<infoNum, k>> \in DOMAIN errors' /\ errors'[<<infoNum, k>>] = testcases'[j]
    ]_vars
-------------------------------------------------------------------------------
(* The schedule of updates, which this module implements.  Coverage is empty  *)
(* where there is no vector.                                                  *)

Schedule == INSTANCE UpdateSchedule WITH
  MaxChance <- MaxIter + 1,
  started   <- pc # "start",
  cov       <- IF beforeCov = NoVector THEN {} ELSE beforeCov

\* The capture loop updates when the schedule says, whatever it does between
\* batches: neither analysing nor capturing disturbs the count of streaks.
FollowsSchedule == Schedule!Spec
==============================================================================
