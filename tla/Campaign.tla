------------------------------- MODULE Campaign -------------------------------
(***************************************************************************)
(* A campaign: run_rsfuzz_online of runRSFuzz.py, which clears the result  *)
(* directory and runs, one after the other and each under timeout(1), the  *)
(* capture phase (generateRS.py) and the test phase (runFuzzer.py).  The   *)
(* two only communicate through files of capture_data, and are killed at   *)
(* any step: a file that is being written is then torn.                    *)
(*                                                                         *)
(* Inside the capture phase, what CaptureLoop describes is abstracted to   *)
(* whether an iteration updates the rules; a rule table is the number of   *)
(* the update that made it, 0 for the empty table.                         *)
(***************************************************************************)
EXTENDS Integers, FiniteSets

CONSTANTS
  Modes,        \* the command lines explored: "baseline", "prepared", "full"
  CaptureTimes, \* options.capture_time, in seconds
  Lines,        \* the lines of the program under test
  Missing,      \* a file that does not exist
  Torn,         \* a file that was opened for writing and not finished
  NoVector,     \* an empty coverage vector
  MaxIter       \* bound: iterations and updates are not counted past it

ASSUME CampaignAssumption ==
  /\ Modes \subseteq {"baseline", "prepared", "full"}
  /\ CaptureTimes \subseteq Nat
  /\ MaxIter \in Nat \ {0}

\* What stands for a missing, torn or empty file is none of its contents.
ASSUME ContentAssumption ==
  /\ Missing # Torn /\ Missing # NoVector /\ Torn # NoVector
  /\ \A s \in {Missing, Torn, NoVector} : s \notin Int /\ \A v \in SUBSET Lines : s # v

\* The rules given by --prepared-RS: unlike any captured table.
Prepared == -1

VARIABLES
  mode, captureTime,  \* the options of the campaign
  phase,       \* what the launcher does: "capture", "test" or "finished"
  pc,          \* where the running child is
  iter,        \* info_num of the child
  updates,     \* the updates of the rules the capture phase finished
  total,       \* before_cov_vec, then total_cov: the child's coverage
  rules,       \* the table the test phase was started with, or Missing
  rsFile,      \* recurrent_sequences.pickle
  totalFile,   \* total_coverage.pickle
  testingFile, \* total_coverage_testing.pickle
  logged       \* the coverage of the last line of logs.txt

fileVars == <<rsFile, totalFile, testingFile>>
options  == <<mode, captureTime>>
vars == <<options, phase, pc, iter, updates, total, rules, fileVars, logged>>

\* capture_data and test_data are wiped and made anew.
Init ==
  /\ mode \in Modes /\ captureTime \in CaptureTimes
  /\ phase = IF mode = "full" THEN "capture" ELSE "test"
  /\ pc = IF mode = "full" THEN "first" ELSE "loadRules"
  /\ iter = 0 /\ updates = 0
  /\ total = NoVector /\ rules = Missing
  /\ rsFile = Missing /\ totalFile = Missing /\ testingFile = Missing
  /\ logged = {}

Later(n) == IF n < MaxIter THEN n + 1 ELSE n

Measured == {NoVector} \cup SUBSET Lines
-------------------------------------------------------------------------------
(* The capture phase: run of generateRS.py.                                *)

In(p, l) == phase = p /\ pc = l

Goto(l) == pc' = l /\ UNCHANGED <<options, phase>>

\* What a vector counts for in a sum.
Covered(vector) == IF vector = NoVector THEN {} ELSE vector

\* Iteration 0 is logged, but its coverage is not saved.  The empty vector of
\* a batch without a report is kept if it is an array.
CaptureFirst ==
  /\ In("capture", "first")
  /\ \E new \in Measured : total' = new /\ logged' = Covered(new)
  /\ iter' = 1
  /\ Goto("update")
  /\ UNCHANGED <<updates, rules, fileVars>>

\* An update writes the table recurrent_sequences_{info_num}.pickle.  The
\* first iteration always updates.
CaptureUpdate ==
  /\ In("capture", "update")
  /\ \/ updates < MaxIter /\ updates' = updates + 1
     \/ updates > 0 /\ UNCHANGED updates
  /\ Goto("test")
  /\ UNCHANGED <<iter, total, rules, fileVars, logged>>

\* A batch: with new lines, the total is extended and saved.  Nothing is new
\* compared with an empty vector.
CaptureTest ==
  /\ In("capture", "test")
  /\ \E new \in SUBSET Lines :
       IF total = NoVector \/ new \subseteq total
       THEN UNCHANGED total /\ Goto("log")
       ELSE total' = total \cup new /\ Goto("openTotal")
  /\ UNCHANGED <<iter, updates, rules, fileVars, logged>>

CaptureOpenTotal ==
  /\ In("capture", "openTotal")
  /\ totalFile' = Torn
  /\ Goto("dumpTotal")
  /\ UNCHANGED <<iter, updates, total, rules, rsFile, testingFile, logged>>

CaptureDumpTotal ==
  /\ In("capture", "dumpTotal")
  /\ totalFile' = total
  /\ Goto("log")
  /\ UNCHANGED <<iter, updates, total, rules, rsFile, testingFile, logged>>

CaptureLog ==
  /\ In("capture", "log")
  /\ logged' = Covered(total)
  /\ Goto("openCopy")
  /\ UNCHANGED <<iter, updates, total, rules, fileVars>>

\* Mutant: the name of the table that is copied is the one before.
CaptureCopyBefore ==
  /\ In("capture", "copy")
  /\ rsFile' = updates - 1
  /\ iter' = Later(iter)
  /\ Goto("update")
  /\ UNCHANGED <<updates, total, rules, totalFile, testingFile, logged>>

\* cp of the last table written, at the end of every iteration.
CaptureOpenCopy ==
  /\ In("capture", "openCopy")
  /\ rsFile' = Torn
  /\ Goto("copy")
  /\ UNCHANGED <<iter, updates, total, rules, totalFile, testingFile, logged>>

CaptureCopy ==
  /\ In("capture", "copy")
  /\ rsFile' = updates
  /\ iter' = Later(iter)
  /\ Goto("update")
  /\ UNCHANGED <<updates, total, rules, totalFile, testingFile, logged>>

\* The child ends: timeout kills it, unless the duration is 0, which timeout
\* takes as no limit; or it ends by itself, over the empty vector of a batch or a
\* rule of the root that merge_rules wants the parent of.  Its return code is not
\* looked at.
CaptureEnds ==
  /\ phase = "capture"
  /\ captureTime > 0 \/ pc \in {"first", "update", "test"}
  /\ phase' = "test" /\ pc' = "loadRules"
  /\ iter' = 0 /\ total' = NoVector
  /\ UNCHANGED <<options, updates, rules, fileVars, logged>>
-------------------------------------------------------------------------------
(* The test phase: runFuzzer.py.                                           *)

\* --recurrent_sequences is opened and unpickled, or not given at all.
TestLoadRules ==
  /\ In("test", "loadRules")
  /\ CASE mode = "baseline" -> rules' = 0 /\ Goto("loadTotal")
       [] mode = "prepared" -> rules' = Prepared /\ Goto("loadTotal")
       [] mode = "full" /\ rsFile \notin {Missing, Torn} ->
            rules' = rsFile /\ Goto("loadTotal")
       [] OTHER -> UNCHANGED rules /\ Goto("crashed")
  /\ UNCHANGED <<iter, updates, total, fileVars, logged>>

TestLoadTotal ==
  /\ In("test", "loadTotal")
  /\ IF totalFile = Torn
     THEN UNCHANGED total /\ Goto("crashed")
     ELSE /\ total' = IF totalFile = Missing THEN NoVector ELSE totalFile
          /\ Goto("first")
  /\ UNCHANGED <<iter, updates, rules, fileVars, logged>>

\* Mutant: a batch replaces the total.
ReplaceTotal(new) == new

Merge(new) == IF total = NoVector THEN new ELSE total \cup new
LogTotal   == Covered(total')

\* Merging vectors of different lengths ends the child.
Mergeable(new) == total = NoVector <=> new = NoVector

\* Mutant: an empty vector is not skipped, as in iteration 0.
EndsBatchUnguarded(new) == ~ Mergeable(new)

EndsBatch(new) == new # NoVector /\ ~ Mergeable(new)

\* Iteration 0 is logged and not saved.  Here an empty vector is not guarded
\* against: it ends the child if it meets a total or, being a list, has no sum.
TestFirst ==
  /\ In("test", "first")
  /\ \E new \in Measured :
       \/ /\ new # NoVector \/ total = NoVector
          /\ total' = Merge(new)
          /\ logged' = LogTotal
          /\ iter' = 1
          /\ Goto("test")
       \/ /\ new = NoVector
          /\ UNCHANGED <<iter, total, logged>>
          /\ Goto("crashed")
  /\ UNCHANGED <<updates, rules, fileVars>>

\* A later batch, of which an empty vector is skipped.
TestBatch ==
  /\ In("test", "test")
  /\ \E new \in Measured :
       IF EndsBatch(new)
       THEN UNCHANGED <<total, logged>> /\ Goto("crashed")
       ELSE /\ total' = IF new = NoVector THEN total ELSE Merge(new)
            /\ logged' = LogTotal
            /\ Goto("openTesting")
  /\ UNCHANGED <<iter, updates, rules, fileVars>>

TestOpenTesting ==
  /\ In("test", "openTesting")
  /\ testingFile' = Torn
  /\ Goto("dumpTesting")
  /\ UNCHANGED <<iter, updates, total, rules, rsFile, totalFile, logged>>

TestDumpTesting ==
  /\ In("test", "dumpTesting")
  /\ testingFile' = total
  /\ iter' = Later(iter)
  /\ Goto("test")
  /\ UNCHANGED <<updates, total, rules, rsFile, totalFile, logged>>

\* timeout ends the test phase, whose time is taken to be positive, or it has
\* crashed.
TestEnds ==
  /\ phase = "test"
  /\ phase' = "finished"
  /\ UNCHANGED <<options, pc, iter, updates, total, rules, fileVars, logged>>

Finished == phase = "finished" /\ UNCHANGED vars

Capture ==
  \/ CaptureFirst \/ CaptureUpdate \/ CaptureTest \/ CaptureOpenTotal
  \/ CaptureDumpTotal \/ CaptureLog \/ CaptureOpenCopy \/ CaptureCopy

Test ==
  \/ TestLoadRules \/ TestLoadTotal \/ TestFirst \/ TestBatch
  \/ TestOpenTesting \/ TestDumpTesting

Next == Capture \/ CaptureEnds \/ Test \/ TestEnds \/ Finished

Spec == Init /\ [][Next]_vars
-------------------------------------------------------------------------------
(* Properties.                                                             *)

TypeOK ==
  /\ mode \in Modes /\ captureTime \in CaptureTimes
  /\ phase \in {"capture", "test", "finished"}
  /\ pc \in {"first", "update", "test", "openTotal", "dumpTotal", "log",
             "openCopy", "copy", "loadRules", "loadTotal", "openTesting",
             "dumpTesting", "crashed"}
  /\ iter \in 0..MaxIter /\ updates \in 0..MaxIter
  /\ total \in Measured /\ logged \subseteq Lines
  /\ rules \in {Missing, Prepared} \cup 0..MaxIter
  /\ rsFile \in {Missing, Torn} \cup 0..MaxIter
  /\ totalFile \in {Missing, Torn} \cup SUBSET Lines
  /\ testingFile \in {Missing, Torn, NoVector} \cup SUBSET Lines

\* Wherever the capture phase is killed, a guided test phase that runs has
\* the rules of the last update or of the one before it, never the empty
\* table: at most the update of the iteration in progress is lost.
RulesNearlyCurrent ==
  mode = "full" /\ rules # Missing => rules \in {updates - 1, updates} \ {0}

\* The coverage saved by the capture phase is part of what the test phase
\* accounts for, in its total and in the file it leaves behind.
CaptureCoverageKept ==
  /\ rules # Missing /\ pc \notin {"loadTotal", "crashed"}
  /\ totalFile \notin {Missing, Torn}
  => /\ total # NoVector /\ totalFile \subseteq total
     /\ testingFile \notin {Missing, Torn} => totalFile \subseteq Covered(testingFile)

\* At the end of an iteration the log and the file of the test phase agree.
LogMatchesFile ==
  phase = "test" /\ pc = "test" /\ iter > 1 => logged = Covered(testingFile)

\* At the end of an iteration the log and the file of the capture phase agree, once
\* there is a file: iteration 0 is logged only.
CaptureLogMatchesFile ==
  phase = "capture" /\ pc = "update" /\ totalFile # Missing => logged = totalFile

\* What the two phases leave in files and in the log goes together.
FilesAgree == TypeOK /\ CaptureCoverageKept /\ LogMatchesFile /\ CaptureLogMatchesFile

\* A test phase that ends by itself after iteration 0 takes no coverage with it:
\* neither phase has saved a line by then, and this one has logged none.  A batch
\* without a report may end iteration 0, but no later one.
LateCrashLosesNothing ==
  pc = "crashed" /\ iter > 0 =>
    totalFile = Missing /\ testingFile \in {Missing, NoVector} /\ logged = {}
==============================================================================
