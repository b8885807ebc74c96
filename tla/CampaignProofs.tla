---------------------------- MODULE CampaignProofs ----------------------------
(* What a campaign leaves behind, for every set of lines and command lines  *)
(* and any number of iterations, wherever timeout kills a child.            *)
EXTENDS Campaign, TLAPS

CapturePcs == {"first", "update", "test", "openTotal", "dumpTotal", "log",
               "openCopy", "copy"}
TestPcs == {"loadRules", "loadTotal", "first", "test", "openTesting",
            "dumpTesting", "crashed"}

\* Which of the two children runs, and what the test phase has not touched yet.
PhaseInv ==
  /\ phase = "capture" => pc \in CapturePcs /\ rules = Missing
  /\ phase # "capture" => pc \in TestPcs
  /\ phase = "capture" \/ pc \in {"loadRules", "loadTotal", "first"} =>
       testingFile = Missing
  /\ pc = "loadRules" => rules = Missing

\* The table that is copied at the end of an iteration is the last one; only
\* between an update and the copy may the file be one update behind.
TableFileInv ==
  /\ rsFile \in {Missing, Torn} \/ rsFile \in {updates - 1, updates} \ {0}
  /\ phase = "capture" /\ pc = "first" => rsFile = Missing
  /\ phase = "capture" /\ pc = "update" => rsFile \in {Missing, updates}
  /\ phase = "capture" /\ pc \notin {"first", "update"} => updates > 0

\* A guided test phase that loaded its rules has those of the file.
LoadedInv == mode = "full" /\ rules # Missing => rules = rsFile /\ rules # Torn

\* The line of the log is written before the file is.
LoggedInv ==
  phase = "test" /\ pc \in {"openTesting", "dumpTesting"} => logged = Covered(total)

\* The capture phase's file is torn only while it is written, and else holds the
\* coverage there is, which was logged by the end of an iteration.
CaptureFilesInv ==
  phase = "capture" =>
    /\ pc # "dumpTotal" => totalFile # Torn
    /\ pc = "first" => totalFile = Missing
    /\ pc \in {"openTotal", "dumpTotal"} => total # NoVector
    /\ pc \notin {"openTotal", "dumpTotal"} => totalFile \in {Missing, total}
    /\ pc \in {"update", "openCopy", "copy"} => logged = Covered(total)

\* A test phase without coverage was started without any, and has saved none.
NothingSavedInv ==
  phase # "capture" =>
    /\ pc \in {"loadRules", "loadTotal", "first"} => iter = 0
    /\ total = NoVector /\ pc \notin {"loadRules", "loadTotal", "crashed"} => totalFile = Missing
    /\ total = NoVector /\ pc \in {"test", "openTesting", "dumpTesting"} => logged = {}
    /\ total = NoVector /\ pc \in {"test", "openTesting"} => testingFile \in {Missing, NoVector}

IInv ==
  /\ TypeOK /\ PhaseInv /\ TableFileInv /\ LoadedInv /\ CaptureFilesInv
  /\ LoggedInv /\ CaptureCoverageKept /\ LogMatchesFile
  /\ NothingSavedInv /\ LateCrashLosesNothing
-------------------------------------------------------------------------------
(* A campaign begins with wiped directories.                                 *)
LEMMA InitIInv == Init => IInv
BY CampaignAssumption, ContentAssumption
   DEF Init, IInv, TypeOK, PhaseInv, TableFileInv, LoadedInv, LoggedInv,
       CaptureCoverageKept, LogMatchesFile, CaptureFilesInv, NothingSavedInv,
       LateCrashLosesNothing, CapturePcs, TestPcs, Measured, Covered,
       Prepared

(* A step of the capture phase keeps its files and its rules in agreement.   *)
LEMMA CaptureInv == IInv /\ Capture => IInv'
<1> SUFFICES ASSUME IInv, Capture PROVE IInv'
  OBVIOUS
<1> USE CampaignAssumption, ContentAssumption
    DEF IInv, TypeOK, PhaseInv, TableFileInv, LoadedInv, LoggedInv,
        CaptureCoverageKept, LogMatchesFile, CaptureFilesInv, NothingSavedInv,
        LateCrashLosesNothing, CapturePcs, TestPcs, Measured,
        In, Goto, options, fileVars, Later
<1>1. CASE CaptureFirst
  BY <1>1 DEF CaptureFirst, Covered
<1>2. CASE CaptureUpdate
  BY <1>2 DEF CaptureUpdate
<1>3. CASE CaptureTest
  BY <1>3 DEF CaptureTest
<1>4. CASE CaptureOpenTotal
  BY <1>4 DEF CaptureOpenTotal
<1>5. CASE CaptureDumpTotal
  BY <1>5 DEF CaptureDumpTotal
<1>6. CASE CaptureLog
  BY <1>6 DEF CaptureLog, Covered
<1>7. CASE CaptureOpenCopy
  BY <1>7 DEF CaptureOpenCopy
<1>8. CASE CaptureCopy
  BY <1>8 DEF CaptureCopy
<1> QED
  BY <1>1, <1>2, <1>3, <1>4, <1>5, <1>6, <1>7, <1>8 DEF Capture

(* So does a step of the test phase, with the log and the total.             *)
LEMMA TestInv == IInv /\ Test => IInv'
<1> SUFFICES ASSUME IInv, Test PROVE IInv'
  OBVIOUS
<1> USE CampaignAssumption, ContentAssumption
    DEF IInv, TypeOK, PhaseInv, TableFileInv, LoadedInv, LoggedInv,
        CaptureCoverageKept, LogMatchesFile, CaptureFilesInv, NothingSavedInv,
        LateCrashLosesNothing, CapturePcs, TestPcs, Measured,
        In, Goto, options, fileVars, Later
<1>1. CASE TestLoadRules
  BY <1>1 DEF TestLoadRules, Prepared
<1>2. CASE TestLoadTotal
  BY <1>2 DEF TestLoadTotal
<1>3. CASE TestFirst
  BY <1>3 DEF TestFirst, Merge, LogTotal, Covered
<1>4. CASE TestBatch
  BY <1>4 DEF TestBatch, Merge, Mergeable, LogTotal, Covered
<1>5. CASE TestOpenTesting
  BY <1>5 DEF TestOpenTesting
<1>6. CASE TestDumpTesting
  BY <1>6 DEF TestDumpTesting, Covered
<1> QED
  BY <1>1, <1>2, <1>3, <1>4, <1>5, <1>6 DEF Test

(* And so does timeout, wherever it ends either child.                       *)
LEMMA NextIInv == IInv /\ [Next]_vars => IInv'
<1> SUFFICES ASSUME IInv, [Next]_vars PROVE IInv'
  OBVIOUS
<1> USE CampaignAssumption, ContentAssumption
    DEF IInv, TypeOK, PhaseInv, TableFileInv, LoadedInv, LoggedInv,
        CaptureCoverageKept, LogMatchesFile, CaptureFilesInv, NothingSavedInv,
        LateCrashLosesNothing, CapturePcs, TestPcs, Measured,
        options, fileVars
<1>1. CASE CaptureEnds
  BY <1>1 DEF CaptureEnds
<1>2. CASE TestEnds
  BY <1>2 DEF TestEnds
<1>3. CASE UNCHANGED vars
  BY <1>3 DEF vars, Covered
<1> QED
  BY <1>1, <1>2, <1>3, CaptureInv, TestInv DEF Next, Finished

LEMMA Invariance == Spec => []IInv
<1>1. Init => IInv
  BY InitIInv
<1>2. IInv /\ [Next]_vars => IInv'
  BY NextIInv
<1> QED BY <1>1, <1>2, PTL DEF Spec
-------------------------------------------------------------------------------
(* A guided test phase that runs has the rules of the last update or of the  *)
(* one before it, wherever the capture phase was killed (run_rsfuzz_online,  *)
(* generateRS.py's copy of the table).                                       *)
THEOREM RulesCurrent == Spec => []RulesNearlyCurrent
<1>1. IInv => RulesNearlyCurrent
  BY DEF IInv, LoadedInv, TableFileInv, RulesNearlyCurrent
<1> QED BY <1>1, Invariance, PTL

(* At the end of an iteration of either phase its log and its own file agree *)
(* (total_coverage.pickle, once there is one, and                            *)
(* total_coverage_testing.pickle), and the coverage the capture phase saved  *)
(* is part of what the test phase has.                                       *)
THEOREM FilesInAgreement == Spec => []FilesAgree
<1>1. IInv => CaptureLogMatchesFile
  BY ContentAssumption DEF IInv, TypeOK, CaptureFilesInv, CaptureLogMatchesFile, Covered
<1>2. IInv => FilesAgree
  BY <1>1 DEF IInv, FilesAgree
<1> QED BY <1>2, Invariance, PTL

(* A test phase that ends by itself after iteration 0 takes no coverage with *)
(* it: where runFuzzer.py crashes later, neither phase has saved a line.     *)
THEOREM LateCrashHarmless == Spec => []LateCrashLosesNothing
<1>1. IInv => LateCrashLosesNothing
  BY DEF IInv
<1> QED BY <1>1, Invariance, PTL
===============================================================================
