---------------------------- MODULE MCCaptureLoop ----------------------------
(* Three trees over three lines: two share their sequence list but not their *)
(* coverage, so that a cluster holds an input that does not belong to it, and *)
(* two share their coverage but not their sequence list, so that a cluster   *)
(* that is captured already may get another one.                             *)
EXTENDS CaptureLoop, TLC

MCTrees    == {"t1", "t2", "t3"}
MCSeqsOf   == "t1" :> "p" @@ "t2" :> "q" @@ "t3" :> "q"
MCLines    == 1..3
MCCoverage == "t1" :> {1, 2} @@ "t2" :> {1, 2} @@ "t3" :> {2, 3}
==============================================================================
