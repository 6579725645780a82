----------------------------- MODULE MCEvalRun -----------------------------
(***************************************************************************)
(* Two tasks, one that the mock passes at the second try and one it fails; *)
(* a second process migrates the same database.                            *)
(***************************************************************************)
EXTENDS EvalRun, TLC

CONSTANTS t1, t2

SomeTasks == <<t1, t2>>
SomeFailFirst == t1 :> 1 @@ t2 :> 0
SomeOutcome == t1 :> "pass" @@ t2 :> "wrong"
=============================================================================
