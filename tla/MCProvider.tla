----------------------------- MODULE MCProvider -----------------------------
(***************************************************************************)
(* Two runs; the first goes through every history of three steps. Waits    *)
(* below, at and past the cap.                                             *)
(***************************************************************************)
EXTENDS Provider

CONSTANTS r1, r2

StepsOf == [r \in {r1, r2} |-> IF r = r1 THEN 3 ELSE 1]

Call(name, ext) == [name |-> name, ext |-> ext]
SomeReplies == {<<>>, <<Call(TRUE, TRUE), Call(TRUE, FALSE)>>, <<Call(FALSE, TRUE)>>}
=============================================================================
