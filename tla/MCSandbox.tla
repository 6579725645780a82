----------------------------- MODULE MCSandbox -----------------------------
(***************************************************************************)
(* One call of a worker of the injector and one of another process; the    *)
(* programs print nothing, exactly the limit, or past it in two chunks.    *)
(***************************************************************************)
EXTENDS Sandbox

PrintedOutputs == {<<<<>>, <<2>>>>, <<<<1, 2>>, <<>>>>}
=============================================================================
