----------------------------- MODULE MCChaosRun -----------------------------
(***************************************************************************)
(* Two workers at a time out of four names, so two can be respawned; one   *)
(* toy run, as a mixed workload may draw it; two faults of any kind.       *)
(***************************************************************************)
EXTENDS ChaosRun, TLC

CONSTANTS r1, w1, w2, w3, w4

ToySpec == r1 :> [kind |-> "toy", steps |-> 1]
SpawnOrder == <<w1, w2, w3, w4>>
OwnId == [w \in Workers |-> w]
=============================================================================
