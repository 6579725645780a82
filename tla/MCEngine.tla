------------------------------ MODULE MCEngine ------------------------------
(***************************************************************************)
(* Small instances of Engine for TLC: two workers, one run, one or two     *)
(* steps.                                                                  *)
(***************************************************************************)
EXTENDS EngineChecks, TLC

CONSTANTS r1, w1, w2

Toy(n) == [kind |-> "toy", steps |-> n]
Agent(n) == [kind |-> "agent", steps |-> n]

ToySpec1 == r1 :> Toy(1)
ToySpec2 == r1 :> Toy(2)
AgentSpec1 == r1 :> Agent(1)
AgentSpec2 == r1 :> Agent(2)

\* Workers in separate containers all get the default id worker-1.
SharedIds == {"worker-1"}
SharedId == [w \in Workers |-> "worker-1"]
OwnId == [w \in Workers |-> w]

WorkerSymmetry == Permutations(Workers)
=============================================================================
