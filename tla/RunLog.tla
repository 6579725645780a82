------------------------------- MODULE RunLog -------------------------------
(***************************************************************************)
(* What the engine promises the rest of the system, as an abstract         *)
(* specification: each run has one append-only log, written by one token   *)
(* at a time. Tokens are granted in increasing order; only the holder of   *)
(* the newest, unrevoked token appends, always the entry with the next     *)
(* key; the final entry ends the run and nothing is ever granted or        *)
(* appended again. No processes, leases, clocks or transactions are left.  *)
(***************************************************************************)
EXTENDS Integers, Sequences

CONSTANTS
  Runs,
  Costs   \* what an entry may cost

VARIABLES
  status,  \* status[r]: absent, pending, running or how it ended
  log,     \* log[r]: the entries [key, attempt, cost, final] committed so far
  token,   \* token[r]: the newest token granted for r
  held     \* held[r]: is that token still good

vars == <<status, log, token, held>>

EndStatus == {"succeeded", "failed", "budget_exceeded"}

Init ==
  /\ status = [r \in Runs |-> "absent"]
  /\ log = [r \in Runs |-> <<>>]
  /\ token = [r \in Runs |-> 0]
  /\ held = [r \in Runs |-> FALSE]

Submit(r) ==
  /\ status[r] = "absent"
  /\ status' = [status EXCEPT ![r] = "pending"]
  /\ UNCHANGED <<log, token, held>>

Grant(r) ==
  /\ status[r] \in {"pending", "running"} /\ ~held[r]
  /\ status' = [status EXCEPT ![r] = "running"]
  /\ token' = [token EXCEPT ![r] = @ + 1]
  /\ held' = [held EXCEPT ![r] = TRUE]
  /\ UNCHANGED log

\* A token is taken away, from one run or from several at once.
Revoke(R) ==
  /\ R # {} /\ \A r \in R : held[r]
  /\ held' = [r \in Runs |-> held[r] /\ r \notin R]
  /\ UNCHANGED <<status, log, token>>

\* The holder of run r's token appends an entry that leaves the run running.
Extend(r, cost) ==
  /\ status[r] = "running" /\ held[r]
  /\ UNCHANGED <<status, token, held>>
  /\ log' = [log EXCEPT ![r] = Append(@, [key |-> Len(@), attempt |-> token[r],
                                         cost |-> cost, final |-> FALSE])]

\* It appends the entry that ends the run.
Finish(r, cost, end) ==
  /\ status[r] = "running" /\ held[r]
  /\ status' = [status EXCEPT ![r] = end]
  /\ held' = [held EXCEPT ![r] = FALSE]
  /\ log' = [log EXCEPT ![r] = Append(@, [key |-> Len(@), attempt |-> token[r],
                                         cost |-> cost, final |-> TRUE])]
  /\ UNCHANGED token

Next ==
  \/ \E r \in Runs : Submit(r) \/ Grant(r)
  \/ \E R \in SUBSET Runs : Revoke(R)
  \/ \E r \in Runs, cost \in Costs : Extend(r, cost)
  \/ \E r \in Runs, cost \in Costs, end \in EndStatus : Finish(r, cost, end)

Spec == Init /\ [][Next]_vars
=============================================================================
