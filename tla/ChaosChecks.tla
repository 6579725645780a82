---------------------------- MODULE ChaosChecks ----------------------------
(***************************************************************************)
(* The four chaos invariants as the suite computes them from the rows it   *)
(* fetched: TRUE is PASS. Source: chaos/invariants.py.                     *)
(***************************************************************************)
EXTENDS Integers, FiniteSets, Sequences, SequencesExt

TERMINAL == {"succeeded", "failed", "budget_exceeded"}

\* rows: the statuses of those of run_ids that have a row.
termination(rows, run_ids) ==
  /\ \A r \in DOMAIN rows : rows[r] \in TERMINAL
  /\ Cardinality(DOMAIN rows) = Cardinality(run_ids)

\* Mutant: a writer one attempt behind is let through.
ScannedOneBehind(s, e) ==
  IF s.bad THEN s
  ELSE [bad |-> s.finals > 0 \/ e.attempt + 1 < s.last,
        last |-> IF e.attempt > s.last THEN e.attempt ELSE s.last,
        finals |-> s.finals + (IF e.final THEN 1 ELSE 0)]

\* One turn of the loop over a run's events, which is left at the first violation.
Scanned(s, e) ==
  IF s.bad THEN s
  ELSE [bad |-> s.finals > 0 \/ e.attempt < s.last,
        last |-> IF e.attempt > s.last THEN e.attempt ELSE s.last,
        finals |-> s.finals + (IF e.final THEN 1 ELSE 0)]

Unscanned == [bad |-> FALSE, last |-> 0, finals |-> 0]

Scan(log) == FoldLeft(Scanned, Unscanned, log)

\* The rows come ordered by seq; seqs 1..n is the position, keys are 0..n-1.
log_integrity(log) ==
  /\ \A k \in DOMAIN log : log[k].key = k - 1
  /\ ~Scan(log).bad

\* calls: rows of provider_calls as [step, attempt]. Equal attempts in a step's
\* group are double billing, different ones are crash-window retries.
no_double_billing(calls) ==
  \A step \in {calls[k].step : k \in DOMAIN calls} :
    LET group == {k \in DOMAIN calls : calls[k].step = step}
    IN Cardinality({calls[k].attempt : k \in group}) = Cardinality(group)

\* spent was read before log was.
spend_consistency(spent, log) == spent = FoldLeft(LAMBDA sum, e : sum + e.cost, 0, log)
=============================================================================
