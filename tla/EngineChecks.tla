---------------------------- MODULE EngineChecks ----------------------------
(***************************************************************************)
(* The engine's tables under the checkers of the chaos suite.              *)
(***************************************************************************)
EXTENDS Engine, ChaosChecks

\* The chaos checkers tell a damaged log from a sound one: log_integrity's scan,
\* which stops at the first violation, fails exactly the logs with a gap, a stale
\* writer or an event after the final one, all of which occur without the fence;
\* spend_consistency passes on every log, damaged or not.
ChecksExact ==
  \A r \in Runs :
    /\ log_integrity(events[r]) <=>
         \A j, k \in DOMAIN events[r] :
           /\ events[r][k].key = k - 1
           /\ j < k => events[r][j].attempt <= events[r][k].attempt /\ ~events[r][j].final
    /\ spend_consistency(runs[r].spent, events[r])
=============================================================================
