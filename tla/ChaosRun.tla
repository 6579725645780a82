------------------------------ MODULE ChaosRun ------------------------------
(***************************************************************************)
(* A chaos scenario around the engine: run_chaos submits the runs, starts  *)
(* the workers, injects its schedule of faults, replaces the dead, stops   *)
(* when every run is terminal or at its timeout, kills everything and      *)
(* checks the four invariants, query by query, in the database.            *)
(* Workers and database are those of Engine; its own crashes, pauses and   *)
(* restarts are replaced by the injector's.                                *)
(* Source: chaos/scenarios.py, chaos/injector.py, __main__._chaos.         *)
(***************************************************************************)
EXTENDS EngineChecks

CONSTANTS
  Workload,   \* "toy", "agent" or "mixed"
  NFaults,    \* the length of the schedule
  NWorkers,   \* cfg.workers
  Names       \* the workers in the order they are spawned; bound: how many may be

ASSUME ChaosAssumption ==
  /\ NFaults \in Nat /\ Workload \in {"toy", "agent", "mixed"}
  /\ NWorkers \in Nat \ {0} /\ Names \in Seq(Workers)
  /\ \A i, j \in DOMAIN Names : Names[i] = Names[j] => i = j

VARIABLES
  hpc,       \* where run_chaos is
  pending,   \* how many faults are not yet due
  armed,     \* docker faults that wait for a container
  named,     \* Injector._n
  crew,      \* Injector.workers
  todo,      \* the workers Injector.shutdown's loop has not come to yet
  cur,       \* the one it has found alive and resumed
  verdict,   \* timed_out, and the invariants' results so far
  spent      \* spend_consistency's first query

crewVars == <<named, crew, todo, cur>>
chaosVars == <<hpc, pending, armed, crewVars, verdict, spent>>
allVars == <<vars, chaosVars>>

Alive(w) == proc[w] # "dead"

\* plan: any schedule of these kinds. It is drawn beforehand and nothing looks ahead,
\* so the model draws each fault when it is due. A toy workload has no containers.
plan == {"kill_worker", "suspend_worker"} \cup (IF Workload = "toy" THEN {} ELSE {"docker_kill"})

Hgoto(from, to) == hpc = from /\ hpc' = to

\* The state before Submit, with no worker started yet.
ChaosInit ==
  /\ runs = [r \in Runs |-> [status |-> "absent", spent |-> 0]]
  /\ events = [r \in Runs |-> <<>>]
  /\ tasks = [r \in Runs |-> [status |-> "none", owner |-> NULL, attempt |-> 0,
                              left |-> -1, wait |-> 0]]
  /\ lock = [r \in Runs |-> NULL]
  /\ proc = [w \in Workers |-> "dead"]
  /\ pc = [w \in Workers |-> "poll"] /\ job = [w \in Workers |-> NoJob]
  /\ reaper = [w \in Workers |-> FALSE]
  /\ faults = [k \in FaultKinds |-> 0]
  /\ hpc = "submit" /\ pending = NFaults /\ armed = 0 /\ spent = [r \in {} |-> 0]
  /\ named = 0 /\ crew = {} /\ todo = {} /\ cur = NULL
  /\ verdict = [timedOut |-> FALSE, termination |-> FALSE, integrity |-> FALSE, spend |-> FALSE]

SubmitRuns(r) == hpc = "submit" /\ Submit(r) /\ UNCHANGED chaosVars

\* All runs are submitted: the `try` begins.
EnterTry ==
  /\ \A r \in Runs : runs[r].status # "absent"
  /\ Hgoto("submit", "start")
  /\ UNCHANGED <<vars, pending, armed, crewVars, verdict, spent>>

\* Mutant: the dead are dropped and not replaced.
ShortAtStart(workers) == hpc = "start" /\ Cardinality(workers) < NWorkers

\* Workers are to be spawned: the first ones, or the supervisor's replacements.
Short(workers) == Cardinality(workers) < NWorkers

\* spawn_worker: a process under a new name; a COMMIT of a dead one may still be
\* under way.
SpawnWorker ==
  /\ hpc \in {"start", "respawn"} /\ named < Len(Names)
  /\ LET w == Names[named + 1] IN
       /\ proc' = [proc EXCEPT ![w] = "up"] /\ reaper' = [reaper EXCEPT ![w] = TRUE]
       /\ crew' = crew \cup {w}
  /\ named' = named + 1
  /\ hpc' = IF Short(crew') THEN hpc ELSE IF hpc = "start" THEN "faults" ELSE "query"
  /\ UNCHANGED <<dbVars, pc, job, faults, pending, armed, todo, cur, verdict, spent>>

\* SIGKILL. The server rolls back the open transaction, unless its COMMIT is on
\* the way: that one ends later (LateCommit).
Kill(w) ==
  /\ proc' = [proc EXCEPT ![w] = "dead"]
  /\ \/ /\ BackToPoll(w)
        /\ lock' = [r \in Runs |-> IF lock[r] = w THEN NULL ELSE lock[r]]
     \/ pc[w] = "append" /\ UNCHANGED <<pc, job, lock>>
  /\ UNCHANGED <<runs, events, tasks, reaper, faults>>

LateCommit(w) ==
  /\ proc[w] = "dead" /\ pc[w] = "append"
  /\ CommitEffect(w) /\ BackToPoll(w)
  /\ UNCHANGED <<proc, reaper, faults, chaosVars>>

\* The next fault is due. _apply hits a worker that runs and is not suspended, if
\* there is one.
ApplyFault(kind) ==
  /\ hpc = "faults" /\ pending > 0 /\ pending' = pending - 1
  /\ \/ kind = "docker_kill" /\ armed' = armed + 1 /\ UNCHANGED vars
     \/ /\ kind = "kill_worker" /\ UNCHANGED armed
        /\ IF \E w \in crew : Up(w) THEN \E w \in crew : Up(w) /\ Kill(w)
           ELSE UNCHANGED vars
     \/ /\ kind = "suspend_worker"
        /\ IF \E w \in crew : Up(w)
           THEN \E w \in crew : Up(w) /\ proc' = [proc EXCEPT ![w] = "paused"]
           ELSE UNCHANGED proc
        /\ UNCHANGED <<dbVars, pc, job, reaper, faults, armed>>
  /\ UNCHANGED <<hpc, crewVars, verdict, spent>>

\* Mutant: a suspended worker is taken for dead.
LivingRunning == {w \in crew : Up(w)}

\* The workers that are kept; the others were killed.
Living == {w \in crew : Alive(w)}

\* The rest of a turn: at most one armed docker fault ends, hit or waited long
\* enough (the killed program is one more outcome of a step), the suspended workers
\* in S, whose time has come, go on, and the dead ones are dropped.
Supervise(S) ==
  /\ S \subseteq {w \in crew : proc[w] = "paused"}
  /\ hpc = "faults" /\ hpc' = IF Short(Living) THEN "respawn" ELSE "query"
  /\ armed' \in {armed, IF armed > 0 THEN armed - 1 ELSE 0}
  /\ proc' = [w \in Workers |-> IF w \in S THEN "up" ELSE proc[w]]
  /\ crew' = Living
  /\ UNCHANGED <<dbVars, pc, job, reaper, faults, pending, named, todo, cur, verdict, spent>>

\* `finally`: the shutdown loop has the whole list before it.
Leave(to) == hpc' = to /\ todo' = crew /\ UNCHANGED <<named, crew, cur>>

\* All terminal: stop. Not yet: go round again, or give up at the timeout.
Query ==
  /\ hpc = "query"
  /\ \/ (\A r \in Runs : runs[r].status \in TERMINAL) /\ Leave("shutdown") /\ UNCHANGED verdict
     \/ /\ \E r \in Runs : runs[r].status \notin TERMINAL
        /\ \/ hpc' = "faults" /\ UNCHANGED <<verdict, crewVars>>
           \/ Leave("shutdown") /\ verdict' = [verdict EXCEPT !.timedOut = TRUE]
  /\ UNCHANGED <<vars, pending, armed, spent>>

\* Popen, psutil or a query raises inside the `try`: there will be no report.
LoopRaises ==
  /\ hpc \in {"start", "faults", "respawn", "query"} /\ Leave("failing")
  /\ UNCHANGED <<vars, pending, armed, verdict, spent>>

InShutdown == hpc \in {"shutdown", "failing"}

\* Injector.shutdown's loop comes to worker w, the oldest left: if alive it is
\* resumed (and may act once more before the kill), if not there is nothing to do.
Visit(w) ==
  /\ InShutdown /\ cur = NULL /\ w \in todo
  /\ \A i, j \in DOMAIN Names : Names[i] = w /\ Names[j] \in todo => i <= j
  /\ todo' = todo \ {w}
  /\ IF Alive(w) THEN cur' = w /\ proc' = [proc EXCEPT ![w] = "up"] ELSE UNCHANGED <<cur, proc>>
  /\ UNCHANGED <<dbVars, pc, job, reaper, faults, hpc, pending, armed, named, crew, verdict, spent>>

\* It kills that worker and waits for it.
KillVisited ==
  /\ InShutdown /\ cur # NULL /\ Kill(cur) /\ cur' = NULL
  /\ UNCHANGED <<hpc, pending, armed, named, crew, todo, verdict, spent>>

ShutdownEnds ==
  /\ InShutdown /\ cur = NULL /\ todo = {}
  /\ hpc' = IF hpc = "failing" THEN "raised" ELSE "termination"
  /\ UNCHANGED <<vars, pending, armed, crewVars, verdict, spent>>

\* An exception (an interrupt in a wait) leaves the loop, or a check afterwards.
Raises ==
  /\ InShutdown \/ hpc \in {"termination", "integrity", "spent", "spend"}
  /\ hpc' = "raised"
  /\ UNCHANGED <<vars, pending, armed, crewVars, verdict, spent>>

\* check_all, one query after the other; a toy workload has no provider_calls.
CheckTermination ==
  /\ Hgoto("termination", "integrity")
  /\ verdict' = [verdict EXCEPT !.termination =
                   termination([r \in {q \in Runs : runs[q].status # "absent"} |-> runs[r].status], Runs)]
  /\ UNCHANGED <<vars, pending, armed, crewVars, spent>>

CheckIntegrity ==
  /\ Hgoto("integrity", "spent")
  /\ verdict' = [verdict EXCEPT !.integrity = \A r \in Runs : log_integrity(events[r])]
  /\ UNCHANGED <<vars, pending, armed, crewVars, spent>>

FetchSpent ==
  /\ Hgoto("spent", "spend")
  /\ spent' = [r \in Runs |-> runs[r].spent]
  /\ UNCHANGED <<vars, pending, armed, crewVars, verdict>>

CheckSpend ==
  /\ Hgoto("spend", "reported")
  /\ verdict' = [verdict EXCEPT !.spend = \A r \in Runs : spend_consistency(spent[r], events[r])]
  /\ UNCHANGED <<vars, pending, armed, crewVars, spent>>

\* Mutant: any(...) instead of all(...).
passedAny == verdict.termination \/ verdict.integrity \/ verdict.spend

\* ChaosReport.passed; the command's exit code is 0 exactly then.
passed == verdict.termination /\ verdict.integrity /\ verdict.spend

Harness ==
  \/ EnterTry \/ SpawnWorker \/ (\E kind \in plan : ApplyFault(kind))
  \/ (\E S \in SUBSET crew : Supervise(S)) \/ Query \/ LoopRaises
  \/ (\E w \in Workers : Visit(w)) \/ KillVisited \/ ShutdownEnds \/ Raises
  \/ CheckTermination \/ CheckIntegrity \/ FetchSpent \/ CheckSpend

ChaosNext ==
  \/ Harness
  \/ \E r \in Runs : SubmitRuns(r)
  \/ \E w \in Workers : LateCommit(w)
  \/ /\ \/ \E w \in Workers :
             \/ \E r \in Runs : Claim(w, r)
             \/ Heartbeat(w) \/ HeartbeatLost(w) \/ Reap(w) \/ TaskStep(w)
        \/ Tick
     /\ UNCHANGED chaosVars

\* Workers are fair as in Engine; the supervisor's loop runs on, a suspended
\* worker is due some time, and the database ends its transactions. The timeout
\* need not come.
ChaosSpec ==
  /\ ChaosInit /\ [][ChaosNext]_allVars
  /\ WF_allVars(Harness) /\ \A r \in Runs : WF_allVars(SubmitRuns(r))
  /\ WF_allVars(Tick /\ UNCHANGED chaosVars)
  /\ \A w \in Workers :
       /\ WF_allVars((TaskStep(w) /\ UNCHANGED chaosVars) \/ LateCommit(w))
       /\ WF_allVars(Heartbeat(w) /\ UNCHANGED chaosVars)
       /\ WF_allVars(Reap(w) /\ UNCHANGED chaosVars)
       /\ WF_allVars((\E r \in Runs : Claim(w, r)) /\ UNCHANGED chaosVars)
       /\ SF_allVars(\E S \in SUBSET crew : w \in S /\ Supervise(S))
-----------------------------------------------------------------------------
\* A report says what is in the database, for good: PASS only if every run ended
\* and its log and spend are right, also with a COMMIT still under way when its
\* worker was killed; and FAIL, with the fence on, only after a timeout.
ReportTrue ==
  hpc = "reported" =>
    /\ passed => /\ \A r \in Runs : runs[r].status \in Terminal
                 /\ KeysContiguous /\ NoStaleWriter /\ SpendConsistency
    /\ ~passed => verdict.timedOut

\* However run_chaos ends, none of its workers is left, suspended ones included: a
\* worker that is alive is on the list the shutdown loop walks through. Only an
\* exception inside that loop leaves workers, those it had not come to or not killed.
NoOrphans ==
  /\ hpc = "reported" => \A w \in Workers : ~Alive(w)
  /\ hpc = "raised" => \A w \in Workers : Alive(w) => w \in todo \cup {cur}

\* A scenario ends without needing its timeout: killed workers are replaced,
\* suspended ones go on, and every run reaches a terminal status.
ScenarioEnds == <>(hpc \in {"reported", "raised"})
=============================================================================
