------------------------------- MODULE Engine -------------------------------
(***************************************************************************)
(* The durable step executor: PostgreSQL tables `runs`, `events` and       *)
(* `tasks`, and the worker processes that claim tasks with leases, replay  *)
(* a run's events, compute its next step and commit it in one transaction. *)
(* Sources: engine.py, leases.py, store.py.                                *)
(*                                                                         *)
(* What the database does in one transaction without releasing a lock is   *)
(* one action; commit_step is three (BEGIN, the fence check that locks the *)
(* task row, the rest up to COMMIT), because time passes and other workers *)
(* act between them.                                                       *)
(*                                                                         *)
(* Timestamps are kept relative to now(): tasks[r].left is                 *)
(* lease_expires_at - now() and tasks[r].wait is available_at - now(), in  *)
(* ticks, cut off one tick below (above) the point where they stop         *)
(* mattering, so that time is unbounded and the state space is not.        *)
(* Amounts of money are counted in half micro-dollars, half of the last    *)
(* digit the column runs.spent_usd keeps.                                  *)
(***************************************************************************)
EXTENDS Integers, Sequences

CONSTANTS
  Runs,        \* the runs that may be submitted; each has exactly one task
  Workers,     \* worker processes
  Ids,         \* worker names (--id); the default is worker-<pid>, so two
  WorkerId,    \* processes may share one: WorkerId[w] is the name of w
  NULL,        \* SQL's NULL and Python's None
  TaskSpec,    \* TaskSpec[r]: the run's kind and its steps (agent: max_steps)
  Costs,       \* what one step may cost
  Fencing,     \* FALSE: PHOENIX_UNSAFE_NO_FENCING=1
  Lease,       \* lease_seconds, in ticks
  Backoff,     \* retry_backoff, in ticks
  MaxAttempts, \* run_worker's max_attempts
  \* Bounds of the model: how many faults of each kind a behaviour has.
  MaxCrashes, MaxPauses, MaxLapses, MaxDbErrors, MaxReaperErrors

ASSUME ConstantsAssumption ==
  /\ NULL \notin Runs \cup Workers \cup Ids
  /\ WorkerId \in [Workers -> Ids]
  /\ TaskSpec \in [Runs -> [kind: {"toy", "agent", "unknown"}, steps: Nat]]
  /\ Costs \subseteq Nat
  /\ Fencing \in BOOLEAN
  /\ Lease \in Nat \ {0}
  /\ Backoff \in Nat
  /\ MaxAttempts \in Nat
  /\ {MaxCrashes, MaxPauses, MaxLapses, MaxDbErrors, MaxReaperErrors} \subseteq Nat

VARIABLES
  runs,     \* runs[r]: the row of table runs (status, spent_usd)
  events,   \* events[r]: the rows of table events of run r, ordered by seq
  tasks,    \* tasks[r]: the row of table tasks of run r
  lock,     \* lock[r]: the worker whose open transaction locks that row
  proc,     \* proc[w]: the operating system's view of the process
  pc,       \* pc[w]: where run_worker and the task it awaits are
  job,      \* job[w]: the Claim and the local variables of that task
  reaper,   \* reaper[w]: is the worker's reaper loop still running
  faults    \* how many faults of each kind have happened

dbVars == <<runs, events, tasks, lock>>
workerVars == <<proc, pc, job, reaper>>
vars == <<dbVars, workerVars, faults>>

Terminal == {"succeeded", "failed", "budget_exceeded"}
RunStatus == {"absent", "pending", "running"} \cup Terminal
PCs == {"poll", "read", "exec", "begin", "check", "append", "error"}

StepOutcome == [cost: Nat, final: BOOLEAN, status: Terminal]
Event == [key: Nat, attempt: Nat, cost: Nat, final: BOOLEAN]
Run == [status: RunStatus, spent: Nat]
Task == [status: {"none", "queued", "leased", "done"}, owner: Ids \cup {NULL},
         attempt: Nat, left: Int, wait: Nat]
Job == [run: Runs \cup {NULL}, attempt: Nat, idx: Nat, out: StepOutcome,
        fresh: BOOLEAN, fatal: BOOLEAN, handling: BOOLEAN]
FaultKinds == {"crash", "pause", "lapse", "db", "reaper"}

NoOutcome == [cost |-> 0, final |-> FALSE, status |-> "succeeded"]
NoJob == [run |-> NULL, attempt |-> 0, idx |-> 0, out |-> NoOutcome,
          fresh |-> FALSE, fatal |-> FALSE, handling |-> FALSE]
-----------------------------------------------------------------------------
\* Mutant: the column as migration 001 made it, NUMERIC(10,4).
Numeric4(amount) == ((amount + 100) \div 200) * 200

\* NUMERIC(12,6) rounds what is stored in it to a whole micro-dollar, half up.
Numeric6(amount) == ((amount + 1) \div 2) * 2

\* ToyWorkflow.next_step: `steps` equal steps, the last one final.
ToyOutcomes(r, i) ==
  {[cost |-> c, final |-> i = TaskSpec[r].steps - 1, status |-> "succeeded"] : c \in Costs}

\* AgentWorkflow.next_step as the engine sees it: a limit ends the run with an
\* event that costs nothing, otherwise the model's action is a step or `finish`.
AgentOutcomes(r, i) ==
  {[cost |-> 0, final |-> TRUE, status |-> s] : s \in {"failed", "budget_exceeded"}}
    \cup IF i >= TaskSpec[r].steps THEN {}
         ELSE [cost: Costs, final: BOOLEAN, status: {"succeeded"}]

\* workflow_for: an unknown kind has no workflow, it raises.
Outcomes(r, i) ==
  CASE TaskSpec[r].kind = "toy" -> ToyOutcomes(r, i)
    [] TaskSpec[r].kind = "agent" -> AgentOutcomes(r, i)
    [] OTHER -> {}

Up(w) == proc[w] = "up"

\* Mutant: the fencing token is not compared.
HoldsByOwner(w, r) == tasks[r].status = "leased" /\ tasks[r].owner = WorkerId[w]

\* The WHERE clause on tasks that heartbeat, release_task and assert_lease share.
Holds(w, r) ==
  /\ tasks[r].status = "leased"
  /\ tasks[r].owner = WorkerId[w]
  /\ tasks[r].attempt = job[w].attempt

Unlocked(r) == lock[r] = NULL

\* The heartbeat task of w's claim on r is running and keeps the lease alive.
Beating(w, r) == w \in Workers /\ Up(w) /\ pc[w] # "poll" /\ job[w].run = r /\ Holds(w, r)

Goto(w, label) == pc' = [pc EXCEPT ![w] = label]
\* Back to run_worker's loop: the claim and its local variables are gone.
BackToPoll(w) == Goto(w, "poll") /\ job' = [job EXCEPT ![w] = NoJob]

CountFault(kind, bound) ==
  /\ faults[kind] < bound
  /\ faults' = [faults EXCEPT ![kind] = @ + 1]

Init ==
  /\ runs = [r \in Runs |-> [status |-> "absent", spent |-> 0]]
  /\ events = [r \in Runs |-> <<>>]
  /\ tasks = [r \in Runs |-> [status |-> "none", owner |-> NULL, attempt |-> 0,
                              left |-> -1, wait |-> 0]]
  /\ lock = [r \in Runs |-> NULL]
  /\ proc = [w \in Workers |-> "up"]
  /\ pc = [w \in Workers |-> "poll"]
  /\ job = [w \in Workers |-> NoJob]
  /\ reaper = [w \in Workers |-> TRUE]
  /\ faults = [k \in FaultKinds |-> 0]
-----------------------------------------------------------------------------
\* Mutant: a task's status is written to the run.
SubmitAsQueued(r) ==
  /\ runs[r].status = "absent"
  /\ runs' = [runs EXCEPT ![r].status = "queued"]
  /\ tasks' = [tasks EXCEPT ![r].status = "queued"]
  /\ UNCHANGED <<events, lock, workerVars, faults>>

\* submit_run: the run and its task in one transaction.
Submit(r) ==
  /\ runs[r].status = "absent"
  /\ runs' = [runs EXCEPT ![r].status = "pending"]
  /\ tasks' = [tasks EXCEPT ![r].status = "queued"]
  /\ UNCHANGED <<events, lock, workerVars, faults>>

\* Mutant: the token counts errors, not claims (it stays as it is here).
ClaimSameToken(w, r) ==
  /\ Up(w) /\ pc[w] = "poll"
  /\ tasks[r].status = "queued" /\ tasks[r].wait = 0 /\ Unlocked(r)
  /\ tasks' = [tasks EXCEPT ![r].status = "leased", ![r].owner = WorkerId[w], ![r].left = Lease]
  /\ runs' = [runs EXCEPT ![r].status = IF @ = "pending" THEN "running" ELSE @]
  /\ Goto(w, "read")
  /\ job' = [job EXCEPT ![w] = [NoJob EXCEPT !.run = r, !.attempt = tasks[r].attempt]]
  /\ UNCHANGED <<events, lock, proc, reaper, faults>>

\* claim_task: any available queued row nobody has locked (SKIP LOCKED).
Claim(w, r) ==
  /\ Up(w) /\ pc[w] = "poll"
  /\ tasks[r].status = "queued" /\ tasks[r].wait = 0 /\ Unlocked(r)
  /\ tasks' = [tasks EXCEPT ![r] = [status |-> "leased", owner |-> WorkerId[w],
                                    attempt |-> @.attempt + 1, left |-> Lease, wait |-> 0]]
  /\ runs' = [runs EXCEPT ![r].status = IF @ = "pending" THEN "running" ELSE @]
  /\ Goto(w, "read")
  /\ job' = [job EXCEPT ![w] = [NoJob EXCEPT !.run = r, !.attempt = tasks[r].attempt + 1]]
  /\ UNCHANGED <<events, lock, proc, reaper, faults>>

\* _heartbeat_loop, lease still held: extend it. Waits for the row lock.
Heartbeat(w) ==
  /\ Up(w) /\ pc[w] # "poll"
  /\ LET r == job[w].run IN
       /\ Unlocked(r) /\ Holds(w, r) /\ tasks[r].left > 0
       /\ tasks' = [tasks EXCEPT ![r].left = Lease]
  /\ UNCHANGED <<runs, events, lock, workerVars, faults>>

\* _heartbeat_loop, lease lost: cancel execute_task (an open transaction rolls
\* back). While _handle_error runs there is nothing left to cancel.
HeartbeatLost(w) ==
  /\ Fencing
  /\ Up(w) /\ pc[w] # "poll" /\ ~job[w].handling /\ pc[w] # "error"
  /\ Unlocked(job[w].run)
  /\ ~(Holds(w, job[w].run) /\ tasks[job[w].run].left > 0)
  /\ BackToPoll(w)
  /\ UNCHANGED <<dbVars, proc, reaper, faults>>

\* Mutant: done tasks have an expiry too, and are not left out.
ExpiredAnyStatus == {r \in Runs : tasks[r].status # "queued" /\ tasks[r].attempt > 0
                                   /\ tasks[r].left < 0 /\ Unlocked(r)}

\* The rows reap_expired's subquery returns.
Expired == {r \in Runs : tasks[r].status = "leased" /\ tasks[r].left < 0 /\ Unlocked(r)}

\* Mutant: a reaper requeues only tasks leased under its own name.
ReapOwn(w) ==
  LET own == {r \in Expired : tasks[r].owner = WorkerId[w]} IN
  /\ Up(w) /\ reaper[w]
  /\ own # {}
  /\ tasks' = [r \in Runs |->
                 IF r \in own
                 THEN [tasks[r] EXCEPT !.status = "queued", !.owner = NULL, !.left = -1]
                 ELSE tasks[r]]
  /\ UNCHANGED <<runs, events, lock, workerVars, faults>>

\* reap_expired, called by w's reaper loop.
Reap(w) ==
  /\ Up(w) /\ reaper[w]
  /\ Expired # {}
  /\ tasks' = [r \in Runs |->
                 IF r \in Expired
                 THEN [tasks[r] EXCEPT !.status = "queued", !.owner = NULL, !.left = -1]
                 ELSE tasks[r]]
  /\ UNCHANGED <<runs, events, lock, workerVars, faults>>

\* An exception in _reaper_loop ends the loop; run_worker does not look at it.
ReaperDies(w) ==
  /\ Up(w) /\ reaper[w]
  /\ CountFault("reaper", MaxReaperErrors)
  /\ reaper' = [reaper EXCEPT ![w] = FALSE]
  /\ UNCHANGED <<dbVars, proc, pc, job>>
-----------------------------------------------------------------------------
\* execute_task: replay the events; the step to run is the next one.
ReadEvents(w) ==
  /\ Up(w) /\ pc[w] = "read"
  /\ job' = [job EXCEPT ![w].idx = Len(events[job[w].run])]
  /\ Goto(w, "exec")
  /\ UNCHANGED <<dbVars, proc, reaper, faults>>

\* workflow.next_step returned an outcome.
NextStep(w) ==
  /\ Up(w) /\ pc[w] = "exec"
  /\ \E o \in Outcomes(job[w].run, job[w].idx) : job' = [job EXCEPT ![w].out = o]
  /\ Goto(w, "begin")
  /\ UNCHANGED <<dbVars, proc, reaper, faults>>

\* Reading the events or workflow.next_step raised (`fatal`: a used-up quota).
StepRaises(w, fatal) ==
  /\ Up(w) /\ pc[w] \in {"read", "exec"}
  /\ job' = [job EXCEPT ![w].fatal = fatal]
  /\ Goto(w, "error")
  /\ UNCHANGED <<dbVars, proc, reaper, faults>>

\* commit_step, BEGIN: now() in the fence check will be this moment. A lease of
\* this claim that was alive at it only gets longer, one that had expired stays so.
Begin(w) ==
  /\ Up(w) /\ pc[w] = "begin"
  /\ job' = [job EXCEPT ![w].fresh = tasks[job[w].run].left > 0]
  /\ Goto(w, "check")
  /\ UNCHANGED <<dbVars, proc, reaper, faults>>

\* Mutant: the check without FOR UPDATE.
AssertLeaseNoLock(w) ==
  /\ Up(w) /\ pc[w] = "check" /\ Unlocked(job[w].run)
  /\ \/ /\ ~Fencing \/ (Holds(w, job[w].run) /\ job[w].fresh)
        /\ Goto(w, "append")
        /\ UNCHANGED job
     \/ /\ Fencing /\ ~(Holds(w, job[w].run) /\ job[w].fresh)
        /\ BackToPoll(w)
  /\ UNCHANGED <<dbVars, proc, reaper, faults>>

\* commit_step, assert_lease: SELECT ... FOR UPDATE locks the row it finds;
\* finding none raises LeaseLostError, which ends the task in either caller.
AssertLease(w) ==
  /\ Up(w) /\ pc[w] = "check"
  /\ LET r == job[w].run IN
       \/ /\ ~Fencing
          /\ Goto(w, "append")
          /\ UNCHANGED <<lock, job>>
       \/ /\ Fencing /\ Unlocked(r) /\ Holds(w, r) /\ job[w].fresh
          /\ lock' = [lock EXCEPT ![r] = w]
          /\ Goto(w, "append")
          /\ UNCHANGED job
       \/ /\ Fencing /\ Unlocked(r) /\ ~(Holds(w, r) /\ job[w].fresh)
          /\ BackToPoll(w)
          /\ UNCHANGED lock
  /\ UNCHANGED <<runs, events, tasks, proc, reaper, faults>>

\* Mutant: the look-up of the idempotency key is gone.
InsertedAlways(w) == job[w].run \in Runs

\* append_event found no event with this step's key.
Inserted(w) == \A k \in DOMAIN events[job[w].run] : events[job[w].run][k].key # job[w].idx

\* Mutant: the final step completes the run and forgets the task.
CommitEffectTaskLeft(w) ==
  LET r == job[w].run
      o == job[w].out
  IN /\ events' = [events EXCEPT ![r] =
                     Append(@, [key |-> job[w].idx, attempt |-> job[w].attempt,
                                cost |-> o.cost, final |-> o.final])]
     /\ runs' = [runs EXCEPT ![r].spent = Numeric6(@ + o.cost),
                             ![r].status = IF o.final THEN o.status ELSE @]
     /\ lock' = [lock EXCEPT ![r] = NULL]
     /\ UNCHANGED tasks

\* commit_step from append_event to COMMIT: the event, the spend and, for the
\* final step, the task and the run. An already committed step changes nothing.
CommitEffect(w) ==
  LET r == job[w].run
      o == job[w].out
  IN /\ IF Inserted(w)
        THEN /\ events' = [events EXCEPT ![r] =
                             Append(@, [key |-> job[w].idx, attempt |-> job[w].attempt,
                                        cost |-> o.cost, final |-> o.final])]
             /\ runs' = [runs EXCEPT
                           ![r].spent = Numeric6(@ + o.cost),
                           ![r].status = IF o.final THEN o.status ELSE @]
             /\ tasks' = [tasks EXCEPT ![r].status = IF o.final THEN "done" ELSE @]
        ELSE UNCHANGED <<events, runs, tasks>>
     /\ lock' = [lock EXCEPT ![r] = NULL]

\* commit_step returned: execute_task stops after a final outcome, whether or
\* not it was inserted, and _handle_error has nothing more to do.
Commit(w) ==
  /\ Up(w) /\ pc[w] = "append"
  /\ CommitEffect(w)
  /\ IF job[w].out.final THEN BackToPoll(w)
     ELSE /\ Goto(w, "read")
          /\ job' = [job EXCEPT ![w] = [NoJob EXCEPT !.run = job[w].run, !.attempt = job[w].attempt]]
  /\ UNCHANGED <<proc, reaper, faults>>

\* Where run_worker catches no exception: in claim_task and in _handle_error.
Unguarded(w) == pc[w] \in {"poll", "error"} \/ job[w].handling

\* A database error goes to _handle_error or, where nothing catches it, out of
\* run_worker: the process ends.
Raise(w) ==
  IF Unguarded(w)
  THEN /\ proc' = [proc EXCEPT ![w] = "dead"]
       /\ BackToPoll(w)
  ELSE /\ Goto(w, "error")
       /\ UNCHANGED <<proc, job>>

\* A statement failed and its transaction rolled back. (Reading the events is
\* part of StepRaises, the reaper's statement of ReaperDies.)
DbError(w) ==
  /\ Up(w) /\ pc[w] \in {"poll", "error", "begin", "check", "append"}
  /\ CountFault("db", MaxDbErrors)
  /\ lock' = [r \in Runs |-> IF lock[r] = w THEN NULL ELSE lock[r]]
  /\ Raise(w)
  /\ UNCHANGED <<runs, events, tasks, reaper>>

\* The transaction committed but the connection broke before the worker knew.
CommitAckLost(w) ==
  /\ Up(w) /\ pc[w] = "append"
  /\ CountFault("db", MaxDbErrors)
  /\ CommitEffect(w)
  /\ Raise(w)
  /\ UNCHANGED reaper

\* Mutant: an error is always retried.
ReleaseTaskAlways(w) ==
  /\ Up(w) /\ pc[w] = "error"
  /\ LET r == job[w].run IN
       /\ Unlocked(r)
       /\ tasks' = IF Holds(w, r)
                   THEN [tasks EXCEPT ![r].status = "queued", ![r].owner = NULL,
                                      ![r].left = -1, ![r].wait = Backoff]
                   ELSE tasks
  /\ BackToPoll(w)
  /\ UNCHANGED <<runs, events, lock, proc, reaper, faults>>

\* _handle_error with attempts left: release_task, if the claim is still held.
ReleaseTask(w) ==
  /\ Up(w) /\ pc[w] = "error"
  /\ job[w].attempt < MaxAttempts /\ ~job[w].fatal
  /\ LET r == job[w].run IN
       /\ Unlocked(r)
       /\ tasks' = IF Holds(w, r)
                   THEN [tasks EXCEPT ![r].status = "queued", ![r].owner = NULL,
                                      ![r].left = -1, ![r].wait = Backoff]
                   ELSE tasks
  /\ BackToPoll(w)
  /\ UNCHANGED <<runs, events, lock, proc, reaper, faults>>

\* _handle_error without: count the events and commit a final `failed` event.
FailRun(w) ==
  /\ Up(w) /\ pc[w] = "error"
  /\ ~(job[w].attempt < MaxAttempts /\ ~job[w].fatal)
  /\ job' = [job EXCEPT ![w].idx = Len(events[job[w].run]), ![w].handling = TRUE,
                        ![w].out = [cost |-> 0, final |-> TRUE, status |-> "failed"]]
  /\ Goto(w, "begin")
  /\ UNCHANGED <<dbVars, proc, reaper, faults>>
-----------------------------------------------------------------------------
Aged(t) == [t EXCEPT !.left = IF @ >= 0 THEN @ - 1 ELSE @,
                     !.wait = IF @ > 0 THEN @ - 1 ELSE @]

\* Time passes. A running worker renews its lease three times per lease length,
\* so a lease lapses under it only if it is delayed: see Lapse.
TimePasses == tasks' = [r \in Runs |-> Aged(tasks[r])]

LapsingUnderHolder == \E r \in Runs, w \in Workers : tasks[r].left = 1 /\ Beating(w, r)

Tick ==
  /\ ~LapsingUnderHolder
  /\ TimePasses
  /\ UNCHANGED <<runs, events, lock, workerVars, faults>>

\* A lease ends although its holder runs: a late heartbeat, or one that failed.
Lapse ==
  /\ LapsingUnderHolder
  /\ CountFault("lapse", MaxLapses)
  /\ TimePasses
  /\ UNCHANGED <<runs, events, lock, workerVars>>

\* kill -9: no cleanup; the server rolls back the open transaction.
Crash(w) ==
  /\ proc[w] # "dead"
  /\ CountFault("crash", MaxCrashes)
  /\ proc' = [proc EXCEPT ![w] = "dead"]
  /\ BackToPoll(w)
  /\ lock' = [r \in Runs |-> IF lock[r] = w THEN NULL ELSE lock[r]]
  /\ UNCHANGED <<runs, events, tasks, reaper>>

\* A supervisor starts a worker process under the same id.
Restart(w) ==
  /\ proc[w] = "dead"
  /\ proc' = [proc EXCEPT ![w] = "up"]
  /\ reaper' = [reaper EXCEPT ![w] = TRUE]
  /\ UNCHANGED <<dbVars, pc, job, faults>>

\* SIGSTOP and SIGCONT. A stopped process keeps its transaction and its locks.
Pause(w) ==
  /\ Up(w)
  /\ CountFault("pause", MaxPauses)
  /\ proc' = [proc EXCEPT ![w] = "paused"]
  /\ UNCHANGED <<dbVars, pc, job, reaper>>

Resume(w) ==
  /\ proc[w] = "paused"
  /\ proc' = [proc EXCEPT ![w] = "up"]
  /\ UNCHANGED <<dbVars, pc, job, reaper, faults>>
-----------------------------------------------------------------------------
\* execute_task and _handle_error: what the claim's own coroutine does.
TaskStep(w) ==
  \/ ReadEvents(w) \/ NextStep(w) \/ \E fatal \in BOOLEAN : StepRaises(w, fatal)
  \/ Begin(w) \/ AssertLease(w) \/ Commit(w) \/ ReleaseTask(w) \/ FailRun(w)

Fault(w) ==
  \/ DbError(w) \/ CommitAckLost(w) \/ ReaperDies(w)
  \/ Crash(w) \/ Restart(w) \/ Pause(w)

Next ==
  \/ \E r \in Runs : Submit(r)
  \/ \E w \in Workers :
       \/ \E r \in Runs : Claim(w, r)
       \/ Heartbeat(w) \/ HeartbeatLost(w) \/ Reap(w)
       \/ TaskStep(w) \/ Resume(w) \/ Fault(w)
  \/ Tick \/ Lapse

Spec == Init /\ [][Next]_vars

\* A worker that is up goes on: each step of a task returns (the model's and the
\* sandbox's calls have timeouts), the heartbeat, the reaper and the polling loop
\* are asyncio tasks that wake up again, and a stopped process is continued.
\* Nobody has to restart a dead worker.
WorkerFairness(w) ==
  /\ WF_vars(TaskStep(w))
  /\ WF_vars(Heartbeat(w))
  /\ WF_vars(Reap(w))
  /\ WF_vars(\E r \in Runs : Claim(w, r))

FairSpec ==
  /\ Spec
  /\ WF_vars(Tick)
  /\ \A w \in Workers : WorkerFairness(w) /\ WF_vars(Resume(w))
-----------------------------------------------------------------------------
\* The type invariant.
TypeOK ==
  /\ runs \in [Runs -> Run]
  /\ events \in [Runs -> Seq(Event)]
  /\ tasks \in [Runs -> Task]
  /\ lock \in [Runs -> Workers \cup {NULL}]
  /\ proc \in [Workers -> {"up", "paused", "dead"}]
  /\ pc \in [Workers -> PCs]
  /\ job \in [Workers -> Job]
  /\ reaper \in [Workers -> BOOLEAN]
  /\ faults \in [FaultKinds -> Nat]

\* Step keys are run:0 .. run:n-1 in log order, without gap or duplicate: the
\* first half of chaos invariant 2 (log_integrity). append_event alone gives it.
KeysContiguous ==
  \A r \in Runs : \A k \in DOMAIN events[r] : events[r][k].key = k - 1

\* The attempts that wrote a run's log never go backwards and nothing follows
\* the final event: the second half of chaos invariant 2. It needs the fence.
NoStaleWriter ==
  \A r \in Runs : \A j, k \in DOMAIN events[r] :
    j < k => events[r][j].attempt <= events[r][k].attempt /\ ~events[r][j].final

\* A worker inside commit_step past the fence is alone there for its run, still
\* owns the task, and the log has not grown since execute_task replayed it: the
\* step it inserts was computed from the whole log and is never a no-op.
CommitsFromFullReplay ==
  \A w \in Workers : pc[w] = "append" =>
    /\ Holds(w, job[w].run)
    /\ job[w].idx = Len(events[job[w].run])
    /\ \A v \in Workers \ {w} : pc[v] = "append" => job[v].run # job[w].run

\* Two claims of one task never carry the same fencing token, and none carries
\* one that was not handed out (leases.py: attempt strictly increases).
TokensUnique ==
  \A w \in Workers : pc[w] # "poll" =>
    /\ job[w].attempt \in 1..tasks[job[w].run].attempt
    /\ \A v \in Workers \ {w} :
         job[v].run = job[w].run => job[v].attempt # job[w].attempt

Finished(log) == log # <<>> /\ log[Len(log)].final

\* The three tables tell the same story: no run without a task (submit_run),
\* running exactly between the first claim and the final step, and task, run and
\* log finish together (commit_step).
TablesAgree ==
  \A r \in Runs :
    /\ tasks[r].status = "none" <=> runs[r].status = "absent"
    /\ tasks[r].status = "done" <=> runs[r].status \in Terminal
    /\ tasks[r].status = "done" <=> Finished(events[r])
    /\ runs[r].status = "pending" <=> (tasks[r].status = "queued" /\ tasks[r].attempt = 0)

\* The costs recorded in a log, added up.
Recorded(log) ==
  LET sum[k \in 0..Len(log)] == IF k = 0 THEN 0 ELSE sum[k - 1] + log[k].cost
  IN sum[Len(log)]

\* Chaos invariant 4 (spend_consistency): runs.spent_usd is the sum of the costs
\* in the run's events, through retries, lost acknowledgements and takeovers.
SpendConsistency == \A r \in Runs : runs[r].spent = Recorded(events[r])

\* What keeps a run from being claimed for ever: a claim beyond the first
\* max_attempts is due to a fault, one for each, because an error is answered by at
\* most that many claims (_handle_error's "until max_attempts, then fail").
ExtraClaimsNeedFaults ==
  \A r \in Runs :
    tasks[r].attempt <= MaxAttempts + faults["crash"] + faults["pause"] + faults["lapse"] + faults["db"]

\* README: "A run that keeps crashing its worker is retried up to 5 times, then
\* failed". After the first claim and max_attempts retries it is not claimed again.
RetriedThenFailed == \A r \in Runs : tasks[r].attempt <= MaxAttempts + 1

\* A finished run stays as it is: whatever a late worker does, its row, its log
\* and its task no longer change.
TerminalIsForever ==
  [][\A r \in Runs : runs[r].status \in Terminal =>
       /\ runs'[r] = runs[r]
       /\ events'[r] = events[r]
       /\ tasks'[r].status = "done" /\ tasks'[r].attempt = tasks[r].attempt]_vars

\* Every submitted run reaches a terminal status (chaos invariant 1).
RunsTerminate ==
  \A r \in Runs : runs[r].status = "pending" ~> runs[r].status \in Terminal

\* The engine implements the single-writer log: runs, events and the lease are
\* the log's status, entries and token; workers, clocks and locks disappear.
Log == INSTANCE RunLog WITH
         Costs <- Costs \cup {0},
         status <- [r \in Runs |-> runs[r].status],
         log <- events,
         token <- [r \in Runs |-> tasks[r].attempt],
         held <- [r \in Runs |-> tasks[r].status = "leased"]

\* Every behaviour of the fenced engine, with all its faults, is a behaviour of
\* RunLog: a zombie, a repeated or an unacknowledged commit is never visible.
ImplementsRunLog == Log!Spec
=============================================================================
