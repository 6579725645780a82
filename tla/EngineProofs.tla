---------------------------- MODULE EngineProofs ----------------------------
(***************************************************************************)
(* Proofs about Engine, for any runs, workers, worker names, costs, lease  *)
(* lengths and numbers of faults. First what holds fenced or not (types,   *)
(* keys, spend, the chaos checkers' answers), then what the fence gives.   *)
(***************************************************************************)
EXTENDS EngineChecks, InductionFacts

\* What a step may return is an outcome commit_step can commit (workflow_for).
LEMMA OutcomesType ==
  ASSUME NEW r \in Runs, NEW i \in Nat
  PROVE  Outcomes(r, i) \subseteq StepOutcome
<1> USE ConstantsAssumption DEF StepOutcome, Terminal
<1>1. ToyOutcomes(r, i) \subseteq StepOutcome
  <2> DEFINE last == i = TaskSpec[r].steps - 1
  <2>1. last \in BOOLEAN
    OBVIOUS
  <2> HIDE DEF last
  <2>2. \A c \in Costs :
          [cost |-> c, final |-> last, status |-> "succeeded"] \in StepOutcome
    BY <2>1
  <2>3. ToyOutcomes(r, i) =
          {[cost |-> c, final |-> last, status |-> "succeeded"] : c \in Costs}
    BY DEF ToyOutcomes, last
  <2> QED
    BY <2>2, <2>3
<1>2. AgentOutcomes(r, i) \subseteq StepOutcome
  <2>1. [cost |-> 0, final |-> TRUE, status |-> "failed"] \in StepOutcome
    OBVIOUS
  <2>2. [cost |-> 0, final |-> TRUE, status |-> "budget_exceeded"] \in StepOutcome
    OBVIOUS
  <2>3. [cost: Costs, final: BOOLEAN, status: {"succeeded"}] \subseteq StepOutcome
    OBVIOUS
  <2> QED
    BY <2>1, <2>2, <2>3, Zenon DEF AgentOutcomes
<1> QED
  BY <1>1, <1>2 DEF Outcomes

\* Rounding to NUMERIC(12,6) keeps amounts natural numbers (commit_step's spend).
LEMMA Numeric6Type ==
  ASSUME NEW x \in Nat
  PROVE  Numeric6(x) \in Nat
  BY DEF Numeric6

LEMMA NoJobType == NoJob \in Job
  BY DEF NoJob, NoOutcome, Job, StepOutcome, Terminal

\* A requeued row is a row (reap_expired, release_task).
LEMMA RequeuedType ==
  ASSUME NEW t \in Task, NEW n \in Nat
  PROVE  /\ [t EXCEPT !.status = "queued", !.owner = NULL, !.left = -1] \in Task
         /\ [t EXCEPT !.status = "queued", !.owner = NULL, !.left = -1, !.wait = n] \in Task
<1>1. -1 \in Int
  OBVIOUS
<1> DEFINE minusOne == -1
<1> HIDE DEF minusOne
<1>2. minusOne \in Int
  BY <1>1 DEF minusOne
<1>3. [t EXCEPT !.status = "queued", !.owner = NULL, !.left = minusOne] \in Task
  BY <1>2 DEF Task
<1>4. [t EXCEPT !.status = "queued", !.owner = NULL, !.left = minusOne, !.wait = n] \in Task
  BY <1>2 DEF Task
<1> QED
  BY <1>3, <1>4 DEF minusOne

\* A worker that is not polling has claimed a run (run_worker).
JobOwned == \A w \in Workers : pc[w] # "poll" => job[w].run \in Runs

\* The event that commit_step appends.
NewEvent(w) == [key |-> job[w].idx, attempt |-> job[w].attempt,
                cost |-> job[w].out.cost, final |-> job[w].out.final]

\* The database part of a commit keeps the tables' types (commit_step).
LEMMA CommitEffectType ==
  ASSUME TypeOK, NEW w \in Workers, job[w].run \in Runs, CommitEffect(w)
  PROVE  /\ runs' \in [Runs -> Run]
         /\ events' \in [Runs -> Seq(Event)]
         /\ tasks' \in [Runs -> Task]
         /\ lock' \in [Runs -> Workers \cup {NULL}]
<1> DEFINE r == job[w].run
           o == job[w].out
<1>1. /\ o \in StepOutcome /\ job[w].idx \in Nat /\ job[w].attempt \in Nat
  BY DEF TypeOK, Job
<1>2. lock' \in [Runs -> Workers \cup {NULL}]
  BY DEF CommitEffect, TypeOK
<1>3. CASE ~Inserted(w)
  BY <1>2, <1>3 DEF CommitEffect, TypeOK
<1>4. CASE Inserted(w)
  <2>1. events' = [events EXCEPT ![r] = Append(events[r], NewEvent(w))]
    BY <1>4 DEF CommitEffect, NewEvent
  <2>2. NewEvent(w) \in Event
    BY <1>1 DEF Event, StepOutcome, NewEvent
  <2>3. events' \in [Runs -> Seq(Event)]
    <3> HIDE DEF r
    <3>1. events \in [Runs -> Seq(Event)] /\ r \in Runs
      BY DEF TypeOK, r
    <3>2. Append(events[r], NewEvent(w)) \in Seq(Event)
      BY <3>1, <2>2
    <3> QED
      BY <2>1, <3>1, <3>2
  <2>4. runs' \in [Runs -> Run]
    <3>1. runs[r].spent + o.cost \in Nat
      BY <1>1 DEF TypeOK, Run, StepOutcome
    <3>2. Numeric6(runs[r].spent + o.cost) \in Nat
      BY <3>1, Numeric6Type
    <3>3. runs' = [runs EXCEPT ![r].spent = Numeric6(runs[r].spent + o.cost),
                               ![r].status = IF o.final THEN o.status ELSE runs[r].status]
      BY <1>4 DEF CommitEffect
    <3>4. (IF o.final THEN o.status ELSE runs[r].status) \in RunStatus
      BY <1>1 DEF TypeOK, Run, RunStatus, StepOutcome
    <3> HIDE DEF r, o
    <3>5. runs \in [Runs -> Run] /\ r \in Runs
      BY DEF TypeOK, r
    <3> QED
      BY <3>2, <3>3, <3>4, <3>5 DEF Run
  <2>5. tasks' \in [Runs -> Task]
    <3>1. tasks' = [tasks EXCEPT ![r].status = IF o.final THEN "done" ELSE tasks[r].status]
      BY <1>4 DEF CommitEffect
    <3>2. /\ tasks \in [Runs -> Task] /\ r \in Runs
          /\ (IF o.final THEN "done" ELSE tasks[r].status) \in {"none", "queued", "leased", "done"}
      BY DEF TypeOK, Task
    <3> HIDE DEF r, o
    <3> QED
      BY <3>1, <3>2 DEF Task
  <2> QED
    BY <1>2, <2>3, <2>4, <2>5
<1> HIDE DEF r, o
<1> QED
  BY <1>3, <1>4 DEF TypeOK

\* A step keeps the types: the inductive half of TypeCorrect.
LEMMA TypeStep == TypeOK /\ JobOwned /\ [Next]_vars => TypeOK'
<1> SUFFICES ASSUME TypeOK, JobOwned, [Next]_vars PROVE TypeOK'
  OBVIOUS
<1>0. Lease \in Int /\ Backoff \in Nat /\ \A w \in Workers : WorkerId[w] \in Ids
  BY ConstantsAssumption
<1> USE DEF TypeOK, dbVars, workerVars, vars
<1>1. ASSUME NEW r \in Runs, Submit(r) PROVE TypeOK'
  BY <1>1 DEF Submit, Run, Task, RunStatus
<1>2. ASSUME NEW w \in Workers, NEW r \in Runs, Claim(w, r) PROVE TypeOK'
  <2>1. runs' \in [Runs -> Run]
    <3>1. (IF runs[r].status = "pending" THEN "running" ELSE runs[r].status) \in RunStatus
      BY DEF Run, RunStatus
    <3> QED
      BY <1>2, <3>1 DEF Claim, Run
  <2>2. tasks' \in [Runs -> Task]
    BY <1>0, <1>2 DEF Claim, Task
  <2>3. job' \in [Workers -> Job] /\ pc' \in [Workers -> PCs]
    <3>1. tasks[r].attempt + 1 \in Nat
      BY DEF Task
    <3>2. [NoJob EXCEPT !.run = r, !.attempt = tasks[r].attempt + 1] \in Job
      BY <3>1, NoJobType DEF Job
    <3> QED
      BY <1>2, <3>2 DEF Claim, Goto, PCs
  <2> QED
    BY <2>1, <2>2, <2>3, <1>2 DEF Claim
<1>3. ASSUME NEW w \in Workers, Heartbeat(w) PROVE TypeOK'
  BY <1>0, <1>3 DEF Heartbeat, Task, JobOwned
<1>4. ASSUME NEW w \in Workers, HeartbeatLost(w) PROVE TypeOK'
  BY <1>4, NoJobType DEF HeartbeatLost, BackToPoll, Goto, PCs
<1>5. ASSUME NEW w \in Workers, Reap(w) PROVE TypeOK'
  <2>1. \A r \in Runs :
          [tasks[r] EXCEPT !.status = "queued", !.owner = NULL, !.left = -1] \in Task
    BY <1>0, RequeuedType
  <2>2. tasks' \in [Runs -> Task]
    BY <1>5, <2>1 DEF Reap
  <2> QED
    BY <1>5, <2>2 DEF Reap
<1>6. ASSUME NEW w \in Workers, TaskStep(w) PROVE TypeOK'
  <2>1. CASE ReadEvents(w)
    <3>1. Len(events[job[w].run]) \in Nat
      BY <2>1 DEF ReadEvents, JobOwned
    <3> QED
      BY <2>1, <3>1 DEF ReadEvents, Job, Goto, PCs
  <2>2. CASE NextStep(w)
    <3>1. PICK o \in Outcomes(job[w].run, job[w].idx) :
            job' = [job EXCEPT ![w].out = o]
      BY <2>2 DEF NextStep
    <3>2. job[w].run \in Runs /\ job[w].idx \in Nat
      BY <2>2 DEF NextStep, JobOwned, Job
    <3>3. o \in StepOutcome
      BY <3>1, <3>2, OutcomesType
    <3> QED
      <4>1. [job[w] EXCEPT !.out = o] \in Job
        BY <3>3 DEF Job
      <4> QED
        BY <2>2, <3>1, <4>1 DEF NextStep, Goto, PCs
  <2>3. ASSUME NEW fatal \in BOOLEAN, StepRaises(w, fatal) PROVE TypeOK'
    BY <2>3 DEF StepRaises, Job, Goto, PCs
  <2>4. CASE Begin(w)
    <3>1. (tasks[job[w].run].left > 0) \in BOOLEAN
      OBVIOUS
    <3> QED
      BY <2>4, <3>1 DEF Begin, Job, Goto, PCs
  <2>5. CASE AssertLease(w)
    <3>1. lock' \in [Runs -> Workers \cup {NULL}]
      BY <2>5 DEF AssertLease
    <3>2. pc' \in [Workers -> PCs]
      BY <2>5 DEF AssertLease, BackToPoll, Goto, PCs
    <3>3. job' \in [Workers -> Job]
      BY <2>5, NoJobType DEF AssertLease, BackToPoll
    <3> QED
      BY <2>5, <3>1, <3>2, <3>3 DEF AssertLease
  <2>6. CASE Commit(w)
    <3>1. job' \in [Workers -> Job] /\ pc' \in [Workers -> PCs]
      <4>1. [NoJob EXCEPT !.run = job[w].run, !.attempt = job[w].attempt] \in Job
        BY NoJobType DEF Job
      <4> QED
        BY <2>6, <4>1, NoJobType DEF Commit, BackToPoll, Goto, PCs
    <3> QED
      BY <2>6, <3>1, CommitEffectType DEF Commit, JobOwned
  <2>7. CASE ReleaseTask(w)
    <3>1. tasks' \in [Runs -> Task]
      <4>1. job[w].run \in Runs
        BY <2>7 DEF ReleaseTask, JobOwned
      <4>2. [tasks[job[w].run] EXCEPT !.status = "queued", !.owner = NULL, !.left = -1,
                                      !.wait = Backoff] \in Task
        BY <1>0, <4>1, RequeuedType
      <4> QED
        BY <2>7, <4>1, <4>2 DEF ReleaseTask
    <3>2. job' \in [Workers -> Job] /\ pc' \in [Workers -> PCs]
      BY <2>7, NoJobType DEF ReleaseTask, BackToPoll, Goto, PCs
    <3> QED
      BY <2>7, <3>1, <3>2 DEF ReleaseTask
  <2>8. CASE FailRun(w)
    <3>1. /\ Len(events[job[w].run]) \in Nat
          /\ [cost |-> 0, final |-> TRUE, status |-> "failed"] \in StepOutcome
      BY <2>8 DEF FailRun, JobOwned, StepOutcome, Terminal
    <3> QED
      <4>1. [job[w] EXCEPT !.idx = Len(events[job[w].run]), !.handling = TRUE,
                !.out = [cost |-> 0, final |-> TRUE, status |-> "failed"]] \in Job
        BY <3>1 DEF Job
      <4> QED
        BY <2>8, <4>1 DEF FailRun, Goto, PCs
  <2> QED
    BY <1>6, <2>1, <2>2, <2>3, <2>4, <2>5, <2>6, <2>7, <2>8 DEF TaskStep
<1>7. ASSUME NEW w \in Workers, Fault(w) PROVE TypeOK'
  <2> USE DEF CountFault, FaultKinds
  <2>1. CASE DbError(w)
    <3>1. /\ job' \in [Workers -> Job] /\ pc' \in [Workers -> PCs]
          /\ proc' \in [Workers -> {"up", "paused", "dead"}]
      BY <2>1, NoJobType DEF DbError, Raise, BackToPoll, Goto, PCs
    <3>2. lock' \in [Runs -> Workers \cup {NULL}] /\ faults' \in [FaultKinds -> Nat]
      BY <2>1 DEF DbError
    <3> QED
      BY <2>1, <3>1, <3>2 DEF DbError
  <2>2. CASE CommitAckLost(w)
    <3>1. /\ job' \in [Workers -> Job] /\ pc' \in [Workers -> PCs]
          /\ proc' \in [Workers -> {"up", "paused", "dead"}]
      BY <2>2, NoJobType DEF CommitAckLost, Raise, BackToPoll, Goto, PCs
    <3>2. faults' \in [FaultKinds -> Nat]
      BY <2>2 DEF CommitAckLost
    <3> QED
      BY <2>2, <3>1, <3>2, CommitEffectType DEF CommitAckLost, JobOwned
  <2>3. CASE ReaperDies(w)
    BY <2>3 DEF ReaperDies
  <2>4. CASE Crash(w)
    BY <2>4, NoJobType DEF Crash, BackToPoll, Goto, PCs
  <2>5. CASE Restart(w)
    BY <2>5 DEF Restart
  <2>6. CASE Pause(w)
    BY <2>6 DEF Pause
  <2> QED
    BY <1>7, <2>1, <2>2, <2>3, <2>4, <2>5, <2>6 DEF Fault
<1>8. ASSUME NEW w \in Workers, Resume(w) PROVE TypeOK'
  BY <1>8 DEF Resume
<1>9. CASE Tick \/ Lapse
  <2>1. \A r \in Runs : Aged(tasks[r]) \in Task
    <3> SUFFICES ASSUME NEW r \in Runs PROVE Aged(tasks[r]) \in Task
      OBVIOUS
    <3>1. tasks[r] \in Task
      OBVIOUS
    <3>2. /\ (IF tasks[r].left >= 0 THEN tasks[r].left - 1 ELSE tasks[r].left) \in Int
          /\ (IF tasks[r].wait > 0 THEN tasks[r].wait - 1 ELSE tasks[r].wait) \in Nat
      BY <3>1 DEF Task
    <3> QED
      BY <3>1, <3>2 DEF Aged, Task
  <2>2. tasks' \in [Runs -> Task]
    BY <1>9, <2>1 DEF Tick, Lapse, TimePasses
  <2> QED
    BY <1>9, <2>2 DEF Tick, Lapse, CountFault, FaultKinds
<1>10. CASE UNCHANGED vars
  BY <1>10
<1> QED
  BY <1>1, <1>2, <1>3, <1>4, <1>5, <1>6, <1>7, <1>8, <1>9, <1>10 DEF Next

\* A claim's run stays with the worker until it polls again.
LEMMA JobOwnedStep == TypeOK /\ JobOwned /\ [Next]_vars => JobOwned'
<1> SUFFICES ASSUME TypeOK, JobOwned, [Next]_vars PROVE JobOwned'
  OBVIOUS
<1> USE DEF TypeOK, JobOwned, Goto, BackToPoll, Raise, workerVars, dbVars, vars
<1>1. ASSUME NEW r \in Runs, Submit(r) PROVE JobOwned'
  BY <1>1 DEF Submit
<1>2. ASSUME NEW w \in Workers, NEW r \in Runs, Claim(w, r) PROVE JobOwned'
  BY <1>2 DEF Claim, NoJob
<1>3. ASSUME NEW w \in Workers, Heartbeat(w) PROVE JobOwned'
  BY <1>3 DEF Heartbeat
<1>4. ASSUME NEW w \in Workers, HeartbeatLost(w) PROVE JobOwned'
  BY <1>4 DEF HeartbeatLost
<1>5. ASSUME NEW w \in Workers, Reap(w) PROVE JobOwned'
  BY <1>5 DEF Reap
<1>6. ASSUME NEW w \in Workers, TaskStep(w) PROVE JobOwned'
  <2>1. CASE ReadEvents(w)
    BY <2>1 DEF ReadEvents, Job
  <2>2. CASE NextStep(w)
    BY <2>2 DEF NextStep, Job
  <2>3. ASSUME NEW fatal \in BOOLEAN, StepRaises(w, fatal) PROVE JobOwned'
    BY <2>3 DEF StepRaises, Job
  <2>4. CASE Begin(w)
    BY <2>4 DEF Begin, Job
  <2>5. CASE AssertLease(w)
    BY <2>5 DEF AssertLease
  <2>6. CASE Commit(w)
    <3>1. [NoJob EXCEPT !.run = job[w].run, !.attempt = job[w].attempt].run = job[w].run
      BY DEF NoJob
    <3> QED
      BY <2>6, <3>1 DEF Commit
  <2>7. CASE ReleaseTask(w)
    BY <2>7 DEF ReleaseTask
  <2>8. CASE FailRun(w)
    BY <2>8 DEF FailRun, Job
  <2> QED
    BY <1>6, <2>1, <2>2, <2>3, <2>4, <2>5, <2>6, <2>7, <2>8 DEF TaskStep
<1>7. ASSUME NEW w \in Workers, Fault(w) PROVE JobOwned'
  BY <1>7 DEF Fault, DbError, CommitAckLost, ReaperDies, Crash, Restart, Pause, Unguarded
<1>8. ASSUME NEW w \in Workers, Resume(w) PROVE JobOwned'
  BY <1>8 DEF Resume
<1>9. CASE Tick \/ Lapse
  BY <1>9 DEF Tick, Lapse
<1>10. CASE UNCHANGED vars
  BY <1>10
<1> QED
  BY <1>1, <1>2, <1>3, <1>4, <1>5, <1>6, <1>7, <1>8, <1>9, <1>10 DEF Next

\* Every database row and every worker's state has its type in all reachable
\* states, fenced or not (Engine's TypeOK). It needs JobOwned: a worker computes
\* a step only of a run it has claimed.
THEOREM TypeCorrect == Spec => []TypeOK
<1> USE ConstantsAssumption
<1>1. Init => TypeOK
  BY NoJobType DEF Init, TypeOK, Run, RunStatus, Event, Task, PCs, FaultKinds
<1>2. Init => JobOwned
  BY DEF Init, JobOwned
<1> QED
  BY <1>1, <1>2, TypeStep, JobOwnedStep, PTL DEF Spec

\* What a worker replayed is a prefix of the log, whoever has appended since.
ReplayedPrefix ==
  \A w \in Workers : pc[w] \in {"exec", "begin", "check", "append"}
    => job[w].idx <= Len(events[job[w].run])

\* append_event inserts the key behind the last one, or nothing: a worker that
\* replayed a prefix finds its key in the log if the log has grown.
LEMMA CommitKeys ==
  ASSUME TypeOK, KeysContiguous, NEW w \in Workers, job[w].run \in Runs,
         job[w].idx <= Len(events[job[w].run]), CommitEffect(w)
  PROVE  KeysContiguous' /\ \A r \in Runs : Len(events'[r]) >= Len(events[r])
<1> DEFINE r == job[w].run
           s == events[r]
<1>1. events \in [Runs -> Seq(Event)] /\ r \in Runs /\ s \in Seq(Event) /\ Len(s) \in Nat
      /\ job[w].idx \in Nat
  BY DEF TypeOK, Job
<1>2. CASE ~Inserted(w)
  BY <1>1, <1>2 DEF CommitEffect, KeysContiguous
<1>3. CASE Inserted(w)
  <2>1. job[w].idx = Len(s)
    <3> SUFFICES ASSUME job[w].idx < Len(s) PROVE FALSE
      BY <1>1
    <3>1. job[w].idx + 1 \in DOMAIN s
      BY <1>1
    <3>2. s[job[w].idx + 1].key = job[w].idx
      <4>1. \A k \in DOMAIN s : s[k].key = k - 1
        BY <1>1 DEF KeysContiguous
      <4>2. (job[w].idx + 1) - 1 = job[w].idx
        BY <1>1
      <4> QED
        BY <3>1, <4>1, <4>2, Zenon
    <3> QED
      BY <1>3, <3>1, <3>2 DEF Inserted
  <2>2. PICK e : e.key = Len(s) /\ events' = [events EXCEPT ![r] = Append(s, e)]
    <3>1. NewEvent(w).key = Len(s)
      BY <2>1 DEF NewEvent
    <3> QED
      BY <1>3, <3>1 DEF CommitEffect, NewEvent
  <2> HIDE DEF r, s
  <2>3. PICK t : t = Append(s, e)
    OBVIOUS
  <2>4. /\ Len(t) = Len(s) + 1 /\ DOMAIN t = 1..(Len(s) + 1) /\ DOMAIN s = 1..Len(s)
        /\ \A k \in 1..Len(s) : t[k] = s[k]
        /\ t[Len(s) + 1] = e
    BY <1>1, <2>3
  <2>5. events'[r] = t /\ \A q \in Runs \ {r} : events'[q] = events[q]
    BY <1>1, <2>2, <2>3
  <2>6. \A k \in 1..Len(s) : s[k].key = k - 1
    BY <1>1, <2>4 DEF KeysContiguous, s
  <2>7. ASSUME NEW k \in DOMAIN t PROVE t[k].key = k - 1
    <3>1. CASE k \in 1..Len(s)
      BY <2>4, <2>6, <3>1
    <3>2. CASE k = Len(s) + 1
      <4>1. (Len(s) + 1) - 1 = Len(s)
        BY <1>1
      <4> QED
        BY <2>2, <2>4, <3>2, <4>1
    <3> QED
      BY <1>1, <2>4, <3>1, <3>2
  <2>8. KeysContiguous'
    BY <2>5, <2>7 DEF KeysContiguous
  <2>9. \A q \in Runs : Len(events'[q]) >= Len(events[q])
    <3>1. \A q \in Runs : Len(events[q]) \in Nat
      BY <1>1
    <3> QED
      BY <2>4, <2>5, <3>1 DEF s
  <2> QED
    BY <2>8, <2>9
<1> QED
  BY <1>2, <1>3

\* Where a step leaves the events alone, a worker replays a prefix if it did.
LEMMA KeysStep ==
  ASSUME TypeOK, JobOwned, KeysContiguous, ReplayedPrefix, [Next]_vars
  PROVE  KeysContiguous' /\ ReplayedPrefix'
<1> USE DEF dbVars, workerVars, vars
<1>0. /\ \A w \in Workers : job[w].idx \in Nat
      /\ \A r \in Runs : Len(events[r]) \in Nat
  BY DEF TypeOK, Job
<1> DEFINE At(w) == pc[w] \in {"exec", "begin", "check", "append"}
<1>1. ASSUME events' = events,
             \A w \in Workers : At(w)' =>
               \/ At(w) /\ job'[w].idx = job[w].idx /\ job'[w].run = job[w].run
               \/ job'[w].idx = Len(events[job'[w].run]) /\ job'[w].run \in Runs
      PROVE  KeysContiguous' /\ ReplayedPrefix'
  BY <1>0, <1>1 DEF KeysContiguous, ReplayedPrefix
<1>2. ASSUME NEW w \in Workers, pc[w] = "append", CommitEffect(w),
             pc'[w] \in {"poll", "read", "error"},
             \A v \in Workers \ {w} : pc'[v] = pc[v] /\ job'[v] = job[v]
      PROVE  KeysContiguous' /\ ReplayedPrefix'
  <2>1. job[w].run \in Runs /\ job[w].idx <= Len(events[job[w].run])
    BY <1>2 DEF JobOwned, ReplayedPrefix
  <2>2. KeysContiguous' /\ \A r \in Runs : Len(events'[r]) >= Len(events[r])
    BY <1>2, <2>1, CommitKeys
  <2>3. events' \in [Runs -> Seq(Event)]
    BY <1>2, <2>1, CommitEffectType
  <2>4. \A r \in Runs : Len(events'[r]) \in Nat
    BY <2>3
  <2>5. ASSUME NEW v \in Workers, pc'[v] \in {"exec", "begin", "check", "append"}
        PROVE  job'[v].idx <= Len(events'[job'[v].run])
    BY <1>0, <1>2, <2>2, <2>4, <2>5 DEF JobOwned, ReplayedPrefix
  <2> QED
    BY <2>2, <2>5 DEF ReplayedPrefix
<1>3. CASE UNCHANGED <<events, pc, job>>
  BY <1>1, <1>3
<1>4. ASSUME NEW w \in Workers, NEW r \in Runs, Claim(w, r)
      PROVE  KeysContiguous' /\ ReplayedPrefix'
  BY <1>1, <1>4 DEF Claim, Goto, TypeOK
<1>5. ASSUME NEW w \in Workers, HeartbeatLost(w)
      PROVE  KeysContiguous' /\ ReplayedPrefix'
  BY <1>1, <1>5 DEF HeartbeatLost, BackToPoll, Goto, TypeOK
<1>6. ASSUME NEW w \in Workers, TaskStep(w)
      PROVE  KeysContiguous' /\ ReplayedPrefix'
  <2>1. CASE ReadEvents(w)
    BY <1>1, <2>1 DEF ReadEvents, Goto, TypeOK, Job, JobOwned
  <2>2. CASE NextStep(w)
    BY <1>1, <2>2 DEF NextStep, Goto, TypeOK, Job
  <2>3. ASSUME NEW fatal \in BOOLEAN, StepRaises(w, fatal)
        PROVE  KeysContiguous' /\ ReplayedPrefix'
    BY <1>1, <2>3 DEF StepRaises, Goto, TypeOK
  <2>4. CASE Begin(w)
    BY <1>1, <2>4 DEF Begin, Goto, TypeOK, Job
  <2>5. CASE AssertLease(w)
    BY <1>1, <2>5 DEF AssertLease, BackToPoll, Goto, TypeOK
  <2>6. CASE Commit(w)
    BY <1>2, <2>6 DEF Commit, BackToPoll, Goto, TypeOK
  <2>7. CASE ReleaseTask(w)
    BY <1>1, <2>7 DEF ReleaseTask, BackToPoll, Goto, TypeOK
  <2>8. CASE FailRun(w)
    BY <1>1, <2>8 DEF FailRun, Goto, TypeOK, Job, JobOwned
  <2> QED
    BY <1>6, <2>1, <2>2, <2>3, <2>4, <2>5, <2>6, <2>7, <2>8 DEF TaskStep
<1>7. ASSUME NEW w \in Workers, Fault(w)
      PROVE  KeysContiguous' /\ ReplayedPrefix'
  <2>1. CASE DbError(w) \/ Crash(w)
    BY <1>1, <2>1 DEF DbError, Crash, Raise, BackToPoll, Goto, TypeOK
  <2>2. CASE CommitAckLost(w)
    BY <1>2, <2>2 DEF CommitAckLost, Raise, BackToPoll, Goto, TypeOK
  <2> QED
    BY <1>3, <1>7, <2>1, <2>2 DEF Fault, ReaperDies, Restart, Pause
<1> HIDE DEF At
<1> QED
  BY <1>3, <1>4, <1>5, <1>6, <1>7
  DEF Next, Submit, Heartbeat, Reap, Resume, Tick, Lapse

\* Step keys are run:0 .. run:n-1 in log order without gap or duplicate, fenced or
\* not, whatever faults happen (append_event's look-up of the key, Engine's
\* KeysContiguous).
THEOREM KeysInOrder == Spec => []KeysContiguous
<1>1. Init => TypeOK
  BY ConstantsAssumption, NoJobType
  DEF Init, TypeOK, Run, RunStatus, Event, Task, PCs, FaultKinds
<1>2. Init => JobOwned /\ KeysContiguous /\ ReplayedPrefix
  BY DEF Init, JobOwned, KeysContiguous, ReplayedPrefix
<1>3. TypeOK /\ JobOwned /\ KeysContiguous /\ ReplayedPrefix /\ [Next]_vars
        => KeysContiguous' /\ ReplayedPrefix'
  BY KeysStep
<1> QED
  BY <1>1, <1>2, <1>3, TypeStep, JobOwnedStep, PTL DEF Spec
-----------------------------------------------------------------------------
\* A step about to be committed costs what a step may cost (next_step's outcomes,
\* and the free `failed` event of _handle_error).
OutcomeCosts ==
  \A w \in Workers : pc[w] \in {"begin", "check", "append"} => job[w].out.cost \in Costs \cup {0}

LEMMA OutcomesCost ==
  ASSUME NEW r \in Runs, NEW i \in Nat, NEW o \in Outcomes(r, i)
  PROVE  o.cost \in Costs \cup {0}
<1>1. ASSUME NEW p \in ToyOutcomes(r, i) PROVE p.cost \in Costs
  BY DEF ToyOutcomes
<1>2. ASSUME NEW p \in AgentOutcomes(r, i) PROVE p.cost \in Costs \cup {0}
  BY DEF AgentOutcomes
<1> QED
  BY <1>1, <1>2 DEF Outcomes

LEMMA OutcomeCostsStep ==
  ASSUME TypeOK, JobOwned, OutcomeCosts, [Next]_vars
  PROVE  OutcomeCosts'
<1> USE DEF dbVars, workerVars, vars
<1>0. ASSUME \A w \in Workers : pc'[w] \in {"begin", "check", "append"} =>
               \/ pc[w] \in {"begin", "check", "append"} /\ job'[w].out = job[w].out
               \/ job'[w].out.cost \in Costs \cup {0}
      PROVE  OutcomeCosts'
  BY <1>0 DEF OutcomeCosts
<1>1. CASE UNCHANGED <<pc, job>>
  BY <1>0, <1>1
<1>2. ASSUME NEW w \in Workers, NEW r \in Runs, Claim(w, r) PROVE OutcomeCosts'
  BY <1>0, <1>2 DEF Claim, Goto, TypeOK
<1>3. ASSUME NEW w \in Workers, HeartbeatLost(w) PROVE OutcomeCosts'
  BY <1>0, <1>3 DEF HeartbeatLost, BackToPoll, Goto, TypeOK
<1>4. ASSUME NEW w \in Workers, TaskStep(w) PROVE OutcomeCosts'
  <2>1. CASE ReadEvents(w)
    BY <1>0, <2>1 DEF ReadEvents, Goto, TypeOK
  <2>2. CASE NextStep(w)
    <3>1. PICK o \in Outcomes(job[w].run, job[w].idx) : job' = [job EXCEPT ![w].out = o]
      BY <2>2 DEF NextStep
    <3>2. o.cost \in Costs \cup {0}
      BY <2>2, <3>1, OutcomesCost DEF NextStep, JobOwned, TypeOK, Job
    <3>3. job'[w].out = o /\ \A v \in Workers \ {w} : job'[v] = job[v] /\ pc'[v] = pc[v]
      BY <2>2, <3>1 DEF NextStep, Goto, TypeOK, Job
    <3> QED
      BY <1>0, <3>2, <3>3
  <2>3. ASSUME NEW fatal \in BOOLEAN, StepRaises(w, fatal) PROVE OutcomeCosts'
    BY <1>0, <2>3 DEF StepRaises, Goto, TypeOK
  <2>4. CASE Begin(w)
    BY <1>0, <2>4 DEF Begin, Goto, TypeOK, Job
  <2>5. CASE AssertLease(w)
    BY <1>0, <2>5 DEF AssertLease, BackToPoll, Goto, TypeOK
  <2>6. CASE Commit(w)
    BY <1>0, <2>6 DEF Commit, BackToPoll, Goto, TypeOK
  <2>7. CASE ReleaseTask(w)
    BY <1>0, <2>7 DEF ReleaseTask, BackToPoll, Goto, TypeOK
  <2>8. CASE FailRun(w)
    <3>1. job'[w].out.cost = 0 /\ \A v \in Workers \ {w} : job'[v] = job[v] /\ pc'[v] = pc[v]
      BY <2>8 DEF FailRun, Goto, TypeOK, Job
    <3> QED
      BY <1>0, <3>1
  <2> QED
    BY <1>4, <2>1, <2>2, <2>3, <2>4, <2>5, <2>6, <2>7, <2>8 DEF TaskStep
<1>5. ASSUME NEW w \in Workers, Fault(w) PROVE OutcomeCosts'
  <2>1. CASE DbError(w) \/ CommitAckLost(w) \/ Crash(w)
    BY <1>0, <2>1 DEF DbError, CommitAckLost, Crash, Raise, BackToPoll, Goto, TypeOK
  <2> QED
    BY <1>1, <1>5, <2>1 DEF Fault, ReaperDies, Restart, Pause
<1> QED
  BY <1>1, <1>2, <1>3, <1>4, <1>5 DEF Next, Submit, Heartbeat, Reap, Resume, Tick, Lapse

\* Recorded's recursion: the sums of the prefixes of a log.
PrefixSums(h, log) == h[0] = 0 /\ \A k \in 1..Len(log) : h[k] = h[k - 1] + log[k].cost

\* Logs with a common prefix have the same sums there.
LEMMA SamePrefixSums ==
  ASSUME NEW s, NEW t, NEW n \in Nat, NEW g, NEW h,
         Len(s) \in Nat, Len(t) \in Nat, n <= Len(s), n <= Len(t),
         \A k \in 1..n : s[k] = t[k],
         PrefixSums(g, s), PrefixSums(h, t)
  PROVE  g[n] = h[n]
<1> DEFINE P == {k \in Nat : k <= n => g[k] = h[k]}
<1>1. 0 \in P
  BY DEF PrefixSums
<1>2. ASSUME NEW k \in Nat, k \in P PROVE k + 1 \in P
  <2> SUFFICES ASSUME k + 1 <= n PROVE g[k + 1] = h[k + 1]
    OBVIOUS
  <2>1. g[k] = h[k]
    BY <1>2
  <2>2. k + 1 \in 1..n /\ k + 1 \in 1..Len(s) /\ k + 1 \in 1..Len(t) /\ (k + 1) - 1 = k
    OBVIOUS
  <2>3. g[k + 1] = g[k] + s[k + 1].cost /\ h[k + 1] = h[k] + t[k + 1].cost
    BY <2>2 DEF PrefixSums
  <2>4. s[k + 1] = t[k + 1]
    BY <2>2
  <2> QED
    BY <2>1, <2>3, <2>4, Zenon
<1> HIDE DEF P
<1>3. n \in P
  BY <1>1, <1>2, SetInduction
<1> QED
  BY <1>3 DEF P

\* Recorded's recursion is well-founded; its value is the last of the sums.
LEMMA RecordedIsLast ==
  ASSUME NEW s \in Seq(Event)
  PROVE  \E h : PrefixSums(h, s) /\ h[Len(s)] \in Nat /\ Recorded(s) = h[Len(s)]
<1> DEFINE N == Len(s)
           F(g) == [k \in 0..N |-> IF k = 0 THEN 0 ELSE g[k - 1] + s[k].cost]
           sum == CHOOSE g : g = F(g)
           op == [p \in Nat \X (1..N) |-> p[1] + s[p[2]].cost]
<1>1. N \in Nat /\ \A k \in 1..N : s[k].cost \in Nat
  <2>1. N \in Nat /\ \A k \in 1..N : s[k] \in Event
    OBVIOUS
  <2>2. \A e \in Event : e.cost \in Nat
    BY DEF Event
  <2> QED
    BY <2>1, <2>2
<1>2. Recorded(s) = sum[N]
  BY DEF Recorded
<1>3. op \in [Nat \X (1..N) -> Nat] /\ \A x \in Nat, k \in 1..N : op[<<x, k>>] = x + s[k].cost
  BY <1>1
<1> HIDE DEF op
<1>4. PICK h \in [0..N -> Nat] : Iterates(h, 0, op, N)
  <2> HIDE DEF N
  <2>1. 0 \in Nat
    OBVIOUS
  <2> QED
    BY <1>1, <1>3, <2>1, PrefixRecursion, Zenon
<1>5. \A k \in 1..N : h[k] = h[k - 1] + s[k].cost
  <2> SUFFICES ASSUME NEW k \in 1..N PROVE h[k] = h[k - 1] + s[k].cost
    OBVIOUS
  <2>1. k - 1 \in 0..N
    BY <1>1
  <2> QED
    BY <1>3, <1>4, <2>1 DEF Iterates
<1>6. h[0] = 0
  BY <1>4 DEF Iterates
<1>7. h = F(h)
  BY <1>1, <1>5, <1>6
<1>8. sum = F(sum)
  <2> HIDE DEF F
  <2> QED
    BY <1>7
<1> HIDE DEF sum
<1>9. PrefixSums(sum, s)
  BY <1>1, <1>8 DEF PrefixSums
<1>10. PrefixSums(h, s)
  BY <1>5, <1>6 DEF PrefixSums
<1>11. sum[N] = h[N] /\ h[N] \in Nat
  BY <1>1, <1>9, <1>10, SamePrefixSums
<1> QED
  BY <1>2, <1>9, <1>11

\* What Recorded makes of the empty log and of one more event.
LEMMA RecordedAppend ==
  /\ Recorded(<<>>) = 0
  /\ \A s \in Seq(Event), e \in Event :
       Recorded(s) \in Nat /\ Recorded(Append(s, e)) = Recorded(s) + e.cost
<1>1. Recorded(<<>>) = 0
  <2>1. <<>> \in Seq(Event) /\ Len(<<>>) = 0
    OBVIOUS
  <2>2. PICK h : PrefixSums(h, <<>>) /\ Recorded(<<>>) = h[Len(<<>>)]
    BY <2>1, RecordedIsLast
  <2> QED
    BY <2>1, <2>2 DEF PrefixSums
<1>2. ASSUME NEW s \in Seq(Event), NEW e \in Event
      PROVE  Recorded(s) \in Nat /\ Recorded(Append(s, e)) = Recorded(s) + e.cost
  <2> DEFINE t == Append(s, e)
             n == Len(s)
  <2>1. /\ n \in Nat /\ Len(t) = n + 1 /\ t[n + 1] = e /\ t \in Seq(Event)
        /\ \A k \in 1..n : s[k] = t[k]
    OBVIOUS
  <2> HIDE DEF t
  <2>2. PICK g : PrefixSums(g, s) /\ g[n] \in Nat /\ Recorded(s) = g[n]
    BY RecordedIsLast
  <2>3. PICK h : PrefixSums(h, t) /\ Recorded(t) = h[Len(t)]
    BY <2>1, RecordedIsLast
  <2>4. g[n] = h[n]
    BY <2>1, <2>2, <2>3, SamePrefixSums
  <2>5. h[n + 1] = h[n] + t[n + 1].cost
    <3>1. n + 1 \in 1..Len(t) /\ (n + 1) - 1 = n
      BY <2>1
    <3> QED
      BY <2>3, <3>1 DEF PrefixSums
  <2> QED
    BY <2>1, <2>2, <2>3, <2>4, <2>5, Zenon DEF t
<1> QED
  BY <1>1, <1>2

\* Steps cost whole micro-dollars, the unit runs.spent_usd keeps.
WholeMicros == \A c \in Costs : c % 2 = 0

\* The inductive invariant: the column holds whole micro-dollars, those of the log.
SpendInv == \A r \in Runs : runs[r].spent % 2 = 0 /\ runs[r].spent = Recorded(events[r])

\* NUMERIC(12,6) keeps whole micro-dollars as they are.
LEMMA WholeSum ==
  ASSUME NEW x \in Nat, NEW y \in Nat, x % 2 = 0, y % 2 = 0
  PROVE  (x + y) % 2 = 0 /\ Numeric6(x + y) = x + y
<1> DEFINE z == x + y
<1>1. z \in Nat /\ z % 2 = 0
  OBVIOUS
<1> HIDE DEF z
<1>2. Numeric6(z) = z
  BY <1>1 DEF Numeric6
<1> QED
  BY <1>1, <1>2 DEF z

\* commit_step adds to the column what it appends to the log, or neither.
LEMMA CommitSpend ==
  ASSUME WholeMicros, TypeOK, JobOwned, OutcomeCosts, SpendInv,
         NEW w \in Workers, pc[w] = "append", CommitEffect(w)
  PROVE  SpendInv'
<1> DEFINE r == job[w].run
           s == events[r]
           e == NewEvent(w)
           cost == job[w].out.cost
           spent == runs[r].spent
<1>1. /\ r \in Runs /\ s \in Seq(Event) /\ cost \in Nat /\ spent \in Nat
      /\ cost \in Costs \cup {0} /\ events \in [Runs -> Seq(Event)] /\ runs \in [Runs -> Run]
  BY DEF TypeOK, JobOwned, Run, Job, StepOutcome, OutcomeCosts
<1>2. CASE ~Inserted(w)
  BY <1>2 DEF CommitEffect, SpendInv
<1>3. CASE Inserted(w)
  <2>1. e \in Event /\ e.cost = cost
    BY <1>1 DEF NewEvent, TypeOK, Job, StepOutcome, Event
  <2>2. events' = [events EXCEPT ![r] = Append(s, e)]
    BY <1>3 DEF CommitEffect, NewEvent
  <2>3. /\ runs'[r].spent = Numeric6(spent + cost)
        /\ \A q \in Runs \ {r} : runs'[q] = runs[q]
    BY <1>1, <1>3 DEF CommitEffect, Run
  <2>4. spent % 2 = 0 /\ spent = Recorded(s)
    BY <1>1 DEF SpendInv
  <2>5. cost % 2 = 0
    BY <1>1 DEF WholeMicros
  <2> HIDE DEF r, s, e, cost, spent
  <2>6. (spent + cost) % 2 = 0 /\ Numeric6(spent + cost) = spent + cost
    BY <1>1, <2>4, <2>5, WholeSum
  <2>7. Recorded(Append(s, e)) = Recorded(s) + cost
    BY <1>1, <2>1, RecordedAppend, Zenon
  <2>8. events'[r] = Append(s, e) /\ \A q \in Runs \ {r} : events'[q] = events[q]
    BY <1>1, <2>2
  <2>9. runs'[r].spent % 2 = 0 /\ runs'[r].spent = Recorded(events'[r])
    BY <2>3, <2>4, <2>6, <2>7, <2>8, Zenon
  <2> QED
    BY <2>3, <2>8, <2>9 DEF SpendInv
<1> QED
  BY <1>2, <1>3

\* No other step touches the column or the log.
LEMMA SpendStep ==
  ASSUME WholeMicros, TypeOK, JobOwned, OutcomeCosts, SpendInv, [Next]_vars
  PROVE  SpendInv'
<1> USE DEF dbVars, workerVars, vars
<1>1. ASSUME events' = events, \A r \in Runs : runs'[r].spent = runs[r].spent
      PROVE  SpendInv'
  BY <1>1 DEF SpendInv
<1>2. ASSUME NEW r \in Runs, Submit(r) PROVE SpendInv'
  BY <1>1, <1>2 DEF Submit, TypeOK, Run
<1>3. ASSUME NEW w \in Workers, NEW r \in Runs, Claim(w, r) PROVE SpendInv'
  BY <1>1, <1>3 DEF Claim, TypeOK, Run
<1>4. ASSUME NEW w \in Workers, Commit(w) \/ CommitAckLost(w) PROVE SpendInv'
  BY <1>4, CommitSpend DEF Commit, CommitAckLost
<1>5. CASE UNCHANGED <<runs, events>>
  BY <1>1, <1>5
<1> QED
  BY <1>2, <1>3, <1>4, <1>5
  DEF Next, Heartbeat, HeartbeatLost, Reap, TaskStep, ReadEvents, NextStep, StepRaises, Begin,
      AssertLease, ReleaseTask, FailRun, Resume, Fault, DbError, ReaperDies, Crash, Restart,
      Pause, Tick, Lapse

\* runs.spent_usd is the sum of the costs in the run's events (chaos invariant 4),
\* fenced or not, through retries, lost acknowledgements and takeovers: commit_step
\* changes both or neither, and rounding changes no whole number of micro-dollars.
THEOREM SpendRecorded == ASSUME WholeMicros PROVE Spec => []SpendConsistency
<1>1. Init => TypeOK
  BY ConstantsAssumption, NoJobType
  DEF Init, TypeOK, Run, RunStatus, Event, Task, PCs, FaultKinds
<1>2. Init => JobOwned /\ OutcomeCosts
  BY DEF Init, JobOwned, OutcomeCosts
<1>3. Init => SpendInv
  <2> SUFFICES ASSUME Init, NEW r \in Runs
               PROVE  runs[r].spent % 2 = 0 /\ runs[r].spent = Recorded(events[r])
    BY DEF SpendInv
  <2>1. runs[r].spent = 0 /\ events[r] = <<>>
    BY DEF Init
  <2>2. 0 % 2 = 0 /\ Recorded(<<>>) = 0
    BY RecordedAppend
  <2> QED
    BY <2>1, <2>2, Zenon
<1>4. TypeOK /\ JobOwned /\ OutcomeCosts /\ [Next]_vars => OutcomeCosts'
  BY OutcomeCostsStep
<1>5. TypeOK /\ JobOwned /\ OutcomeCosts /\ SpendInv /\ [Next]_vars => SpendInv'
  BY SpendStep
<1>6. SpendInv => SpendConsistency
  BY DEF SpendInv, SpendConsistency
<1> QED
  BY <1>1, <1>2, <1>3, <1>4, <1>5, <1>6, TypeStep, JobOwnedStep, PTL DEF Spec
-----------------------------------------------------------------------------
\* What the loop of log_integrity has in its variables.
ScanState == [bad: BOOLEAN, last: Nat, finals: Nat]

ScanAt(log) == [p \in ScanState \X (1..Len(log)) |-> Scanned(p[1], log[p[2]])]

\* One turn: nothing after a violation, else the event is compared and counted.
LEMMA ScannedIs ==
  ASSUME NEW s \in ScanState, NEW e \in Event
  PROVE  /\ Scanned(s, e) \in ScanState
         /\ s.bad => Scanned(s, e) = s
         /\ ~s.bad => /\ Scanned(s, e).bad <=> (s.finals > 0 \/ e.attempt < s.last)
                      /\ Scanned(s, e).last = IF e.attempt > s.last THEN e.attempt ELSE s.last
                      /\ e.final => Scanned(s, e).finals = s.finals + 1
                      /\ ~e.final => Scanned(s, e).finals = s.finals
<1>1. s.bad \in BOOLEAN /\ s.last \in Nat /\ s.finals \in Nat /\ e.attempt \in Nat /\ e.final \in BOOLEAN
  BY DEF ScanState, Event
<1>2. CASE s.bad
  BY <1>2 DEF Scanned
<1>3. CASE ~s.bad
  <2>1. PICK b \in BOOLEAN : b <=> (s.finals > 0 \/ e.attempt < s.last)
    BY <1>1
  <2>2. b = (s.finals > 0 \/ e.attempt < s.last)
    BY <1>1, <2>1
  <2>3. PICK l \in Nat : l = IF e.attempt > s.last THEN e.attempt ELSE s.last
    BY <1>1
  <2>4. PICK f \in Nat : f = s.finals + (IF e.final THEN 1 ELSE 0)
    BY <1>1
  <2>5. Scanned(s, e) = [bad |-> b, last |-> l, finals |-> f]
    BY <1>3, <2>2, <2>3, <2>4, Zenon DEF Scanned
  <2>6. PICK t : t = [bad |-> b, last |-> l, finals |-> f]
    OBVIOUS
  <2>7. t.last = l /\ t.finals = f /\ (t.bad <=> b) /\ t \in ScanState
    BY <2>6 DEF ScanState
  <2>8. (e.final => f = s.finals + 1) /\ (~e.final => f = s.finals)
    BY <1>1, <2>4
  <2> QED
    BY <1>3, <2>1, <2>3, <2>5, <2>6, <2>7, <2>8, Zenon
<1> QED
  BY <1>1, <1>2, <1>3

LEMMA ScanReaches ==
  ASSUME NEW log \in Seq(Event)
  PROVE  Reaches(Scan(log), ScanState, Unscanned, ScanAt(log), Len(log))
<1> DEFINE N == Len(log)
           op == ScanAt(log)
           F(g) == [t \in SUBSET DOMAIN log |->
                      IF t = {} THEN Unscanned ELSE Scanned(g[t \ {Max(t)}], log[Max(t)])]
           iter == CHOOSE g : g = F(g)
<1>1. Scan(log) = iter[DOMAIN log]
  BY DEF Scan, FoldLeft, MapThenFoldSet
<1>2. N \in Nat /\ DOMAIN log = 1..N /\ \A k \in 1..N : log[k] \in Event
  OBVIOUS
<1>3. Unscanned \in ScanState
  BY DEF Unscanned, ScanState
<1>4. /\ op \in [ScanState \X (1..N) -> ScanState]
      /\ \A x \in ScanState, k \in 1..N : op[<<x, k>>] = Scanned(x, log[k])
  BY <1>2, ScannedIs DEF ScanAt
<1> HIDE DEF N, op
<1>5. PICK g \in [SUBSET (1..N) -> ScanState] : FoldsOver(g, Unscanned, op, N)
  BY <1>2, <1>3, <1>4, SubsetRecursion, Zenon
<1>6. \A t \in SUBSET (1..N) : t # {} => Max(t) \in 1..N /\ t \ {Max(t)} \in SUBSET (1..N)
  BY <1>2, MaxOfSubset
<1>7. g = F(g)
  BY <1>2, <1>4, <1>5, <1>6 DEF FoldsOver
<1> HIDE DEF F
<1>8. iter = F(iter)
  BY <1>7
<1> HIDE DEF iter
<1>9. Folding(iter, ScanState, Unscanned, op, N)
  BY <1>2, <1>3, <1>4, <1>6, <1>8 DEF F, Folding
<1>10. Reaches(iter[1..N], ScanState, Unscanned, op, N)
  BY <1>9, FoldPrefixes, Zenon
<1> QED
  BY <1>1, <1>2, <1>10 DEF N, op

\* Among the first k events one is written by an older attempt than one before it, or
\* after a final one.
Damaged(log, k) ==
  \E i, j \in 1..k : i < j /\ (log[j].attempt < log[i].attempt \/ log[i].final)

\* What the variables say of the first k events.
ScanKnows(s, log, k) ==
  /\ s.bad <=> Damaged(log, k)
  /\ ~s.bad => /\ \A i \in 1..k : log[i].attempt <= s.last
               /\ s.last = 0 \/ \E i \in 1..k : s.last = log[i].attempt
               /\ s.finals > 0 <=> \E i \in 1..k : log[i].final

LEMMA ScanKnowsStep ==
  ASSUME NEW log \in Seq(Event), NEW k \in 1..Len(log), NEW s \in ScanState,
         ScanKnows(s, log, k - 1)
  PROVE  ScanKnows(Scanned(s, log[k]), log, k)
<1>1. PICK n \in Nat : n = k - 1 /\ k = n + 1 /\ k \in Nat
  OBVIOUS
<1>2. \A i \in 1..k : log[i].attempt \in Nat /\ log[i].final \in BOOLEAN
  <2>1. \A i \in 1..k : log[i] \in Event
    OBVIOUS
  <2> QED
    BY <2>1 DEF Event
<1>3. s.bad \in BOOLEAN /\ s.last \in Nat /\ s.finals \in Nat
  BY DEF ScanState
<1>4. log[k] \in Event
  OBVIOUS
<1>5. PICK t \in ScanState : t = Scanned(s, log[k])
  BY <1>4, ScannedIs
<1>6. \A i \in 1..k : i \in 1..n \/ i = k
  BY <1>1
<1>7. \A i \in 1..n : i \in 1..k /\ i < k
  BY <1>1
<1>8. k \in 1..k
  BY <1>1
<1>9. CASE s.bad
  <2>1. t = s
    BY <1>4, <1>5, <1>9, ScannedIs
  <2>2. PICK i \in 1..n, j \in 1..n : i < j /\ (log[j].attempt < log[i].attempt \/ log[i].final)
    BY <1>1, <1>9 DEF ScanKnows, Damaged
  <2>3. Damaged(log, k)
    BY <1>7, <2>2 DEF Damaged
  <2> QED
    BY <1>5, <1>9, <2>1, <2>3 DEF ScanKnows
<1>10. CASE ~s.bad
  <2>1. /\ t.bad <=> (s.finals > 0 \/ log[k].attempt < s.last)
        /\ t.last = IF log[k].attempt > s.last THEN log[k].attempt ELSE s.last
        /\ log[k].final => t.finals = s.finals + 1
        /\ ~log[k].final => t.finals = s.finals
    BY <1>4, <1>5, <1>10, ScannedIs
  <2>2. /\ ~Damaged(log, n)
        /\ \A i \in 1..n : log[i].attempt <= s.last
        /\ s.last = 0 \/ \E i \in 1..n : s.last = log[i].attempt
        /\ s.finals > 0 <=> \E i \in 1..n : log[i].final
    BY <1>1, <1>10 DEF ScanKnows
  <2>3. t.bad => Damaged(log, k)
    <3>1. CASE s.finals > 0
      <4>1. PICK i \in 1..n : log[i].final
        BY <2>2, <3>1
      <4> QED
        BY <1>7, <1>8, <4>1 DEF Damaged
    <3>2. CASE log[k].attempt < s.last
      <4>1. s.last # 0
        BY <1>2, <1>3, <1>8, <3>2
      <4>2. PICK i \in 1..n : s.last = log[i].attempt
        BY <2>2, <4>1
      <4> QED
        BY <1>7, <1>8, <3>2, <4>2 DEF Damaged
    <3> QED
      BY <2>1, <3>1, <3>2
  <2>4. Damaged(log, k) => t.bad
    <3> SUFFICES ASSUME NEW i \in 1..k, NEW j \in 1..k, i < j,
                        log[j].attempt < log[i].attempt \/ log[i].final
                 PROVE  t.bad
      BY DEF Damaged
    <3>1. i \in 1..n
      BY <1>1
    <3>2. j = k
      BY <1>6, <2>2, <3>1 DEF Damaged
    <3> QED
      BY <1>2, <1>3, <2>1, <2>2, <3>1, <3>2
  <2>5. \A i \in 1..k : log[i].attempt <= t.last
    BY <1>2, <1>3, <1>6, <1>8, <2>1, <2>2
  <2>6. t.last = 0 \/ \E i \in 1..k : t.last = log[i].attempt
    BY <1>7, <1>8, <2>1, <2>2
  <2>7. t.finals > 0 <=> \E i \in 1..k : log[i].final
    <3>1. CASE log[k].final
      BY <1>3, <1>8, <2>1, <3>1
    <3>2. CASE ~log[k].final
      BY <1>6, <1>7, <2>1, <2>2, <3>2
    <3> QED
      BY <3>1, <3>2
  <2> QED
    BY <1>5, <2>3, <2>4, <2>5, <2>6, <2>7 DEF ScanKnows
<1> QED
  BY <1>3, <1>9, <1>10

\* The scan, which stops at the first violation, finds one exactly in a damaged log.
LEMMA ScanExact ==
  ASSUME NEW log \in Seq(Event)
  PROVE  Scan(log).bad <=> Damaged(log, Len(log))
<1> DEFINE N == Len(log)
           op == ScanAt(log)
           Good == {y \in Nat \X ScanState : ScanKnows(y[2], log, y[1])}
<1>1. N \in Nat
  OBVIOUS
<1>2. Unscanned \in ScanState /\ ScanKnows(Unscanned, log, 0)
  BY DEF Unscanned, ScanState, ScanKnows, Damaged
<1>3. ASSUME NEW k \in 1..N, NEW x \in ScanState, <<k - 1, x>> \in Good
      PROVE  <<k, op[<<x, k>>]>> \in Good
  <2>1. ScanKnows(x, log, k - 1)
    BY <1>3
  <2>2. log[k] \in Event
    OBVIOUS
  <2>3. PICK t \in ScanState : t = Scanned(x, log[k])
    BY <2>2, ScannedIs
  <2>4. ScanKnows(t, log, k)
    BY <2>1, <2>3, ScanKnowsStep
  <2>5. op[<<x, k>>] = t
    BY <2>3 DEF ScanAt
  <2>6. k \in Nat
    OBVIOUS
  <2> HIDE DEF op
  <2> QED
    BY <2>3, <2>4, <2>5, <2>6
<1>4. <<0, Unscanned>> \in Good
  BY <1>2
<1>5. Reaches(Scan(log), ScanState, Unscanned, op, N)
  BY ScanReaches
<1> HIDE DEF Good, op, N
<1>6. Keeping(Good, ScanState, Unscanned, op, N)
  BY <1>1, <1>2, <1>3, <1>4 DEF Keeping
<1>7. <<N, Scan(log)>> \in Good
  BY <1>5, <1>6, ReachesKeep
<1>8. ScanKnows(Scan(log), log, N)
  BY <1>7 DEF Good
<1> QED
  BY <1>8 DEF ScanKnows, N

\* log_integrity passes exactly the logs ChecksExact says it does.
LEMMA IntegrityExact ==
  ASSUME NEW log \in Seq(Event)
  PROVE  log_integrity(log) <=>
           \A j, k \in DOMAIN log :
             /\ log[k].key = k - 1
             /\ j < k => log[j].attempt <= log[k].attempt /\ ~log[j].final
<1>1. DOMAIN log = 1..Len(log) /\ \A k \in DOMAIN log : log[k].attempt \in Nat
  <2>1. DOMAIN log = 1..Len(log) /\ \A k \in DOMAIN log : log[k] \in Event
    OBVIOUS
  <2> QED
    BY <2>1 DEF Event
<1>2. \A i, j \in DOMAIN log : log[j].attempt < log[i].attempt <=> ~(log[i].attempt <= log[j].attempt)
  BY <1>1
<1>3. Scan(log).bad <=> \E i, j \in DOMAIN log : i < j /\ ~(log[i].attempt <= log[j].attempt /\ ~log[i].final)
  BY <1>1, <1>2, ScanExact DEF Damaged
<1> QED
  BY <1>3, Zenon DEF log_integrity
-----------------------------------------------------------------------------
\* The sum of spend_consistency, as a fold.
SumAt(log) == [p \in Nat \X (1..Len(log)) |-> p[1] + log[p[2]].cost]

\* spend_consistency adds up what Recorded does.
LEMMA SpendSum ==
  ASSUME NEW log \in Seq(Event), NEW x
  PROVE  spend_consistency(x, log) <=> x = Recorded(log)
<1> DEFINE N == Len(log)
           op == SumAt(log)
           F(g) == [t \in SUBSET DOMAIN log |->
                      IF t = {} THEN 0 ELSE g[t \ {Max(t)}] + log[Max(t)].cost]
           iter == CHOOSE g : g = F(g)
<1>1. spend_consistency(x, log) <=> x = iter[DOMAIN log]
  BY DEF spend_consistency, FoldLeft, MapThenFoldSet
<1>2. N \in Nat /\ DOMAIN log = 1..N /\ \A k \in 1..N : log[k].cost \in Nat
  <2>1. N \in Nat /\ DOMAIN log = 1..N /\ \A k \in 1..N : log[k] \in Event
    OBVIOUS
  <2> QED
    BY <2>1 DEF Event
<1>3. /\ op \in [Nat \X (1..N) -> Nat]
      /\ \A y \in Nat, k \in 1..N : op[<<y, k>>] = y + log[k].cost
  BY <1>2 DEF SumAt
<1> HIDE DEF op
<1>4. PICK h : PrefixSums(h, log) /\ Recorded(log) = h[N]
  BY RecordedIsLast
<1> HIDE DEF N
<1>5. PICK g \in [SUBSET (1..N) -> Nat] : FoldsOver(g, 0, op, N)
  <2>1. 0 \in Nat
    OBVIOUS
  <2> QED
    BY <1>2, <1>3, <2>1, SubsetRecursion, Zenon
<1>6. \A t \in SUBSET (1..N) : t # {} => Max(t) \in 1..N /\ t \ {Max(t)} \in SUBSET (1..N)
  BY <1>2, MaxOfSubset
<1>7. g = F(g)
  BY <1>2, <1>3, <1>5, <1>6 DEF FoldsOver
<1> HIDE DEF F
<1>8. iter = F(iter)
  BY <1>7
<1> HIDE DEF iter
<1>9. Folding(iter, Nat, 0, op, N)
  BY <1>2, <1>3, <1>6, <1>8 DEF F, Folding
<1>10. Reaches(iter[1..N], Nat, 0, op, N)
  BY <1>9, FoldPrefixes, Zenon
<1>11. PICK f \in [0..N -> Nat] : Iterates(f, 0, op, N) /\ f[N] = iter[1..N]
  BY <1>10 DEF Reaches
<1>12. PrefixSums(f, log)
  <2>1. ASSUME NEW k \in 1..N PROVE f[k] = f[k - 1] + log[k].cost
    <3>1. k - 1 \in 0..N
      BY <1>2
    <3> QED
      BY <1>3, <1>11, <3>1 DEF Iterates
  <2>2. f[0] = 0
    BY <1>11 DEF Iterates
  <2> QED
    BY <2>1, <2>2 DEF PrefixSums, N
<1>13. f[N] = h[N]
  <2>1. Len(log) \in Nat /\ N \in Nat /\ N <= Len(log) /\ \A k \in 1..N : log[k] = log[k]
    BY <1>2 DEF N
  <2> QED
    BY <1>4, <1>12, <2>1, SamePrefixSums
<1> QED
  BY <1>1, <1>2, <1>4, <1>11, <1>13

\* The chaos checkers are right about every log the engine writes, fenced or not:
\* log_integrity fails exactly the damaged ones, and spend_consistency never fails
\* (chaos/invariants.py; Engine's commit_step changes column and log together).
THEOREM CheckersExact == ASSUME WholeMicros PROVE Spec => []ChecksExact
<1>1. TypeOK /\ SpendConsistency => ChecksExact
  <2> SUFFICES ASSUME TypeOK, SpendConsistency, NEW r \in Runs
               PROVE  /\ log_integrity(events[r]) <=>
                           \A j, k \in DOMAIN events[r] :
                             /\ events[r][k].key = k - 1
                             /\ j < k => events[r][j].attempt <= events[r][k].attempt
                                          /\ ~events[r][j].final
                      /\ spend_consistency(runs[r].spent, events[r])
    BY Zenon DEF ChecksExact
  <2>1. events[r] \in Seq(Event)
    BY DEF TypeOK
  <2>2. runs[r].spent = Recorded(events[r])
    BY DEF SpendConsistency
  <2>3. spend_consistency(runs[r].spent, events[r])
    BY <2>1, <2>2, SpendSum
  <2> QED
    BY <2>1, <2>3, IntegrityExact, Zenon
<1> QED
  BY <1>1, TypeCorrect, SpendRecorded, PTL
-----------------------------------------------------------------------------
(***************************************************************************)
(* With fencing, the log of a run has one writer at a time, whatever       *)
(* crashes, pauses, lapsed leases and database errors happen.              *)
(*                                                                         *)
(* Every worker step but Claim keeps or drops the worker's claim; IInv     *)
(* says what a claim is good for. Its heart is ReplayCurrent (as long as   *)
(* the claim is held nobody else appends, so what was replayed is still    *)
(* the whole log) and FenceLocks (past the fence the claim stays held,     *)
(* because the row is locked until the transaction ends).                  *)
(***************************************************************************)
\* A polling worker has no claim (run_worker's loop).
PollingIdle == \A w \in Workers : pc[w] = "poll" => job[w].run = NULL

\* A task has been claimed if it is leased, and has not if it was not submitted
\* (claim_task counts the attempt in the statement that leases the row).
ClaimsCounted ==
  \A r \in Runs : /\ tasks[r].status = "none" => tasks[r].attempt = 0
                  /\ tasks[r].status = "leased" => tasks[r].attempt >= 1

\* While a worker holds its claim, what execute_task replayed is the whole log.
ReplayCurrent ==
  \A w \in Workers :
    pc[w] \in {"exec", "begin", "check", "append"} /\ Holds(w, job[w].run)
      => job[w].idx = Len(events[job[w].run])

\* Past the fence check the claim is held and the task's row locked (assert_lease).
FenceLocks ==
  \A w \in Workers : pc[w] = "append" => Holds(w, job[w].run) /\ lock[job[w].run] = w

\* The log of a run: keys in order, attempts too, none above the task's (append_event).
Ordered(log, token) ==
  \A k \in DOMAIN log :
    /\ log[k].key = k - 1
    /\ log[k].attempt <= token
    /\ log[k].final => k = Len(log)
    /\ \A j \in DOMAIN log : j < k => log[j].attempt <= log[k].attempt

LogOrdered == \A r \in Runs : Ordered(events[r], tasks[r].attempt)

\* The inductive invariant.
IInv ==
  /\ TypeOK
  /\ JobOwned
  /\ PollingIdle
  /\ ClaimsCounted
  /\ TokensUnique
  /\ ReplayCurrent
  /\ FenceLocks
  /\ LogOrdered
  /\ TablesAgree
-----------------------------------------------------------------------------
\* The steps of a worker other than Claim.
WorkerStep(w) ==
  Heartbeat(w) \/ HeartbeatLost(w) \/ Reap(w) \/ TaskStep(w) \/ Resume(w) \/ Fault(w)

\* What such a step leaves alone. The other workers:
OthersStay(w) == \A v \in Workers \ {w} : pc'[v] = pc[v] /\ job'[v] = job[v]
\* its own claim, unless it drops it;
ClaimKeptOrDropped(w) ==
  \/ pc'[w] = "poll" /\ job'[w].run = NULL
  \/ /\ pc'[w] # "poll" /\ pc[w] # "poll"
     /\ job'[w].run = job[w].run /\ job'[w].attempt = job[w].attempt
\* the tokens and the leases, which it can only end;
LeasesOnlyEnd ==
  \A r \in Runs :
    /\ tasks'[r].attempt = tasks[r].attempt
    /\ tasks'[r].status = "leased" =>
         tasks[r].status = "leased" /\ tasks'[r].owner = tasks[r].owner
\* and the rows that another worker has locked.
LockedRowsStay(w) ==
  \A r \in Runs : lock[r] # NULL /\ lock[r] # w =>
    /\ lock'[r] = lock[r]
    /\ tasks'[r].status = tasks[r].status
    /\ tasks'[r].owner = tasks[r].owner
\* Only a worker past the fence appends, and only to the log of its own run.
AppendsOwn(w) ==
  \A r \in Runs : events'[r] # events[r] => pc[w] = "append" /\ r = job[w].run

Frame(w) ==
  /\ OthersStay(w)
  /\ ClaimKeptOrDropped(w)
  /\ LeasesOnlyEnd
  /\ LockedRowsStay(w)
  /\ AppendsOwn(w)

\* A commit changes the rows of the committing worker's run only, and ends its
\* lease only (commit_step).
LEMMA CommitFrame ==
  ASSUME TypeOK, FenceLocks, NEW w \in Workers, job[w].run \in Runs, pc[w] = "append",
         CommitEffect(w)
  PROVE  LeasesOnlyEnd /\ LockedRowsStay(w) /\ AppendsOwn(w)
<1> DEFINE r == job[w].run
<1>1. lock[r] = w /\ r \in Runs
  BY DEF FenceLocks
<1>2. lock' = [lock EXCEPT ![r] = NULL]
  BY DEF CommitEffect
<1>3. \/ tasks' = tasks
      \/ tasks' = [tasks EXCEPT ![r].status = IF job[w].out.final THEN "done" ELSE @]
  BY DEF CommitEffect
<1>4. \/ events' = events
      \/ events' = [events EXCEPT ![r] = Append(@, NewEvent(w))]
  BY DEF CommitEffect, NewEvent
<1> HIDE DEF r
<1>5. \A q \in Runs : /\ tasks'[q].attempt = tasks[q].attempt
                      /\ tasks'[q].owner = tasks[q].owner
                      /\ q # r => tasks'[q].status = tasks[q].status
                      /\ tasks'[q].status \in {tasks[q].status, "done"}
  BY <1>1, <1>3 DEF TypeOK, Task
<1>6. LeasesOnlyEnd
  BY <1>5 DEF LeasesOnlyEnd
<1>7. LockedRowsStay(w)
  BY <1>1, <1>2, <1>5 DEF LockedRowsStay, TypeOK
<1>8. AppendsOwn(w)
  BY <1>1, <1>4 DEF AppendsOwn, TypeOK, r
<1> QED
  BY <1>6, <1>7, <1>8

\* Every worker step but Claim has the frame.
LEMMA FrameStep ==
  ASSUME TypeOK, JobOwned, PollingIdle, FenceLocks, NEW w \in Workers, WorkerStep(w)
  PROVE  Frame(w)
<1> USE DEF dbVars, workerVars
<1>1. CASE Heartbeat(w)
  <2>1. pc' = pc /\ job' = job /\ events' = events /\ lock' = lock
    BY <1>1 DEF Heartbeat
  <2>2. \A r \in Runs : /\ tasks'[r].attempt = tasks[r].attempt
                        /\ tasks'[r].status = tasks[r].status
                        /\ tasks'[r].owner = tasks[r].owner
    BY <1>1 DEF Heartbeat, TypeOK, Task
  <2> QED
    BY <2>1, <2>2 DEF Frame, OthersStay, ClaimKeptOrDropped, LeasesOnlyEnd, LockedRowsStay,
                      AppendsOwn, PollingIdle
<1>2. CASE UNCHANGED dbVars /\ OthersStay(w) /\ ClaimKeptOrDropped(w)
  BY <1>2 DEF Frame, LeasesOnlyEnd, LockedRowsStay, AppendsOwn
<1>3. CASE HeartbeatLost(w)
  <2>1. OthersStay(w) /\ ClaimKeptOrDropped(w)
    BY <1>3 DEF HeartbeatLost, BackToPoll, Goto, NoJob, OthersStay, ClaimKeptOrDropped, TypeOK
  <2> QED
    BY <1>2, <1>3, <2>1 DEF HeartbeatLost
<1>4. CASE Reap(w)
  <2>1. pc' = pc /\ job' = job /\ events' = events /\ lock' = lock
    BY <1>4 DEF Reap
  <2>2. \A r \in Runs : /\ tasks'[r].attempt = tasks[r].attempt
                        /\ tasks'[r].status = "leased" =>
                             tasks[r].status = "leased" /\ tasks'[r].owner = tasks[r].owner
                        /\ lock[r] # NULL => tasks'[r] = tasks[r]
    BY <1>4 DEF Reap, Expired, Unlocked, TypeOK, Task
  <2> QED
    BY <2>1, <2>2 DEF Frame, OthersStay, ClaimKeptOrDropped, LeasesOnlyEnd, LockedRowsStay,
                      AppendsOwn, PollingIdle
<1>5. CASE TaskStep(w)
  <2>1. CASE ReadEvents(w)
    <3>1. OthersStay(w) /\ ClaimKeptOrDropped(w)
      BY <2>1 DEF ReadEvents, Goto, OthersStay, ClaimKeptOrDropped, TypeOK, Job
    <3> QED
      BY <1>2, <2>1, <3>1 DEF ReadEvents
  <2>2. CASE NextStep(w)
    <3>1. OthersStay(w) /\ ClaimKeptOrDropped(w)
      BY <2>2 DEF NextStep, Goto, OthersStay, ClaimKeptOrDropped, TypeOK, Job
    <3> QED
      BY <1>2, <2>2, <3>1 DEF NextStep
  <2>3. ASSUME NEW fatal \in BOOLEAN, StepRaises(w, fatal) PROVE Frame(w)
    <3>1. OthersStay(w) /\ ClaimKeptOrDropped(w)
      BY <2>3 DEF StepRaises, Goto, OthersStay, ClaimKeptOrDropped, TypeOK, Job
    <3> QED
      BY <1>2, <2>3, <3>1 DEF StepRaises
  <2>4. CASE Begin(w)
    <3>1. OthersStay(w) /\ ClaimKeptOrDropped(w)
      BY <2>4 DEF Begin, Goto, OthersStay, ClaimKeptOrDropped, TypeOK, Job
    <3> QED
      BY <1>2, <2>4, <3>1 DEF Begin
  <2>5. CASE AssertLease(w)
    <3>1. OthersStay(w) /\ ClaimKeptOrDropped(w)
      BY <2>5 DEF AssertLease, BackToPoll, Goto, NoJob, OthersStay, ClaimKeptOrDropped, TypeOK
    <3>2. LockedRowsStay(w)
      BY <2>5 DEF AssertLease, LockedRowsStay, Unlocked, TypeOK
    <3> QED
      BY <2>5, <3>1, <3>2 DEF AssertLease, Frame, LeasesOnlyEnd, AppendsOwn
  <2>6. CASE Commit(w)
    <3>1. OthersStay(w)
      BY <2>6 DEF Commit, BackToPoll, Goto, OthersStay, TypeOK
    <3>2. ClaimKeptOrDropped(w)
      <4>1. CASE job[w].out.final
        BY <2>6, <4>1 DEF Commit, BackToPoll, Goto, NoJob, ClaimKeptOrDropped, TypeOK
      <4>2. CASE ~job[w].out.final
        <5>1. job'[w] = [NoJob EXCEPT !.run = job[w].run, !.attempt = job[w].attempt]
          BY <2>6, <4>2 DEF Commit, TypeOK
        <5>2. job'[w].run = job[w].run /\ job'[w].attempt = job[w].attempt
          BY <5>1 DEF NoJob
        <5> QED
          BY <2>6, <4>2, <5>2 DEF Commit, Goto, ClaimKeptOrDropped, TypeOK
      <4> QED
        BY <4>1, <4>2
    <3>3. job[w].run \in Runs /\ pc[w] = "append" /\ CommitEffect(w)
      BY <2>6 DEF Commit, JobOwned
    <3> QED
      BY <3>1, <3>2, <3>3, CommitFrame DEF Frame
  <2>7. CASE ReleaseTask(w)
    <3>1. OthersStay(w) /\ ClaimKeptOrDropped(w)
      BY <2>7 DEF ReleaseTask, BackToPoll, Goto, NoJob, OthersStay, ClaimKeptOrDropped, TypeOK
    <3>2. \A r \in Runs : /\ tasks'[r].attempt = tasks[r].attempt
                          /\ tasks'[r].status = "leased" =>
                               tasks[r].status = "leased" /\ tasks'[r].owner = tasks[r].owner
                          /\ lock[r] # NULL => tasks'[r] = tasks[r]
      BY <2>7 DEF ReleaseTask, Unlocked, TypeOK, Task
    <3>3. lock' = lock /\ events' = events
      BY <2>7 DEF ReleaseTask
    <3> QED
      BY <3>1, <3>2, <3>3 DEF Frame, LeasesOnlyEnd, LockedRowsStay, AppendsOwn
  <2>8. CASE FailRun(w)
    <3>1. OthersStay(w) /\ ClaimKeptOrDropped(w)
      BY <2>8 DEF FailRun, Goto, OthersStay, ClaimKeptOrDropped, TypeOK, Job
    <3> QED
      BY <1>2, <2>8, <3>1 DEF FailRun
  <2> QED
    BY <1>5, <2>1, <2>2, <2>3, <2>4, <2>5, <2>6, <2>7, <2>8 DEF TaskStep
<1>6. CASE Resume(w)
  BY <1>2, <1>6 DEF Resume, OthersStay, ClaimKeptOrDropped, PollingIdle
<1>7. CASE Fault(w)
  <2>1. ASSUME Raise(w) PROVE OthersStay(w) /\ ClaimKeptOrDropped(w)
    BY <2>1 DEF Raise, Unguarded, BackToPoll, Goto, NoJob, OthersStay, ClaimKeptOrDropped, TypeOK
  <2>2. ASSUME lock' = [r \in Runs |-> IF lock[r] = w THEN NULL ELSE lock[r]],
               tasks' = tasks, events' = events
        PROVE  LeasesOnlyEnd /\ LockedRowsStay(w) /\ AppendsOwn(w)
    BY <2>2 DEF LeasesOnlyEnd, LockedRowsStay, AppendsOwn
  <2>3. CASE DbError(w)
    BY <2>1, <2>2, <2>3 DEF DbError, Frame
  <2>4. CASE CommitAckLost(w)
    <3>1. job[w].run \in Runs /\ pc[w] = "append" /\ CommitEffect(w) /\ Raise(w)
      BY <2>4 DEF CommitAckLost, JobOwned
    <3> QED
      BY <2>1, <3>1, CommitFrame DEF Frame
  <2>5. CASE Crash(w)
    <3>1. OthersStay(w) /\ ClaimKeptOrDropped(w)
      BY <2>5 DEF Crash, BackToPoll, Goto, NoJob, OthersStay, ClaimKeptOrDropped, TypeOK
    <3> QED
      BY <2>2, <2>5, <3>1 DEF Crash, Frame
  <2>6. CASE ReaperDies(w) \/ Restart(w) \/ Pause(w)
    BY <1>2, <2>6 DEF ReaperDies, Restart, Pause, OthersStay, ClaimKeptOrDropped, PollingIdle
  <2> QED
    BY <1>7, <2>3, <2>4, <2>5, <2>6 DEF Fault
<1> QED
  BY <1>1, <1>3, <1>4, <1>5, <1>6, <1>7 DEF WorkerStep

\* The two parts of IInv that are about one worker.
ReplayCurrentOf(w) ==
  pc[w] \in {"exec", "begin", "check", "append"} /\ Holds(w, job[w].run)
    => job[w].idx = Len(events[job[w].run])

FenceLocksOf(w) == pc[w] = "append" => Holds(w, job[w].run) /\ lock[job[w].run] = w

\* A worker's step leaves every other worker's claim as good as it was.
LEMMA OthersSafe ==
  ASSUME IInv, JobOwned', NEW w \in Workers, Frame(w), ReplayCurrentOf(w)', FenceLocksOf(w)'
  PROVE  PollingIdle' /\ TokensUnique' /\ ReplayCurrent' /\ FenceLocks'
<1>0. /\ \A v \in Workers : v # NULL
      /\ \A r \in Runs : r # NULL
  BY ConstantsAssumption
<1>1. PollingIdle'
  BY DEF IInv, PollingIdle, Frame, OthersStay, ClaimKeptOrDropped
<1>2. TokensUnique'
  BY <1>0 DEF IInv, JobOwned, PollingIdle, TokensUnique, Frame, OthersStay, ClaimKeptOrDropped,
          LeasesOnlyEnd
<1>3. ReplayCurrent'
  <2> SUFFICES ASSUME NEW v \in Workers \ {w}, (pc[v] \in {"exec", "begin", "check", "append"})',
                      Holds(v, job[v].run)'
               PROVE  (job[v].idx = Len(events[job[v].run]))'
    BY DEF ReplayCurrent, ReplayCurrentOf
  <2> DEFINE r == job[v].run
  <2>1. pc'[v] = pc[v] /\ job'[v] = job[v] /\ r \in Runs
    BY DEF Frame, OthersStay, IInv, JobOwned
  <2>2. Holds(v, r)
    BY <2>1 DEF Holds, Frame, LeasesOnlyEnd
  <2>3. job[v].idx = Len(events[r])
    BY <2>1, <2>2 DEF IInv, ReplayCurrent
  <2>4. events'[r] = events[r]
    <3> SUFFICES ASSUME pc[w] = "append", r = job[w].run PROVE FALSE
      BY <2>1 DEF Frame, AppendsOwn
    <3>1. Holds(w, r)
      BY DEF IInv, FenceLocks
    <3>2. job[w].attempt = job[v].attempt
      BY <2>2, <3>1 DEF Holds
    <3> QED
      BY <3>2 DEF IInv, TokensUnique
  <2> QED
    BY <2>1, <2>3, <2>4
<1>4. FenceLocks'
  <2> SUFFICES ASSUME NEW v \in Workers \ {w}, (pc[v] = "append")'
               PROVE  (Holds(v, job[v].run) /\ lock[job[v].run] = v)'
    BY DEF FenceLocks, FenceLocksOf
  <2>1. pc'[v] = pc[v] /\ job'[v] = job[v] /\ job[v].run \in Runs
    BY DEF Frame, OthersStay, IInv, JobOwned
  <2>2. Holds(v, job[v].run) /\ lock[job[v].run] = v
    BY <2>1 DEF IInv, FenceLocks
  <2> QED
    BY <1>0, <2>1, <2>2 DEF Frame, LockedRowsStay, LeasesOnlyEnd, Holds
<1> QED
  BY <1>1, <1>2, <1>3, <1>4

\* A worker's own claim: what it replayed is the log it will append to, and past
\* the fence it holds the lock (execute_task, commit_step with fencing).
LEMMA OwnSafe ==
  ASSUME IInv, Fencing, NEW w \in Workers, WorkerStep(w)
  PROVE  ReplayCurrentOf(w)' /\ FenceLocksOf(w)'
<1> USE DEF dbVars, workerVars
<1>0. /\ Frame(w) /\ w # NULL /\ NULL \notin Runs
      /\ TypeOK /\ JobOwned /\ PollingIdle /\ ReplayCurrentOf(w) /\ FenceLocksOf(w)
  BY FrameStep, ConstantsAssumption DEF IInv, ReplayCurrent, ReplayCurrentOf, FenceLocks, FenceLocksOf
<1>1. ASSUME pc' = pc, job' = job, events' = events, lock' = lock,
             \A r \in Runs : lock[r] = w => tasks'[r].status = tasks[r].status
                                            /\ tasks'[r].owner = tasks[r].owner
      PROVE  ReplayCurrentOf(w)' /\ FenceLocksOf(w)'
  BY <1>0, <1>1 DEF ReplayCurrentOf, FenceLocksOf, Holds, Frame, LeasesOnlyEnd, JobOwned
<1>2. ASSUME pc'[w] \in {"poll", "read", "error"}
      PROVE  ReplayCurrentOf(w)' /\ FenceLocksOf(w)'
  BY <1>2 DEF ReplayCurrentOf, FenceLocksOf
<1>3. CASE Heartbeat(w)
  BY <1>0, <1>1, <1>3 DEF Heartbeat, TypeOK, Task
<1>4. CASE HeartbeatLost(w)
  BY <1>0, <1>2, <1>4 DEF HeartbeatLost, BackToPoll, Goto, TypeOK
<1>5. CASE Reap(w)
  <2>1. \A r \in Runs : lock[r] = w => tasks'[r] = tasks[r]
    BY <1>0, <1>5 DEF Reap, Expired, Unlocked
  <2> QED
    BY <1>1, <1>5, <2>1 DEF Reap
<1>6. CASE TaskStep(w)
  <2>1. CASE ReadEvents(w)
    <3>1. job'[w].idx = Len(events[job[w].run]) /\ job'[w].run = job[w].run /\ pc'[w] = "exec"
      BY <1>0, <2>1 DEF ReadEvents, Goto, TypeOK, Job
    <3> QED
      BY <2>1, <3>1 DEF ReadEvents, ReplayCurrentOf, FenceLocksOf
  <2>2. CASE NextStep(w)
    <3>1. /\ job'[w].idx = job[w].idx /\ job'[w].run = job[w].run
          /\ job'[w].attempt = job[w].attempt /\ pc'[w] = "begin"
      BY <1>0, <2>2 DEF NextStep, Goto, TypeOK, Job
    <3> QED
      BY <1>0, <2>2, <3>1 DEF NextStep, ReplayCurrentOf, FenceLocksOf, Holds
  <2>3. ASSUME NEW fatal \in BOOLEAN, StepRaises(w, fatal)
        PROVE  ReplayCurrentOf(w)' /\ FenceLocksOf(w)'
    BY <1>0, <1>2, <2>3 DEF StepRaises, Goto, TypeOK
  <2>4. CASE Begin(w)
    <3>1. /\ job'[w].idx = job[w].idx /\ job'[w].run = job[w].run
          /\ job'[w].attempt = job[w].attempt /\ pc'[w] = "check"
      BY <1>0, <2>4 DEF Begin, Goto, TypeOK, Job
    <3> QED
      BY <1>0, <2>4, <3>1 DEF Begin, ReplayCurrentOf, FenceLocksOf, Holds
  <2>5. CASE AssertLease(w)
    <3>1. \/ pc'[w] = "poll"
          \/ /\ pc'[w] = "append" /\ job' = job
             /\ Holds(w, job[w].run) /\ lock' = [lock EXCEPT ![job[w].run] = w]
      BY <1>0, <2>5 DEF AssertLease, BackToPoll, Goto, TypeOK
    <3>2. pc[w] = "check" /\ job[w].run \in Runs /\ tasks' = tasks /\ events' = events
      BY <1>0, <2>5 DEF AssertLease, JobOwned
    <3> QED
      BY <1>0, <3>1, <3>2 DEF ReplayCurrentOf, FenceLocksOf, Holds, TypeOK
  <2>6. CASE Commit(w)
    BY <1>0, <1>2, <2>6 DEF Commit, BackToPoll, Goto, TypeOK
  <2>7. CASE ReleaseTask(w)
    BY <1>0, <1>2, <2>7 DEF ReleaseTask, BackToPoll, Goto, TypeOK
  <2>8. CASE FailRun(w)
    <3>1. job'[w].idx = Len(events[job[w].run]) /\ job'[w].run = job[w].run /\ pc'[w] = "begin"
      BY <1>0, <2>8 DEF FailRun, Goto, TypeOK, Job
    <3> QED
      BY <2>8, <3>1 DEF FailRun, ReplayCurrentOf, FenceLocksOf
  <2> QED
    BY <1>6, <2>1, <2>2, <2>3, <2>4, <2>5, <2>6, <2>7, <2>8 DEF TaskStep
<1>7. CASE Resume(w)
  BY <1>1, <1>7 DEF Resume
<1>8. CASE Fault(w)
  <2>1. CASE DbError(w) \/ CommitAckLost(w) \/ Crash(w)
    BY <1>0, <1>2, <2>1 DEF DbError, CommitAckLost, Crash, Raise, BackToPoll, Goto, TypeOK
  <2>2. CASE ReaperDies(w) \/ Restart(w) \/ Pause(w)
    BY <1>1, <2>2 DEF ReaperDies, Restart, Pause
  <2> QED
    BY <1>8, <2>1, <2>2 DEF Fault
<1> QED
  BY <1>3, <1>4, <1>5, <1>6, <1>7, <1>8 DEF WorkerStep

\* The parts of IInv that are about the tables alone.
TablesInv == ClaimsCounted /\ LogOrdered /\ TablesAgree

\* A step that leaves runs and events alone and of a task's row changes at most
\* leased to queued keeps them (reap_expired, release_task, heartbeat).
LEMMA RequeueSafe ==
  ASSUME IInv, events' = events, runs' = runs,
         \A r \in Runs : /\ tasks'[r].attempt = tasks[r].attempt
                         /\ \/ tasks'[r].status = tasks[r].status
                            \/ tasks[r].status = "leased" /\ tasks'[r].status = "queued"
  PROVE  TablesInv'
<1>1. ClaimsCounted'
  BY DEF IInv, ClaimsCounted
<1>2. LogOrdered'
  BY DEF IInv, LogOrdered
<1>3. TablesAgree'
  <2> SUFFICES ASSUME NEW r \in Runs
               PROVE  /\ tasks'[r].status = "none" <=> runs[r].status = "absent"
                      /\ tasks'[r].status = "done" <=> runs[r].status \in Terminal
                      /\ tasks'[r].status = "done" <=> Finished(events[r])
                      /\ runs[r].status = "pending" <=>
                           (tasks'[r].status = "queued" /\ tasks'[r].attempt = 0)
    BY DEF TablesAgree, Finished
  <2> QED
    BY DEF IInv, TablesAgree, ClaimsCounted, TypeOK, Task
<1> QED
  BY <1>1, <1>2, <1>3 DEF TablesInv

\* The step a worker past the fence commits is the next one, and not yet there.
LEMMA InsertedAtEnd ==
  ASSUME IInv, NEW w \in Workers, pc[w] = "append"
  PROVE  /\ job[w].run \in Runs /\ Holds(w, job[w].run)
         /\ job[w].idx = Len(events[job[w].run])
         /\ Inserted(w)
<1>1. job[w].run \in Runs /\ Holds(w, job[w].run) /\ job[w].idx = Len(events[job[w].run])
  BY DEF IInv, JobOwned, FenceLocks, ReplayCurrent
<1>2. \A k \in DOMAIN events[job[w].run] : events[job[w].run][k].key = k - 1 /\ k <= job[w].idx
  BY <1>1 DEF IInv, LogOrdered, Ordered, TypeOK
<1>3. \A k \in DOMAIN events[job[w].run] : k \in Nat
  BY <1>1 DEF IInv, TypeOK
<1>4. Inserted(w)
  BY <1>2, <1>3 DEF Inserted, IInv, TypeOK, Job
<1> QED
  BY <1>1, <1>4

\* What a commit past the fence does to the tables, without the redundant look-up.
LEMMA CommitIs ==
  ASSUME IInv, NEW w \in Workers, pc[w] = "append", CommitEffect(w)
  PROVE  LET r == job[w].run IN
         /\ r \in Runs /\ tasks[r].status = "leased" /\ tasks[r].attempt = job[w].attempt
         /\ NewEvent(w) \in Event /\ NewEvent(w).key = Len(events[r])
         /\ NewEvent(w).attempt = job[w].attempt /\ NewEvent(w).final = job[w].out.final
         /\ events' = [events EXCEPT ![r] = Append(events[r], NewEvent(w))]
         /\ \A q \in Runs : tasks'[q].attempt = tasks[q].attempt
         /\ \A q \in Runs \ {r} : tasks'[q].status = tasks[q].status
                                  /\ runs'[q].status = runs[q].status
         /\ tasks'[r].status = IF job[w].out.final THEN "done" ELSE "leased"
         /\ runs'[r].status = IF job[w].out.final THEN job[w].out.status ELSE runs[r].status
         /\ job[w].out.status \in Terminal
<1> DEFINE r == job[w].run
<1>1. r \in Runs /\ Inserted(w) /\ job[w].idx = Len(events[r])
      /\ tasks[r].status = "leased" /\ tasks[r].attempt = job[w].attempt
  BY InsertedAtEnd DEF Holds
<1>2. NewEvent(w) \in Event /\ job[w].out.status \in Terminal
  BY DEF IInv, TypeOK, Job, StepOutcome, NewEvent, Event
<1>3. NewEvent(w).key = Len(events[r]) /\ NewEvent(w).attempt = job[w].attempt
      /\ NewEvent(w).final = job[w].out.final
  BY <1>1 DEF NewEvent
<1>4. events' = [events EXCEPT ![r] = Append(events[r], NewEvent(w))]
  BY <1>1 DEF CommitEffect, NewEvent
<1>5. tasks' = [tasks EXCEPT ![r].status = IF job[w].out.final THEN "done" ELSE tasks[r].status]
  BY <1>1 DEF CommitEffect
<1>6. runs' = [runs EXCEPT ![r].spent = Numeric6(runs[r].spent + job[w].out.cost),
                           ![r].status = IF job[w].out.final THEN job[w].out.status
                                         ELSE runs[r].status]
  BY <1>1 DEF CommitEffect
<1> HIDE DEF r
<1>7. tasks \in [Runs -> Task] /\ runs \in [Runs -> Run]
  BY DEF IInv, TypeOK
<1>8. /\ \A q \in Runs : tasks'[q].attempt = tasks[q].attempt
      /\ \A q \in Runs \ {r} : tasks'[q].status = tasks[q].status
      /\ tasks'[r].status = IF job[w].out.final THEN "done" ELSE "leased"
  BY <1>1, <1>5, <1>7 DEF Task
<1>9. /\ \A q \in Runs \ {r} : runs'[q].status = runs[q].status
      /\ runs'[r].status = IF job[w].out.final THEN job[w].out.status ELSE runs[r].status
  BY <1>1, <1>6, <1>7 DEF Run
<1> QED
  BY <1>1, <1>2, <1>3, <1>4, <1>8, <1>9 DEF r

\* Appending: the old entries stay, the new one is last.
LEMMA AppendEntries ==
  ASSUME NEW s \in Seq(Event), NEW e \in Event
  PROVE  /\ Len(Append(s, e)) = Len(s) + 1 /\ Len(s) \in Nat
         /\ DOMAIN s = 1..Len(s) /\ DOMAIN Append(s, e) = 1..(Len(s) + 1)
         /\ \A k \in 1..Len(s) : Append(s, e)[k] = s[k] /\ s[k] \in Event
         /\ Append(s, e)[Len(s) + 1] = e
  OBVIOUS

\* Appending the next key under the highest token keeps an unfinished log ordered.
LEMMA AppendOrdered ==
  ASSUME NEW s \in Seq(Event), NEW e \in Event, NEW n \in Nat,
         Ordered(s, n), \A k \in 1..Len(s) : ~s[k].final, e.key = Len(s), e.attempt = n
  PROVE  Ordered(Append(s, e), n)
<1>1. PICK t : t = Append(s, e)
  OBVIOUS
<1>2. /\ Len(t) = Len(s) + 1 /\ Len(s) \in Nat
      /\ DOMAIN s = 1..Len(s) /\ DOMAIN t = 1..(Len(s) + 1)
      /\ \A k \in 1..Len(s) : t[k] = s[k] /\ s[k].attempt \in Nat
      /\ t[Len(s) + 1] = e
  <2>1. \A k \in 1..Len(s) : s[k] \in Event => s[k].attempt \in Nat
    BY DEF Event
  <2> QED
    BY <1>1, <2>1, AppendEntries
<1>3. ASSUME NEW k \in 1..(Len(s) + 1)
      PROVE  /\ t[k].key = k - 1
             /\ t[k].attempt <= n
             /\ t[k].final => k = Len(t)
             /\ \A j \in 1..(Len(s) + 1) : j < k => t[j].attempt <= t[k].attempt
  <2>1. CASE k = Len(s) + 1
    <3>1. \A j \in 1..(Len(s) + 1) : j < k => j \in 1..Len(s)
      BY <1>2, <2>1
    <3> QED
      BY <1>2, <2>1, <3>1 DEF Ordered
  <2>2. CASE k \in 1..Len(s)
    <3>1. \A j \in 1..(Len(s) + 1) : j < k => j \in 1..Len(s)
      BY <1>2, <2>2
    <3> QED
      BY <1>2, <2>2, <3>1 DEF Ordered
  <2> QED
    BY <1>2, <2>1, <2>2
<1> QED
  BY <1>1, <1>2, <1>3 DEF Ordered

\* A commit keeps the tables in agreement and the log in order (commit_step).
LEMMA CommitSafe ==
  ASSUME IInv, NEW w \in Workers, pc[w] = "append", CommitEffect(w)
  PROVE  TablesInv'
<1> DEFINE r == job[w].run
           e == NewEvent(w)
           s == events[r]
<1>0. /\ r \in Runs /\ tasks[r].status = "leased" /\ tasks[r].attempt = job[w].attempt
      /\ e \in Event /\ e.key = Len(s) /\ e.attempt = job[w].attempt
      /\ e.final = job[w].out.final
      /\ events' = [events EXCEPT ![r] = Append(s, e)]
      /\ \A q \in Runs : tasks'[q].attempt = tasks[q].attempt
      /\ \A q \in Runs \ {r} : tasks'[q].status = tasks[q].status
                               /\ runs'[q].status = runs[q].status
      /\ tasks'[r].status = IF job[w].out.final THEN "done" ELSE "leased"
      /\ runs'[r].status = IF job[w].out.final THEN job[w].out.status ELSE runs[r].status
      /\ job[w].out.status \in Terminal
  BY CommitIs
<1>1. events \in [Runs -> Seq(Event)] /\ tasks \in [Runs -> Task] /\ runs \in [Runs -> Run]
  BY DEF IInv, TypeOK
<1>2. /\ Len(Append(s, e)) = Len(s) + 1 /\ Len(s) \in Nat
      /\ DOMAIN s = 1..Len(s) /\ DOMAIN Append(s, e) = 1..(Len(s) + 1)
      /\ \A k \in 1..Len(s) : Append(s, e)[k] = s[k] /\ s[k] \in Event
      /\ Append(s, e)[Len(s) + 1] = e
  BY <1>0, <1>1, AppendEntries
<1>3. events'[r] = Append(s, e) /\ \A q \in Runs \ {r} : events'[q] = events[q]
  BY <1>0, <1>1
<1>4. Ordered(s, tasks[r].attempt) /\ tasks[r].attempt \in Nat
  BY <1>0, <1>1 DEF IInv, LogOrdered, Task
<1>5. ~Finished(s)
  BY <1>0 DEF IInv, TablesAgree
<1>6. \A k \in 1..Len(s) : ~s[k].final
  BY <1>2, <1>4, <1>5 DEF Finished, Ordered
<1> HIDE DEF r, e, s
<1>7. ClaimsCounted'
  BY <1>0 DEF IInv, ClaimsCounted
<1>8. LogOrdered'
  <2>1. \A q \in Runs \ {r} : Ordered(events'[q], tasks'[q].attempt)
    BY <1>0, <1>3 DEF IInv, LogOrdered
  <2>2. s \in Seq(Event)
    BY <1>0, <1>1 DEF s
  <2>3. Ordered(Append(s, e), tasks[r].attempt)
    BY <1>0, <1>4, <1>6, <2>2, AppendOrdered
  <2> QED
    BY <1>0, <1>3, <2>1, <2>3 DEF LogOrdered, Ordered
<1>9. TablesAgree'
  <2>1. Finished(Append(s, e)) <=> job[w].out.final
    BY <1>0, <1>2 DEF Finished
  <2>2. runs[r].status = "running"
    BY <1>0, <1>1 DEF IInv, TablesAgree, Run, RunStatus
  <2>3. ASSUME NEW q \in Runs \ {r}
        PROVE  /\ tasks'[q].status = "none" <=> runs'[q].status = "absent"
               /\ tasks'[q].status = "done" <=> runs'[q].status \in Terminal
               /\ tasks'[q].status = "done" <=> Finished(events'[q])
               /\ runs'[q].status = "pending" <=>
                    (tasks'[q].status = "queued" /\ tasks'[q].attempt = 0)
    BY <1>0, <1>3 DEF IInv, TablesAgree
  <2>4. /\ tasks'[r].status = "none" <=> runs'[r].status = "absent"
        /\ tasks'[r].status = "done" <=> runs'[r].status \in Terminal
        /\ tasks'[r].status = "done" <=> Finished(events'[r])
        /\ runs'[r].status = "pending" <=>
             (tasks'[r].status = "queued" /\ tasks'[r].attempt = 0)
    BY <1>0, <1>3, <2>1, <2>2 DEF Terminal
  <2> QED
    BY <1>0, <2>3, <2>4 DEF TablesAgree, Finished
<1> QED
  BY <1>7, <1>8, <1>9 DEF TablesInv

\* A worker's step keeps the tables in agreement.
LEMMA TablesSafe ==
  ASSUME IInv, NEW w \in Workers, WorkerStep(w)
  PROVE  TablesInv'
<1> USE DEF dbVars, workerVars
<1>1. CASE UNCHANGED <<runs, events, tasks>>
  BY <1>1, RequeueSafe
<1>2. CASE Heartbeat(w)
  <2>1. \A r \in Runs : tasks'[r].attempt = tasks[r].attempt /\ tasks'[r].status = tasks[r].status
    BY <1>2 DEF Heartbeat, IInv, TypeOK, Task
  <2> QED
    BY <1>2, <2>1, RequeueSafe DEF Heartbeat
<1>3. CASE Reap(w)
  <2>1. \A r \in Runs : /\ tasks'[r].attempt = tasks[r].attempt
                        /\ \/ tasks'[r].status = tasks[r].status
                           \/ tasks[r].status = "leased" /\ tasks'[r].status = "queued"
    BY <1>3 DEF Reap, Expired, IInv, TypeOK, Task
  <2> QED
    BY <1>3, <2>1, RequeueSafe DEF Reap
<1>4. CASE ReleaseTask(w)
  <2>1. \A r \in Runs : /\ tasks'[r].attempt = tasks[r].attempt
                        /\ \/ tasks'[r].status = tasks[r].status
                           \/ tasks[r].status = "leased" /\ tasks'[r].status = "queued"
    BY <1>4 DEF ReleaseTask, Holds, IInv, TypeOK, Task
  <2> QED
    BY <1>4, <2>1, RequeueSafe DEF ReleaseTask
<1>5. CASE Commit(w) \/ CommitAckLost(w)
  BY <1>5, CommitSafe DEF Commit, CommitAckLost
<1> QED
  BY <1>1, <1>2, <1>3, <1>4, <1>5
  DEF WorkerStep, HeartbeatLost, Resume, TaskStep, ReadEvents, NextStep, StepRaises, Begin,
      AssertLease, FailRun, Fault, DbError, ReaperDies, Crash, Restart, Pause

\* A claim gets a token above every other, and takes no row that is locked
\* (claim_task).
LEMMA ClaimSafe ==
  ASSUME IInv, TypeOK', JobOwned', NEW w \in Workers, NEW r \in Runs, Claim(w, r)
  PROVE  IInv'
<1> DEFINE n == tasks[r].attempt
<1>0. /\ NULL \notin Workers /\ NULL \notin Runs /\ n \in Nat
      /\ \A q \in Runs : tasks[q].attempt \in Nat
  BY ConstantsAssumption DEF IInv, TypeOK, Task
<1>1. /\ pc[w] = "poll" /\ pc'[w] = "read" /\ tasks[r].status = "queued" /\ lock[r] = NULL
      /\ \A v \in Workers \ {w} : pc'[v] = pc[v] /\ job'[v] = job[v]
      /\ events' = events /\ lock' = lock
  BY DEF Claim, Unlocked, Goto, IInv, TypeOK
<1>2. job'[w].run = r /\ job'[w].attempt = n + 1
  <2>1. job'[w] = [NoJob EXCEPT !.run = r, !.attempt = n + 1]
    BY DEF Claim, IInv, TypeOK
  <2> QED
    BY <2>1 DEF NoJob
<1>3. /\ tasks'[r].status = "leased" /\ tasks'[r].attempt = n + 1
      /\ \A q \in Runs \ {r} : tasks'[q] = tasks[q]
  BY DEF Claim, IInv, TypeOK
<1>4. /\ runs'[r].status = IF runs[r].status = "pending" THEN "running" ELSE runs[r].status
      /\ \A q \in Runs \ {r} : runs'[q] = runs[q]
  BY DEF Claim, IInv, TypeOK, Run
<1> HIDE DEF n
<1>5. PollingIdle' /\ ClaimsCounted'
  BY <1>0, <1>1, <1>3 DEF IInv, PollingIdle, ClaimsCounted
<1>6. TokensUnique'
  <2>1. ASSUME NEW v \in Workers \ {w}, pc[v] # "poll"
        PROVE  /\ job[v].run \in Runs /\ job[v].run # NULL
               /\ job[v].attempt \in 1..tasks'[job[v].run].attempt
               /\ job[v].run = r => job[v].attempt <= n
    BY <1>0, <1>3, <2>1 DEF IInv, JobOwned, TokensUnique, n
  <2>2. ASSUME NEW v \in Workers \ {w}, pc[v] = "poll" PROVE job[v].run = NULL
    BY <2>2 DEF IInv, PollingIdle
  <2>3. \A v \in Workers \ {w} : job[v].run = r => job[v].attempt # n + 1
    <3>1. \A v \in Workers : job[v].attempt \in Nat
      BY DEF IInv, TypeOK, Job
    <3>2. \A v \in Workers \ {w} : job[v].run = r => job[v].attempt <= n
      BY <1>0, <2>1, <2>2
    <3> QED
      BY <1>0, <3>1, <3>2
  <2>4. \A v, u \in Workers \ {w} :
          pc[v] # "poll" /\ u # v /\ job[u].run = job[v].run => job[u].attempt # job[v].attempt
    BY DEF IInv, TokensUnique
  <2>5. n + 1 \in 1..tasks'[r].attempt
    BY <1>0, <1>3
  <2> QED
    BY <1>1, <1>2, <2>1, <2>3, <2>4, <2>5 DEF TokensUnique
<1>7. ReplayCurrent'
  <2> SUFFICES ASSUME NEW v \in Workers \ {w}, pc[v] \in {"exec", "begin", "check", "append"},
                      Holds(v, job[v].run)'
               PROVE  job[v].idx = Len(events[job[v].run])
    BY <1>1 DEF ReplayCurrent
  <2>1. job[v].run \in Runs /\ job[v].attempt \in 1..tasks[job[v].run].attempt
    BY DEF IInv, JobOwned, TokensUnique
  <2>2. job[v].run # r
    BY <1>0, <1>1, <1>3, <2>1 DEF Holds, n
  <2>3. Holds(v, job[v].run)
    BY <1>1, <1>3, <2>1, <2>2 DEF Holds
  <2> QED
    BY <2>3 DEF IInv, ReplayCurrent
<1>8. FenceLocks'
  <2> SUFFICES ASSUME NEW v \in Workers \ {w}, pc[v] = "append"
               PROVE  (Holds(v, job[v].run) /\ lock[job[v].run] = v)'
    BY <1>1 DEF FenceLocks
  <2>1. job[v].run \in Runs /\ Holds(v, job[v].run) /\ lock[job[v].run] = v
    BY DEF IInv, JobOwned, FenceLocks
  <2> QED
    BY <1>0, <1>1, <1>3, <2>1 DEF Holds
<1>9. LogOrdered'
  <2>1. \A k \in DOMAIN events[r] : events[r][k].attempt \in Nat
    <3>1. events[r] \in Seq(Event)
      BY DEF IInv, TypeOK
    <3>2. \A k \in DOMAIN events[r] : events[r][k] \in Event
      BY <3>1
    <3> QED
      BY <3>2 DEF Event
  <2>2. Ordered(events[r], n + 1)
    BY <1>0, <2>1 DEF IInv, LogOrdered, Ordered, n
  <2> QED
    BY <1>1, <1>3, <2>2 DEF IInv, LogOrdered, Ordered
<1>10. TablesAgree'
  <2>1. runs[r].status \in {"pending", "running"} /\ ~Finished(events[r])
    BY <1>1 DEF IInv, TablesAgree, TypeOK, Run, RunStatus
  <2>2. /\ runs'[r].status = "running" /\ tasks'[r].status = "leased"
        /\ ~Finished(events'[r])
    BY <1>1, <1>3, <1>4, <2>1
  <2> QED
    BY <1>1, <1>3, <1>4, <2>2 DEF IInv, TablesAgree, Finished, Terminal
<1> QED
  BY <1>5, <1>6, <1>7, <1>8, <1>9, <1>10 DEF IInv

\* A step that changes the tables only, keeps every token, and leaves leased rows
\* leased (submit_run, and time) keeps the claims as they are.
LEMMA RowsSafe ==
  ASSUME IInv, TypeOK', pc' = pc, job' = job, events' = events, lock' = lock,
         \A r \in Runs : /\ tasks'[r].attempt = tasks[r].attempt
                         /\ tasks'[r].owner = tasks[r].owner
                         /\ tasks'[r].status = "leased" <=> tasks[r].status = "leased",
         TablesInv'
  PROVE  IInv'
<1>1. JobOwned' /\ PollingIdle'
  BY DEF IInv, JobOwned, PollingIdle
<1>2. TokensUnique'
  BY DEF IInv, JobOwned, TokensUnique
<1>3. \A w \in Workers : pc[w] # "poll" => Holds(w, job[w].run)' = Holds(w, job[w].run)
  BY DEF IInv, JobOwned, Holds
<1>4. ReplayCurrent' /\ FenceLocks'
  BY <1>3 DEF IInv, ReplayCurrent, FenceLocks, Holds
<1> QED
  BY <1>1, <1>2, <1>4 DEF IInv, TablesInv

\* IInv is inductive: the step.
LEMMA IInvStep ==
  ASSUME Fencing, IInv, [Next]_vars
  PROVE  IInv'
<1>0. TypeOK' /\ JobOwned'
  BY TypeStep, JobOwnedStep DEF IInv
<1> USE DEF dbVars, workerVars, vars
<1>1. ASSUME NEW r \in Runs, Submit(r) PROVE IInv'
  <2>0. runs[r].status = "absent" /\ tasks[r].status = "none" /\ tasks[r].attempt = 0
        /\ ~Finished(events[r])
    BY <1>1 DEF Submit, IInv, TablesAgree, ClaimsCounted, Terminal
  <2>1. /\ \A q \in Runs : /\ tasks'[q].attempt = tasks[q].attempt
                           /\ tasks'[q].owner = tasks[q].owner
                           /\ tasks'[q].status = IF q = r THEN "queued" ELSE tasks[q].status
                           /\ runs'[q].status = IF q = r THEN "pending" ELSE runs[q].status
    BY <1>1 DEF Submit, IInv, TypeOK, Task, Run
  <2>2. events' = events /\ pc' = pc /\ job' = job /\ lock' = lock
    BY <1>1 DEF Submit
  <2>3. ClaimsCounted' /\ LogOrdered'
    BY <2>0, <2>1, <2>2 DEF IInv, ClaimsCounted, LogOrdered, Ordered
  <2>4. TablesAgree'
    BY <2>0, <2>1, <2>2 DEF IInv, TablesAgree, Finished, Terminal
  <2> QED
    BY <1>0, <2>0, <2>1, <2>2, <2>3, <2>4, RowsSafe DEF TablesInv
<1>2. ASSUME NEW w \in Workers, NEW r \in Runs, Claim(w, r) PROVE IInv'
  BY <1>0, <1>2, ClaimSafe
<1>3. ASSUME NEW w \in Workers, WorkerStep(w) PROVE IInv'
  <2>1. Frame(w) /\ ReplayCurrentOf(w)' /\ FenceLocksOf(w)' /\ TablesInv'
    BY <1>3, FrameStep, OwnSafe, TablesSafe DEF IInv
  <2>2. PollingIdle' /\ TokensUnique' /\ ReplayCurrent' /\ FenceLocks'
    BY <1>0, <2>1, OthersSafe
  <2> QED
    BY <1>0, <2>1, <2>2 DEF IInv, TablesInv
<1>4. CASE Tick \/ Lapse
  <2>1. /\ \A q \in Runs : /\ tasks'[q].attempt = tasks[q].attempt
                           /\ tasks'[q].owner = tasks[q].owner
                           /\ tasks'[q].status = tasks[q].status
    <3>1. \A q \in Runs : tasks'[q] = Aged(tasks[q]) /\ tasks[q] \in Task
      BY <1>4 DEF Tick, Lapse, TimePasses, IInv, TypeOK
    <3>2. ASSUME NEW t \in Task
          PROVE  /\ Aged(t).attempt = t.attempt /\ Aged(t).owner = t.owner
                 /\ Aged(t).status = t.status
      BY DEF Aged, Task
    <3> QED
      BY <3>1, <3>2
  <2>2. runs' = runs /\ events' = events /\ pc' = pc /\ job' = job /\ lock' = lock
    BY <1>4 DEF Tick, Lapse
  <2> QED
    BY <1>0, <2>1, <2>2, RequeueSafe, RowsSafe
<1>5. CASE UNCHANGED vars
  BY <1>0, <1>5, RequeueSafe, RowsSafe
<1> QED
  BY <1>1, <1>2, <1>3, <1>4, <1>5 DEF Next, WorkerStep

\* The inductive invariant holds of the fenced engine (PHOENIX_UNSAFE_NO_FENCING unset).
THEOREM FencedInvariant == ASSUME Fencing PROVE Spec => []IInv
<1>1. Init => IInv
  <2> SUFFICES ASSUME Init PROVE IInv
    OBVIOUS
  <2>1. TypeOK
    BY ConstantsAssumption, NoJobType
    DEF Init, TypeOK, Run, RunStatus, Event, Task, PCs, FaultKinds
  <2>2. JobOwned /\ PollingIdle /\ TokensUnique /\ ReplayCurrent /\ FenceLocks
    BY DEF Init, JobOwned, PollingIdle, TokensUnique, ReplayCurrent, FenceLocks, NoJob
  <2>3. ClaimsCounted /\ TablesAgree
    BY DEF Init, ClaimsCounted, TablesAgree, Finished, Terminal
  <2>4. LogOrdered
    BY DEF Init, LogOrdered, Ordered
  <2> QED
    BY <2>1, <2>2, <2>3, <2>4 DEF IInv
<1>2. IInv /\ [Next]_vars => IInv'
  BY IInvStep
<1> QED
  BY <1>1, <1>2, PTL DEF Spec

\* With fencing, the attempts in a run's log never go backwards and nothing is
\* appended after its final event (commit_step behind assert_lease).
THEOREM SingleWriter == ASSUME Fencing PROVE Spec => []NoStaleWriter
<1>1. IInv => NoStaleWriter
  <2> SUFFICES ASSUME IInv, NEW r \in Runs, NEW j \in DOMAIN events[r],
                      NEW k \in DOMAIN events[r], j < k
               PROVE  events[r][j].attempt <= events[r][k].attempt /\ ~events[r][j].final
    BY DEF NoStaleWriter
  <2>1. Ordered(events[r], tasks[r].attempt) /\ events[r] \in Seq(Event)
    BY DEF IInv, LogOrdered, TypeOK
  <2>2. j # Len(events[r])
    BY <2>1
  <2> QED
    BY <2>1, <2>2 DEF Ordered
<1> QED
  BY <1>1, FencedInvariant, PTL

\* With fencing, a worker past the fence is the only one there for its run, still
\* owns the task, and commits a step computed from the whole log.
THEOREM FullReplay == ASSUME Fencing PROVE Spec => []CommitsFromFullReplay
<1>1. IInv => CommitsFromFullReplay
  <2> SUFFICES ASSUME IInv, NEW w \in Workers, pc[w] = "append"
               PROVE  /\ Holds(w, job[w].run)
                      /\ job[w].idx = Len(events[job[w].run])
                      /\ \A v \in Workers \ {w} : pc[v] = "append" => job[v].run # job[w].run
    BY DEF CommitsFromFullReplay
  <2>1. \A v \in Workers : pc[v] = "append" => lock[job[v].run] = v
    BY DEF IInv, FenceLocks
  <2> QED
    BY <2>1, InsertedAtEnd
<1> QED
  BY <1>1, FencedInvariant, PTL

\* Two claims of one task never carry the same fencing token (claim_task).
THEOREM DistinctTokens == ASSUME Fencing PROVE Spec => []TokensUnique
<1>1. IInv => TokensUnique
  BY DEF IInv
<1> QED
  BY <1>1, FencedInvariant, PTL

\* Run, task and log finish together, and start together (submit_run, claim_task,
\* commit_step).
THEOREM TablesConsistent == ASSUME Fencing PROVE Spec => []TablesAgree
<1>1. IInv => TablesAgree
  BY DEF IInv
<1> QED
  BY <1>1, FencedInvariant, PTL

\* What no step may do to a finished run.
FinishedStays(r) ==
  /\ runs'[r] = runs[r]
  /\ events'[r] = events[r]
  /\ tasks'[r].status = "done" /\ tasks'[r].attempt = tasks[r].attempt

LEMMA FinishedKept ==
  ASSUME IInv, [Next]_vars, NEW r \in Runs, runs[r].status \in Terminal
  PROVE  FinishedStays(r)
<1> USE DEF dbVars, workerVars, vars, FinishedStays
<1>0. tasks[r].status = "done" /\ TypeOK
  BY DEF IInv, TablesAgree
<1>1. ASSUME NEW q \in Runs, Submit(q) PROVE FinishedStays(r)
  BY <1>0, <1>1 DEF Submit, TypeOK, Terminal
<1>2. ASSUME NEW w \in Workers, NEW q \in Runs, Claim(w, q) PROVE FinishedStays(r)
  BY <1>0, <1>2 DEF Claim, TypeOK
<1>3. ASSUME NEW w \in Workers, WorkerStep(w) PROVE FinishedStays(r)
  <2>1. CASE UNCHANGED <<runs, events, tasks>>
    BY <1>0, <2>1
  <2>2. CASE Heartbeat(w)
    BY <1>0, <2>2 DEF Heartbeat, Holds, TypeOK
  <2>3. CASE Reap(w)
    BY <1>0, <2>3 DEF Reap, Expired
  <2>4. CASE ReleaseTask(w)
    BY <1>0, <2>4 DEF ReleaseTask, Holds, TypeOK
  <2>5. CASE Commit(w) \/ CommitAckLost(w)
    <3>1. pc[w] = "append" /\ CommitEffect(w)
      BY <2>5 DEF Commit, CommitAckLost
    <3>2. job[w].run # r
      BY <1>0, <3>1, InsertedAtEnd DEF Holds
    <3> QED
      BY <1>0, <3>1, <3>2 DEF CommitEffect, TypeOK
  <2> QED
    BY <1>3, <2>1, <2>2, <2>3, <2>4, <2>5
    DEF WorkerStep, HeartbeatLost, Resume, TaskStep, ReadEvents, NextStep, StepRaises, Begin,
        AssertLease, FailRun, Fault, DbError, ReaperDies, Crash, Restart, Pause
<1>4. CASE Tick \/ Lapse
  <2>1. tasks'[r] = Aged(tasks[r]) /\ tasks[r] \in Task
    BY <1>0, <1>4 DEF Tick, Lapse, TimePasses, TypeOK
  <2>2. Aged(tasks[r]).status = tasks[r].status /\ Aged(tasks[r]).attempt = tasks[r].attempt
    BY <2>1 DEF Aged, Task
  <2> QED
    BY <1>0, <1>4, <2>1, <2>2 DEF Tick, Lapse
<1>5. CASE UNCHANGED vars
  BY <1>0, <1>5
<1> HIDE DEF FinishedStays
<1> QED
  BY <1>1, <1>2, <1>3, <1>4, <1>5 DEF Next, WorkerStep

\* No step of any worker changes a finished run: neither its row nor its log nor
\* its task (what a zombie does after the run ended is refused by assert_lease).
THEOREM FinishedIsForever == ASSUME Fencing PROVE Spec => TerminalIsForever
<1>1. IInv /\ [Next]_vars =>
        [\A r \in Runs : runs[r].status \in Terminal => FinishedStays(r)]_vars
  BY FinishedKept
<1> QED
  BY <1>1, FencedInvariant, PTL DEF Spec, TerminalIsForever, FinishedStays
-----------------------------------------------------------------------------
\* The faults that can cost a run a claim.
Charges == faults["crash"] + faults["pause"] + faults["lapse"] + faults["db"]

\* The lease of r is alive and its holder runs and renews it (_heartbeat_loop).
Healthy(r) == \E w \in Workers : Beating(w, r) /\ tasks[r].left > 0

\* A claim that is held and alive was alive at BEGIN: a lapsed lease stays lapsed.
FreshKnown ==
  \A w \in Workers :
    pc[w] = "check" /\ Holds(w, job[w].run) /\ tasks[job[w].run].left > 0 => job[w].fresh

\* A task waiting for its next claim, or bound to, has a claim left: one of the
\* first max_attempts, or one for each fault.
ClaimLeftOf(r) ==
  /\ tasks[r].attempt <= MaxAttempts + Charges
  /\ \/ tasks[r].status = "queued"
     \/ tasks[r].status = "leased" /\ ~Healthy(r)
     => tasks[r].attempt < MaxAttempts + Charges

ClaimLeft == \A r \in Runs : ClaimLeftOf(r)

\* What a worker's step (not a claim) does to the clock of a lease: nobody revives
\* one that ran out (heartbeat's WHERE has lease_expires_at > now()).
LEMMA LapsedStays ==
  ASSUME TypeOK, NEW w \in Workers, WorkerStep(w), NEW r \in Runs, tasks'[r].left > 0
  PROVE  tasks[r].left > 0
<1> USE DEF dbVars, workerVars
<1>1. CASE tasks' = tasks
  BY <1>1
<1>2. CASE Heartbeat(w)
  BY <1>2 DEF Heartbeat, TypeOK, Task
<1>3. CASE Reap(w)
  <2>1. tasks[r] \in Task
    BY DEF TypeOK
  <2> DEFINE requeued == [tasks[r] EXCEPT !.status = "queued", !.owner = NULL, !.left = -1]
  <2>2. tasks'[r] = requeued \/ tasks'[r] = tasks[r]
    BY <1>3 DEF Reap
  <2>3. requeued.left = -1
    BY <2>1 DEF Task
  <2> HIDE DEF requeued
  <2>4. CASE tasks'[r] = requeued
    BY <2>3, <2>4
  <2> QED
    BY <2>2, <2>4
<1>4. CASE ReleaseTask(w)
  BY <1>4 DEF ReleaseTask, TypeOK, Task
<1>5. CASE Commit(w) \/ CommitAckLost(w)
  <2>1. CommitEffect(w)
    BY <1>5 DEF Commit, CommitAckLost
  <2> DEFINE q == job[w].run
             st == IF job[w].out.final THEN "done" ELSE tasks[q].status
  <2>2. \/ tasks' = tasks
        \/ tasks' = [tasks EXCEPT ![q].status = st]
    BY <2>1 DEF CommitEffect
  <2> HIDE DEF q, st
  <2>3. tasks[r] \in Task /\ tasks \in [Runs -> Task]
    BY DEF TypeOK
  <2>4. tasks'[r].left = tasks[r].left
    BY <2>2, <2>3 DEF Task
  <2> QED
    BY <2>4
<1> QED
  BY <1>1, <1>2, <1>3, <1>4, <1>5
  DEF WorkerStep, HeartbeatLost, Resume, TaskStep, ReadEvents, NextStep, StepRaises, Begin,
      AssertLease, FailRun, Fault, DbError, ReaperDies, Crash, Restart, Pause

\* What time does to a row: its clocks only.
LEMMA AgedRow ==
  ASSUME NEW t \in Task
  PROVE  /\ Aged(t).attempt = t.attempt /\ Aged(t).owner = t.owner /\ Aged(t).status = t.status
         /\ Aged(t).left = IF t.left >= 0 THEN t.left - 1 ELSE t.left
  BY DEF Aged, Task

\* FreshKnown is kept by every step.
LEMMA FreshStep ==
  ASSUME IInv, IInv', FreshKnown, [Next]_vars
  PROVE  FreshKnown'
<1> USE DEF dbVars, workerVars, vars
<1> SUFFICES ASSUME NEW v \in Workers, (pc[v] = "check")', Holds(v, job[v].run)',
                    (tasks[job[v].run].left > 0)'
             PROVE  job'[v].fresh
  BY DEF FreshKnown
<1>0. TypeOK /\ JobOwned /\ job'[v].run \in Runs
  BY DEF IInv, JobOwned
\* It is enough that v was there, and held a lease that was alive.
<1>1. ASSUME pc[v] = "check", job'[v] = job[v], Holds(v, job[v].run), tasks[job[v].run].left > 0
      PROVE  job'[v].fresh
  BY <1>1 DEF FreshKnown
<1>2. ASSUME NEW r \in Runs, Submit(r) PROVE job'[v].fresh
  <2>1. pc' = pc /\ job' = job
    BY <1>2 DEF Submit
  <2>2. \A q \in Runs : /\ tasks'[q].attempt = tasks[q].attempt /\ tasks'[q].owner = tasks[q].owner
                        /\ tasks'[q].left = tasks[q].left
                        /\ q # r => tasks'[q].status = tasks[q].status
                        /\ tasks'[r].status = "queued"
    BY <1>0, <1>2 DEF Submit, TypeOK, Task
  <2> QED
    BY <1>0, <1>1, <2>1, <2>2 DEF Holds
<1>3. ASSUME NEW w \in Workers, NEW r \in Runs, Claim(w, r) PROVE job'[v].fresh
  <2>1. v # w /\ job'[v] = job[v] /\ pc'[v] = pc[v]
    BY <1>0, <1>3 DEF Claim, Goto, TypeOK
  <2>2. tasks'[r].attempt = tasks[r].attempt + 1 /\ \A q \in Runs \ {r} : tasks'[q] = tasks[q]
    BY <1>0, <1>3 DEF Claim, TypeOK
  <2>3. job[v].run # r
    <3> SUFFICES ASSUME job[v].run = r PROVE FALSE
      OBVIOUS
    <3>1. job[v].attempt \in 1..tasks[r].attempt /\ tasks[r].attempt \in Nat
      BY <1>0, <2>1 DEF IInv, TokensUnique, TypeOK, Task
    <3> QED
      BY <2>1, <2>2, <3>1 DEF Holds
  <2> QED
    BY <1>0, <1>1, <2>1, <2>2, <2>3 DEF Holds
<1>4. ASSUME NEW w \in Workers, WorkerStep(w) PROVE job'[v].fresh
  <2>1. Frame(w)
    BY <1>4, FrameStep DEF IInv
  <2>2. tasks[job'[v].run].left > 0
    BY <1>0, <1>4, LapsedStays
  <2>3. CASE pc[v] = "check" /\ job'[v] = job[v]
    BY <1>0, <1>1, <2>1, <2>2, <2>3 DEF Frame, LeasesOnlyEnd, Holds
  <2>4. CASE Begin(v) /\ w = v
    BY <1>0, <2>2, <2>4 DEF Begin, TypeOK, Job
  <2>5. CASE v # w
    BY <2>1, <2>3, <2>5 DEF Frame, OthersStay
  <2>6. CASE v = w /\ ~Begin(w)
    <3>1. pc' = pc /\ job' = job
      BY <1>0, <1>4, <2>6
      DEF WorkerStep, Heartbeat, HeartbeatLost, Reap, Resume, TaskStep, ReadEvents, NextStep,
          StepRaises, AssertLease, Commit, ReleaseTask, FailRun, Fault, DbError, CommitAckLost,
          ReaperDies, Crash, Restart, Pause, Raise, BackToPoll, Goto, TypeOK
    <3> QED
      BY <2>3, <3>1
  <2> QED
    BY <1>4, <2>4, <2>5, <2>6
<1>5. CASE Tick \/ Lapse
  <2>1. pc' = pc /\ job' = job
    BY <1>5 DEF Tick, Lapse
  <2>2. \A q \in Runs : tasks'[q] = Aged(tasks[q]) /\ tasks[q] \in Task
    BY <1>0, <1>5 DEF Tick, Lapse, TimePasses, TypeOK
  <2>3. \A q \in Runs : /\ tasks'[q].attempt = tasks[q].attempt /\ tasks'[q].owner = tasks[q].owner
                        /\ tasks'[q].status = tasks[q].status
                        /\ tasks'[q].left > 0 => tasks[q].left > 0
    BY <2>2, AgedRow DEF Task
  <2> QED
    BY <1>0, <1>1, <2>1, <2>3 DEF Holds
<1>6. CASE UNCHANGED vars
  BY <1>1, <1>6 DEF Holds
<1> QED
  BY <1>2, <1>3, <1>4, <1>5, <1>6 DEF Next, WorkerStep

\* A worker that keeps its claim keeps the lease healthy while the row's clock runs.
LEMMA HealthyKept ==
  ASSUME NEW r \in Runs, Healthy(r), tasks'[r].left > 0,
         tasks'[r].status = tasks[r].status, tasks'[r].owner = tasks[r].owner,
         tasks'[r].attempt = tasks[r].attempt,
         \A v \in Workers : Beating(v, r) =>
           proc'[v] = "up" /\ pc'[v] # "poll" /\ job'[v].run = r /\ job'[v].attempt = job[v].attempt
  PROVE  Healthy(r)'
  BY DEF Healthy, Beating, Up, Holds

LEMMA ChargesNat == TypeOK => Charges \in Nat
<1> SUFFICES ASSUME TypeOK PROVE Charges \in Nat
  OBVIOUS
<1>1. /\ faults["crash"] \in Nat /\ faults["pause"] \in Nat
      /\ faults["lapse"] \in Nat /\ faults["db"] \in Nat
  BY DEF TypeOK, FaultKinds
<1> QED
  BY <1>1 DEF Charges

\* A step that costs no fault keeps ClaimLeft where it keeps the row's status and
\* its health; a fault pays for whatever it does to a lease.
LEMMA ClaimLeftKept ==
  ASSUME NEW r \in Runs, TypeOK, TypeOK', ClaimLeftOf(r), tasks'[r].attempt = tasks[r].attempt,
         \/ Charges' = Charges + 1
         \/ Charges' = Charges /\ tasks'[r].status = "done"
         \/ /\ Charges' = Charges /\ tasks'[r].status = tasks[r].status
            /\ Healthy(r) => Healthy(r)'
  PROVE  ClaimLeftOf(r)'
<1>1. MaxAttempts \in Nat /\ Charges \in Nat /\ tasks[r].attempt \in Nat
  BY ConstantsAssumption, ChargesNat DEF TypeOK, Task
<1> HIDE DEF Charges
<1> QED
  BY <1>1 DEF ClaimLeftOf

\* Every fault that ClaimLeft charges for is counted (a bound on the model's faults).
LEMMA FaultCharged ==
  ASSUME TypeOK, NEW w \in Workers,
         DbError(w) \/ CommitAckLost(w) \/ Crash(w) \/ Pause(w) \/ Lapse
  PROVE  Charges' = Charges + 1
  BY DEF DbError, CommitAckLost, Crash, Pause, Lapse, CountFault, Charges, TypeOK, FaultKinds

\* A worker step that is no fault keeps every live lease healthy, except the one it
\* ends itself, by finishing the task or by releasing it with claims left.
LEMMA WorkerClaimLeft ==
  ASSUME Fencing, IInv, TypeOK', FreshKnown, ClaimLeft, NEW w \in Workers, WorkerStep(w)
  PROVE  ClaimLeft'
<1> USE DEF dbVars, workerVars
<1>0. /\ TypeOK /\ JobOwned /\ PollingIdle /\ Frame(w)
      /\ \A r \in Runs : ClaimLeftOf(r) /\ tasks'[r].attempt = tasks[r].attempt
  BY FrameStep DEF IInv, ClaimLeft, Frame, LeasesOnlyEnd
<1>1. CASE Charges' = Charges + 1
  BY <1>0, <1>1, ClaimLeftKept DEF ClaimLeft
<1>2. CASE Charges' = Charges /\ \A r \in Runs : \/ tasks'[r].status = "done"
                                                 \/ /\ tasks'[r].status = tasks[r].status
                                                    /\ Healthy(r) => Healthy(r)'
  BY <1>0, <1>2, ClaimLeftKept DEF ClaimLeft
\* A step of w that leaves the rows alone and keeps w's claim if it is alive.
<1>3. ASSUME tasks' = tasks, faults' = faults \/ ReaperDies(w), proc' = [proc EXCEPT ![w] = "up"] \/ proc' = proc,
             \A r \in Runs : Beating(w, r) /\ tasks[r].left > 0 =>
               pc'[w] # "poll" /\ job'[w].run = r /\ job'[w].attempt = job[w].attempt
      PROVE  ClaimLeft'
  <2>1. Charges' = Charges
    BY <1>0, <1>3 DEF Charges, ReaperDies, CountFault, TypeOK, FaultKinds
  <2>2. ASSUME NEW r \in Runs, Healthy(r) PROVE Healthy(r)'
    <3>1. tasks[r].left > 0
      BY <2>2 DEF Healthy
    <3>2. ASSUME NEW v \in Workers, Beating(v, r)
          PROVE  proc'[v] = "up" /\ pc'[v] # "poll" /\ job'[v].run = r
                 /\ job'[v].attempt = job[v].attempt
      <4>1. proc'[v] = "up"
        BY <1>0, <1>3, <3>2 DEF Beating, Up, TypeOK
      <4>2. CASE v = w
        BY <1>3, <3>1, <3>2, <4>1, <4>2
      <4>3. CASE v # w
        BY <1>0, <3>2, <4>1, <4>3 DEF Frame, OthersStay, Beating
      <4> QED
        BY <4>2, <4>3
    <3> QED
      BY <1>3, <2>2, <3>1, <3>2, HealthyKept
  <2> QED
    BY <1>2, <1>3, <2>1, <2>2
<1>4. CASE Heartbeat(w)
  <2>1. \A r \in Runs : /\ tasks'[r].status = tasks[r].status /\ tasks'[r].owner = tasks[r].owner
                        /\ tasks[r].left > 0 => tasks'[r].left > 0
    <3>1. Lease > 0 /\ Lease \in Int
      BY ConstantsAssumption
    <3> QED
      BY <1>0, <1>4, <3>1 DEF Heartbeat, TypeOK, Task
  <2>2. ASSUME NEW r \in Runs, Healthy(r) PROVE Healthy(r)'
    <3>1. tasks'[r].left > 0
      BY <2>1, <2>2 DEF Healthy
    <3>2. proc' = proc /\ pc' = pc /\ job' = job
      BY <1>4 DEF Heartbeat
    <3> QED
      BY <1>0, <2>1, <2>2, <3>1, <3>2 DEF Healthy, Beating, Up, Holds
  <2> QED
    BY <1>2, <1>4, <2>1, <2>2 DEF Heartbeat, Charges
<1>5. CASE HeartbeatLost(w)
  BY <1>3, <1>5 DEF HeartbeatLost, Beating
<1>6. CASE Reap(w)
  <2>1. ASSUME NEW r \in Expired PROVE ClaimLeftOf(r)'
    <3>1. r \in Runs /\ tasks[r].status = "leased" /\ ~Healthy(r) /\ tasks[r].left \in Int
      BY <1>0 DEF Expired, Healthy, TypeOK, Task
    <3> QED
      BY <1>0, <1>6, <3>1 DEF ClaimLeftOf, Reap, Charges
  <2>2. ASSUME NEW r \in Runs \ Expired PROVE ClaimLeftOf(r)'
    <3>1. tasks'[r] = tasks[r] /\ proc' = proc /\ pc' = pc /\ job' = job /\ Charges' = Charges
      BY <1>6 DEF Reap, Charges
    <3>2. Healthy(r) => Healthy(r)'
      BY <3>1 DEF Healthy, Beating, Up, Holds
    <3> QED
      BY <1>0, <3>1, <3>2, ClaimLeftKept
  <2> QED
    BY <2>1, <2>2 DEF ClaimLeft
<1>7. CASE TaskStep(w)
  <2>1. CASE ReadEvents(w) \/ NextStep(w) \/ Begin(w) \/ FailRun(w)
    BY <1>0, <1>3, <2>1
    DEF ReadEvents, NextStep, Begin, FailRun, Goto, Beating, TypeOK, Job
  <2>2. ASSUME NEW fatal \in BOOLEAN, StepRaises(w, fatal) PROVE ClaimLeft'
    BY <1>0, <1>3, <2>2 DEF StepRaises, Goto, Beating, TypeOK, Job
  <2>3. CASE AssertLease(w)
    <3>1. ASSUME NEW r \in Runs, Beating(w, r), tasks[r].left > 0
          PROVE  pc'[w] # "poll" /\ job'[w].run = r /\ job'[w].attempt = job[w].attempt
      <4>1. job[w].run = r /\ Holds(w, r) /\ pc[w] = "check" /\ job[w].fresh
        BY <2>3, <3>1 DEF AssertLease, Beating, FreshKnown
      <4> QED
        BY <1>0, <2>3, <4>1 DEF AssertLease, Goto, TypeOK
    <3> QED
      BY <1>3, <2>3, <3>1 DEF AssertLease
  <2>4. CASE Commit(w)
    <3> DEFINE r == job[w].run
    <3>1. pc[w] = "append" /\ CommitEffect(w) /\ faults' = faults /\ proc' = proc
      BY <2>4 DEF Commit
    <3>2. /\ r \in Runs
          /\ \A q \in Runs \ {r} : tasks'[q].status = tasks[q].status
          /\ tasks'[r].status = IF job[w].out.final THEN "done" ELSE "leased"
          /\ tasks[r].status = "leased"
      BY <3>1, CommitIs, InsertedAtEnd DEF Holds
    <3>3. \A q \in Runs : tasks'[q].owner = tasks[q].owner /\ tasks'[q].left = tasks[q].left
      <4> DEFINE st == IF job[w].out.final THEN "done" ELSE tasks[r].status
      <4>1. tasks' = tasks \/ tasks' = [tasks EXCEPT ![r].status = st]
        BY <3>1 DEF CommitEffect
      <4>2. tasks \in [Runs -> Task]
        BY <1>0 DEF TypeOK
      <4> HIDE DEF r, st
      <4> QED
        BY <4>1, <4>2 DEF Task
    <3> HIDE DEF r
    <3>4. ASSUME NEW q \in Runs, tasks'[q].status # "done", Healthy(q)
          PROVE  Healthy(q)'
      <4>1. tasks'[q].left > 0 /\ tasks'[q].status = tasks[q].status
        BY <3>2, <3>3, <3>4 DEF Healthy
      <4>2. ASSUME NEW v \in Workers, Beating(v, q)
            PROVE  proc'[v] = "up" /\ pc'[v] # "poll" /\ job'[v].run = q
                   /\ job'[v].attempt = job[v].attempt
        <5>1. CASE v # w
          BY <1>0, <3>1, <4>2, <5>1 DEF Frame, OthersStay, Beating, Up
        <5>2. CASE v = w
          <6>1. q = r /\ ~job[w].out.final
            BY <3>2, <3>4, <4>2, <5>2 DEF Beating, r
          <6>2. job'[w] = [NoJob EXCEPT !.run = job[w].run, !.attempt = job[w].attempt]
            BY <1>0, <2>4, <6>1 DEF Commit, TypeOK
          <6>3. job'[w].run = job[w].run /\ job'[w].attempt = job[w].attempt
            BY <6>2 DEF NoJob
          <6>4. pc'[w] = "read"
            BY <1>0, <2>4, <6>1 DEF Commit, Goto, TypeOK
          <6> QED
            BY <3>1, <4>2, <5>2, <6>1, <6>3, <6>4 DEF Beating, Up, r
        <5> QED
          BY <5>1, <5>2
      <4> QED
        BY <1>0, <3>3, <3>4, <4>1, <4>2, HealthyKept
    <3> QED
      BY <1>2, <3>1, <3>2, <3>4 DEF Charges
  <2>5. CASE ReleaseTask(w)
    <3>0. PICK r \in Runs : r = job[w].run
      BY <1>0, <2>5 DEF ReleaseTask, JobOwned
    <3>1. faults' = faults /\ proc' = proc
      BY <2>5 DEF ReleaseTask
    <3>2. CASE ~Holds(w, r)
      BY <1>3, <2>5, <3>0, <3>1, <3>2 DEF ReleaseTask, Beating
    <3>3. CASE Holds(w, r)
      <4>1. ClaimLeftOf(r)'
        <5>1. tasks[r].attempt < MaxAttempts
          BY <2>5, <3>0, <3>3 DEF ReleaseTask, Holds
        <5>2. Charges' = Charges /\ Charges \in Nat /\ MaxAttempts \in Nat /\ tasks[r].attempt \in Nat
          BY <1>0, <3>1, ConstantsAssumption, ChargesNat DEF Charges, TypeOK, Task
        <5> HIDE DEF Charges
        <5> QED
          <6>1. tasks'[r].attempt = tasks[r].attempt
            BY <1>0
          <6>2. tasks'[r].attempt < MaxAttempts + Charges /\ tasks'[r].attempt <= MaxAttempts + Charges
            BY <5>1, <5>2, <6>1
          <6> QED
            BY <5>2, <6>2, Zenon DEF ClaimLeftOf
      <4>2. ASSUME NEW q \in Runs \ {r} PROVE ClaimLeftOf(q)'
        <5>0. tasks' = [tasks EXCEPT ![r].status = "queued", ![r].owner = NULL,
                                     ![r].left = -1, ![r].wait = Backoff]
          BY <2>5, <3>0, <3>3 DEF ReleaseTask
        <5>1. tasks'[q] = tasks[q] /\ Charges' = Charges
          BY <1>0, <3>1, <5>0 DEF Charges, TypeOK
        <5>2. ASSUME Healthy(q) PROVE Healthy(q)'
          <6>1. ASSUME NEW v \in Workers, Beating(v, q)
                PROVE  proc'[v] = "up" /\ pc'[v] # "poll" /\ job'[v].run = q
                       /\ job'[v].attempt = job[v].attempt
            BY <1>0, <3>0, <3>1, <6>1 DEF Frame, OthersStay, Beating, Up
          <6> QED
            BY <5>1, <5>2, <6>1, HealthyKept DEF Healthy
        <5> QED
          BY <1>0, <5>1, <5>2, ClaimLeftKept
      <4> QED
        BY <4>1, <4>2 DEF ClaimLeft
    <3> QED
      BY <3>2, <3>3
  <2> QED
    BY <1>7, <2>1, <2>2, <2>3, <2>4, <2>5 DEF TaskStep
<1>8. CASE Resume(w) \/ Restart(w) \/ ReaperDies(w)
  BY <1>3, <1>8 DEF Resume, Restart, ReaperDies, Beating
<1>9. CASE DbError(w) \/ CommitAckLost(w) \/ Crash(w) \/ Pause(w)
  BY <1>0, <1>1, <1>9, FaultCharged
<1> QED
  BY <1>4, <1>5, <1>6, <1>7, <1>8, <1>9 DEF WorkerStep, Fault

\* ClaimLeft is kept by every step.
LEMMA ClaimLeftStep ==
  ASSUME Fencing, MaxAttempts # 0, IInv, IInv', FreshKnown, ClaimLeft, [Next]_vars
  PROVE  ClaimLeft'
<1> USE DEF dbVars, workerVars, vars
<1>0. /\ TypeOK /\ TypeOK' /\ MaxAttempts \in Nat /\ Charges \in Nat
      /\ \A r \in Runs : ClaimLeftOf(r) /\ tasks[r].attempt \in Nat
  BY ConstantsAssumption, ChargesNat DEF IInv, ClaimLeft, TypeOK, Task
<1>1. ASSUME NEW r \in Runs, Submit(r) PROVE ClaimLeft'
  <2>1. faults' = faults /\ proc' = proc /\ pc' = pc /\ job' = job
    BY <1>1 DEF Submit
  <2>2. Charges' = Charges
    BY <2>1 DEF Charges
  <2>3. tasks'[r].attempt = 0
    BY <1>0, <1>1 DEF Submit, IInv, TablesAgree, ClaimsCounted, TypeOK, Task
  <2>4. ClaimLeftOf(r)'
    <3> HIDE DEF Charges
    <3>1. tasks'[r].attempt <= MaxAttempts + Charges /\ tasks'[r].attempt < MaxAttempts + Charges
      BY <1>0, <2>3
    <3> QED
      BY <2>2, <3>1, Zenon DEF ClaimLeftOf
  <2>5. ASSUME NEW q \in Runs \ {r} PROVE ClaimLeftOf(q)'
    <3>1. tasks'[q] = tasks[q]
      BY <1>1 DEF Submit
    <3>2. Healthy(q) => Healthy(q)'
      BY <2>1, <3>1 DEF Healthy, Beating, Up, Holds
    <3> QED
      BY <1>0, <2>2, <3>1, <3>2, ClaimLeftKept
  <2> QED
    BY <2>4, <2>5 DEF ClaimLeft
<1>2. ASSUME NEW w \in Workers, NEW r \in Runs, Claim(w, r) PROVE ClaimLeft'
  <2>1. faults' = faults /\ proc' = proc /\ proc[w] = "up" /\ pc[w] = "poll" /\ tasks[r].status = "queued"
    BY <1>2 DEF Claim, Up
  <2>2. Charges' = Charges
    BY <2>1 DEF Charges
  <2>3. /\ pc'[w] = "read" /\ \A v \in Workers \ {w} : pc'[v] = pc[v] /\ job'[v] = job[v]
        /\ \A q \in Runs \ {r} : tasks'[q] = tasks[q]
    BY <1>0, <1>2 DEF Claim, Goto, TypeOK
  <2>4. job'[w].run = r /\ job'[w].attempt = tasks[r].attempt + 1
    <3> DEFINE n == tasks[r].attempt + 1
    <3>1. job'[w] = [NoJob EXCEPT !.run = r, !.attempt = n]
      BY <1>0, <1>2 DEF Claim, TypeOK
    <3> HIDE DEF n
    <3>2. job'[w].run = r /\ job'[w].attempt = n
      BY <3>1 DEF NoJob
    <3> QED
      BY <3>2 DEF n
  <2>5. /\ tasks'[r].status = "leased" /\ tasks'[r].owner = WorkerId[w]
        /\ tasks'[r].attempt = tasks[r].attempt + 1 /\ tasks'[r].left = Lease
    BY <1>0, <1>2 DEF Claim, TypeOK
  <2>6. Healthy(r)'
    <3>1. Lease > 0
      BY ConstantsAssumption
    <3> QED
      BY <2>1, <2>3, <2>4, <2>5, <3>1 DEF Healthy, Beating, Up, Holds
  <2>7. ClaimLeftOf(r)'
    <3> HIDE DEF Charges
    <3>1. tasks[r].attempt < MaxAttempts + Charges
      BY <1>0, <2>1 DEF ClaimLeftOf
    <3>2. tasks'[r].attempt <= MaxAttempts + Charges
      BY <1>0, <2>5, <3>1
    <3> QED
      BY <2>2, <2>5, <2>6, <3>2 DEF ClaimLeftOf
  <2>8. ASSUME NEW q \in Runs \ {r} PROVE ClaimLeftOf(q)'
    <3>1. Healthy(q) => Healthy(q)'
      BY <2>1, <2>3 DEF Healthy, Beating, Up, Holds
    <3> QED
      BY <1>0, <2>2, <2>3, <3>1, ClaimLeftKept
  <2> QED
    BY <2>7, <2>8 DEF ClaimLeft
<1>3. ASSUME NEW w \in Workers, WorkerStep(w) PROVE ClaimLeft'
  BY <1>0, <1>3, WorkerClaimLeft
<1>4. ASSUME TimePasses PROVE \A q \in Runs : /\ tasks'[q].attempt = tasks[q].attempt
                                              /\ tasks'[q].owner = tasks[q].owner
                                              /\ tasks'[q].status = tasks[q].status
                                              /\ tasks[q].left > 1 => tasks'[q].left > 0
                                              /\ tasks[q].left \in Int
  <2>1. \A q \in Runs : tasks'[q] = Aged(tasks[q]) /\ tasks[q] \in Task
    BY <1>0, <1>4 DEF TimePasses, TypeOK
  <2> QED
    BY <2>1, AgedRow DEF Task
<1>5. CASE Tick
  <2>1. faults' = faults /\ proc' = proc /\ pc' = pc /\ job' = job /\ TimePasses /\ Charges' = Charges
    BY <1>5 DEF Tick, Charges
  <2>2. ASSUME NEW q \in Runs, Healthy(q) PROVE Healthy(q)'
    <3>1. tasks[q].left # 1 /\ tasks[q].left > 0
      BY <1>5, <2>2 DEF Tick, LapsingUnderHolder, Healthy
    <3>2. tasks'[q].left > 0
      BY <1>4, <2>1, <3>1
    <3> QED
      BY <1>4, <2>1, <2>2, <3>2 DEF Healthy, Beating, Up, Holds
  <2> QED
    BY <1>0, <1>4, <2>1, <2>2, ClaimLeftKept DEF ClaimLeft
<1>6. CASE Lapse
  <2>1. TimePasses
    BY <1>6 DEF Lapse
  <2>2. Charges' = Charges + 1
    BY <1>0, <1>6 DEF Lapse, CountFault, Charges, TypeOK, FaultKinds
  <2> QED
    BY <1>0, <1>4, <2>1, <2>2, ClaimLeftKept DEF ClaimLeft
<1>7. CASE UNCHANGED vars
  <2>1. \A q \in Runs : tasks'[q] = tasks[q] /\ (Healthy(q) => Healthy(q)')
    BY <1>7 DEF Healthy, Beating, Up, Holds
  <2>2. Charges' = Charges
    BY <1>7 DEF Charges
  <2> QED
    BY <1>0, <2>1, <2>2, ClaimLeftKept DEF ClaimLeft
<1> QED
  BY <1>1, <1>2, <1>3, <1>5, <1>6, <1>7 DEF Next, WorkerStep

\* With fencing, a task is claimed at most max_attempts times, and once more for
\* each crash, pause, lapsed lease or database error (_handle_error, reap_expired).
\* With max_attempts = 0 the first claim would already be one too many.
THEOREM ClaimsBounded == ASSUME Fencing, MaxAttempts # 0 PROVE Spec => []ExtraClaimsNeedFaults
<1>1. Init => FreshKnown /\ ClaimLeft
  <2> SUFFICES ASSUME Init PROVE FreshKnown /\ ClaimLeft
    OBVIOUS
  <2>1. FreshKnown
    BY DEF Init, FreshKnown
  <2>2. \A r \in Runs : tasks[r].status = "none" /\ tasks[r].attempt = 0
    BY DEF Init
  <2>3. 0 <= MaxAttempts + Charges
    <3>1. Charges = 0
      BY DEF Init, Charges, FaultKinds
    <3> HIDE DEF Charges
    <3> QED
      BY <3>1, ConstantsAssumption
  <2> QED
    BY <2>1, <2>2, <2>3 DEF ClaimLeft, ClaimLeftOf
<1>2. IInv /\ IInv' /\ FreshKnown /\ ClaimLeft /\ [Next]_vars => FreshKnown' /\ ClaimLeft'
  BY FreshStep, ClaimLeftStep
<1>3. IInv /\ ClaimLeft => ExtraClaimsNeedFaults
  <2> SUFFICES ASSUME IInv, ClaimLeft, NEW r \in Runs
               PROVE  tasks[r].attempt <= MaxAttempts + faults["crash"] + faults["pause"]
                                            + faults["lapse"] + faults["db"]
    BY DEF ExtraClaimsNeedFaults
  <2>1. /\ faults["crash"] \in Nat /\ faults["pause"] \in Nat
        /\ faults["lapse"] \in Nat /\ faults["db"] \in Nat
    BY DEF IInv, TypeOK, FaultKinds
  <2>2. MaxAttempts \in Nat /\ tasks[r].attempt \in Nat
    BY ConstantsAssumption DEF IInv, TypeOK, Task
  <2>3. tasks[r].attempt <= MaxAttempts + Charges
    BY DEF ClaimLeft, ClaimLeftOf
  <2> QED
    BY <2>1, <2>2, <2>3 DEF Charges
<1> QED
  BY <1>1, <1>2, <1>3, FencedInvariant, PTL DEF Spec
-----------------------------------------------------------------------------
(***************************************************************************)
(* With fencing, the engine implements the single-writer log RunLog: every *)
(* step of any worker, fault or clock is a step of RunLog or leaves what   *)
(* RunLog sees unchanged.                                                  *)
(***************************************************************************)
\* What RunLog sees of a state.
StatusOf == [r \in Runs |-> runs[r].status]
TokenOf == [r \in Runs |-> tasks[r].attempt]
HeldOf == [r \in Runs |-> tasks[r].status = "leased"]

\* A commit past the fence is the abstract Extend or Finish (commit_step).
LEMMA CommitRefines ==
  ASSUME IInv, OutcomeCosts, NEW w \in Workers, pc[w] = "append", CommitEffect(w)
  PROVE  Log!Next
<1> DEFINE r == job[w].run
           o == job[w].out
           e == [key |-> Len(events[r]), attempt |-> tasks[r].attempt,
                 cost |-> o.cost, final |-> o.final]
<1>1. /\ r \in Runs /\ tasks[r].status = "leased" /\ tasks[r].attempt = job[w].attempt
      /\ NewEvent(w).key = Len(events[r])
      /\ events' = [events EXCEPT ![r] = Append(events[r], NewEvent(w))]
      /\ \A q \in Runs : tasks'[q].attempt = tasks[q].attempt
      /\ \A q \in Runs \ {r} : tasks'[q].status = tasks[q].status
                               /\ runs'[q].status = runs[q].status
      /\ tasks'[r].status = IF o.final THEN "done" ELSE "leased"
      /\ runs'[r].status = IF o.final THEN o.status ELSE runs[r].status
      /\ o.status \in Terminal
  BY CommitIs
<1>2. o.cost \in Costs \cup {0} /\ o.final \in BOOLEAN
  BY DEF OutcomeCosts, IInv, TypeOK, Job, StepOutcome
<1>3. events' = [events EXCEPT ![r] = Append(@, e)]
  <2>1. NewEvent(w) = e
    BY <1>1 DEF NewEvent
  <2> QED
    BY <1>1, <2>1
<1>4. runs[r].status = "running"
  BY <1>1 DEF IInv, TablesAgree, TypeOK, Run, RunStatus
<1>5. TokenOf' = TokenOf
  BY <1>1 DEF TokenOf
<1> HIDE DEF r
<1>6. CASE ~o.final
  <2>1. StatusOf' = StatusOf /\ HeldOf' = HeldOf
    BY <1>1, <1>6 DEF StatusOf, HeldOf
  <2>2. e = [key |-> Len(events[r]), attempt |-> tasks[r].attempt,
             cost |-> o.cost, final |-> FALSE]
    BY <1>2, <1>6
  <2>3. Log!Extend(r, o.cost)
    BY <1>1, <1>3, <1>4, <1>5, <2>1, <2>2 DEF Log!Extend, StatusOf, HeldOf, TokenOf
  <2> QED
    BY <1>1, <1>2, <2>3 DEF Log!Next
<1>7. CASE o.final
  <2>1. StatusOf' = [StatusOf EXCEPT ![r] = o.status]
    BY <1>1, <1>7 DEF StatusOf
  <2>2. HeldOf' = [HeldOf EXCEPT ![r] = FALSE]
    BY <1>1, <1>7 DEF HeldOf
  <2>3. e = [key |-> Len(events[r]), attempt |-> tasks[r].attempt,
             cost |-> o.cost, final |-> TRUE]
    BY <1>2, <1>7
  <2>4. PICK q, cost, end : q = r /\ cost = o.cost /\ end = o.status
    OBVIOUS
  <2>5. Log!Finish(q, cost, end)
    BY <1>1, <1>3, <1>4, <1>5, <2>1, <2>2, <2>3, <2>4
    DEF Log!Finish, StatusOf, HeldOf, TokenOf
  <2>6. q \in Runs /\ cost \in Costs \cup {0} /\ end \in Log!EndStatus
    BY <1>1, <1>2, <2>4 DEF Log!EndStatus, Terminal
  <2> QED
    BY <2>5, <2>6 DEF Log!Next
<1> QED
  BY <1>6, <1>7

\* Requeueing leased tasks is the abstract Revoke (reap_expired, release_task).
LEMMA RequeueRefines ==
  ASSUME IInv, events' = events, StatusOf' = StatusOf, TokenOf' = TokenOf,
         NEW R \in SUBSET Runs, R # {}, \A r \in R : tasks[r].status = "leased",
         \A r \in Runs : tasks'[r].status = IF r \in R THEN "queued" ELSE tasks[r].status
  PROVE  Log!Next
<1>1. HeldOf' = [r \in Runs |-> HeldOf[r] /\ r \notin R]
  BY DEF HeldOf
<1>2. \A r \in R : HeldOf[r]
  BY DEF HeldOf
<1>3. Log!Revoke(R)
  BY <1>1, <1>2 DEF Log!Revoke, HeldOf, StatusOf, TokenOf
<1> QED
  BY <1>3 DEF Log!Next

\* Every step of the engine is a step of RunLog or invisible to it.
LEMMA StepRefines ==
  ASSUME IInv, OutcomeCosts, [Next]_vars
  PROVE  [Log!Next]_(Log!vars)
<1> USE DEF dbVars, workerVars, vars
<1>0. /\ runs \in [Runs -> Run] /\ tasks \in [Runs -> Task]
  BY DEF IInv, TypeOK
<1>1. ASSUME events' = events, StatusOf' = StatusOf, TokenOf' = TokenOf, HeldOf' = HeldOf
      PROVE  [Log!Next]_(Log!vars)
  BY <1>1 DEF Log!vars, StatusOf, TokenOf, HeldOf
<1>2. CASE UNCHANGED <<runs, events, tasks>>
  BY <1>1, <1>2 DEF StatusOf, TokenOf, HeldOf
<1>3. ASSUME NEW r \in Runs, Submit(r) PROVE [Log!Next]_(Log!vars)
  <2>1. StatusOf' = [StatusOf EXCEPT ![r] = "pending"] /\ StatusOf[r] = "absent"
    BY <1>0, <1>3 DEF Submit, StatusOf, Run
  <2>2. tasks[r].status = "none"
    BY <1>3 DEF Submit, IInv, TablesAgree
  <2>3. TokenOf' = TokenOf /\ HeldOf' = HeldOf
    BY <1>0, <1>3, <2>2 DEF Submit, TokenOf, HeldOf, Task
  <2>4. Log!Submit(r)
    BY <1>3, <2>1, <2>3 DEF Log!Submit, Submit, StatusOf, TokenOf, HeldOf
  <2> QED
    BY <2>4 DEF Log!Next
<1>4. ASSUME NEW w \in Workers, NEW r \in Runs, Claim(w, r) PROVE [Log!Next]_(Log!vars)
  <2>1. tasks[r].status = "queued" /\ runs[r].status \in {"pending", "running"}
    BY <1>4 DEF Claim, IInv, TablesAgree, TypeOK, Run, RunStatus
  <2>2. StatusOf' = [StatusOf EXCEPT ![r] = "running"]
    <3>1. runs' = [runs EXCEPT ![r].status = "running"]
      BY <1>0, <1>4, <2>1 DEF Claim, Run
    <3> QED
      BY <1>0, <3>1 DEF StatusOf, Run
  <2>3. TokenOf' = [TokenOf EXCEPT ![r] = @ + 1] /\ HeldOf' = [HeldOf EXCEPT ![r] = TRUE]
    BY <1>0, <1>4 DEF Claim, TokenOf, HeldOf
  <2>4. Log!Grant(r)
    BY <1>4, <2>1, <2>2, <2>3 DEF Log!Grant, Claim, StatusOf, TokenOf, HeldOf
  <2> QED
    BY <2>4 DEF Log!Next
<1>5. ASSUME NEW w \in Workers, Heartbeat(w) PROVE [Log!Next]_(Log!vars)
  <2>1. \A r \in Runs : tasks'[r].attempt = tasks[r].attempt /\ tasks'[r].status = tasks[r].status
    BY <1>0, <1>5 DEF Heartbeat, Task
  <2> QED
    BY <1>1, <1>5, <2>1 DEF Heartbeat, StatusOf, TokenOf, HeldOf
<1>6. ASSUME NEW w \in Workers, Reap(w) PROVE [Log!Next]_(Log!vars)
  <2>1. /\ \A r \in Runs : tasks'[r].attempt = tasks[r].attempt
        /\ \A r \in Runs : tasks'[r].status = IF r \in Expired THEN "queued" ELSE tasks[r].status
    BY <1>0, <1>6 DEF Reap, Task
  <2>2. Expired \in SUBSET Runs /\ Expired # {} /\ \A r \in Expired : tasks[r].status = "leased"
    BY <1>6 DEF Reap, Expired
  <2>3. events' = events /\ StatusOf' = StatusOf /\ TokenOf' = TokenOf
    BY <1>6, <2>1 DEF Reap, StatusOf, TokenOf
  <2> HIDE DEF Expired
  <2> QED
    BY <2>1, <2>2, <2>3, RequeueRefines
<1>7. ASSUME NEW w \in Workers, ReleaseTask(w) PROVE [Log!Next]_(Log!vars)
  <2>1. CASE ~Holds(w, job[w].run)
    BY <1>2, <1>7, <2>1 DEF ReleaseTask
  <2>2. CASE Holds(w, job[w].run)
    <3> DEFINE q == job[w].run
    <3>1. q \in Runs /\ tasks[q].status = "leased"
      BY <1>7, <2>2 DEF ReleaseTask, Holds, IInv, JobOwned
    <3>2. /\ \A r \in Runs : tasks'[r].attempt = tasks[r].attempt
          /\ \A r \in Runs : tasks'[r].status = IF r \in {q} THEN "queued" ELSE tasks[r].status
      BY <1>0, <1>7, <2>2, <3>1 DEF ReleaseTask, Task
    <3>3. events' = events /\ StatusOf' = StatusOf /\ TokenOf' = TokenOf
      BY <1>7, <3>2 DEF ReleaseTask, StatusOf, TokenOf
    <3> HIDE DEF q
    <3>4. {q} \in SUBSET Runs /\ {q} # {} /\ \A r \in {q} : tasks[r].status = "leased"
      BY <3>1
    <3> QED
      BY <3>2, <3>3, <3>4, RequeueRefines
  <2> QED
    BY <2>1, <2>2
<1>8. ASSUME NEW w \in Workers, Commit(w) \/ CommitAckLost(w) PROVE [Log!Next]_(Log!vars)
  BY <1>8, CommitRefines DEF Commit, CommitAckLost
<1>9. CASE Tick \/ Lapse
  <2>1. \A r \in Runs : tasks'[r] = Aged(tasks[r]) /\ tasks[r] \in Task
    BY <1>0, <1>9 DEF Tick, Lapse, TimePasses
  <2>2. ASSUME NEW t \in Task PROVE Aged(t).attempt = t.attempt /\ Aged(t).status = t.status
    BY DEF Aged, Task
  <2>3. \A r \in Runs : tasks'[r].attempt = tasks[r].attempt /\ tasks'[r].status = tasks[r].status
    BY <2>1, <2>2
  <2> QED
    BY <1>1, <1>9, <2>3 DEF Tick, Lapse, StatusOf, TokenOf, HeldOf
<1>10. CASE UNCHANGED vars
  BY <1>2, <1>10
<1>11. ASSUME NEW w \in Workers,
              HeartbeatLost(w) \/ TaskStep(w) \/ Resume(w) \/ Fault(w),
              ~Commit(w), ~CommitAckLost(w), ~ReleaseTask(w)
       PROVE  UNCHANGED <<runs, events, tasks>>
  BY <1>11
  DEF HeartbeatLost, TaskStep, ReadEvents, NextStep, StepRaises, Begin, AssertLease, FailRun,
      Resume, Fault, DbError, ReaperDies, Crash, Restart, Pause
<1> QED
  BY <1>2, <1>3, <1>4, <1>5, <1>6, <1>7, <1>8, <1>9, <1>10, <1>11 DEF Next

\* The fenced engine implements the single-writer log: no behaviour of workers,
\* faults and clocks shows the outside anything RunLog does not allow.
THEOREM EngineImplementsRunLog == ASSUME Fencing PROVE Spec => ImplementsRunLog
<1>1. Init => Log!Init
  <2> SUFFICES ASSUME Init PROVE Log!Init
    OBVIOUS
  <2>1. StatusOf = [r \in Runs |-> "absent"] /\ TokenOf = [r \in Runs |-> 0]
    BY DEF Init, StatusOf, TokenOf
  <2>2. \A r \in Runs : (tasks[r].status = "leased") = FALSE
    BY DEF Init
  <2>3. [r \in Runs |-> tasks[r].status = "leased"] = [r \in Runs |-> FALSE]
    BY <2>2, Zenon
  <2>4. events = [r \in Runs |-> <<>>]
    BY DEF Init
  <2> QED
    BY <2>1, <2>3, <2>4, Zenon DEF Log!Init, StatusOf, TokenOf
<1>2. Init => OutcomeCosts
  BY DEF Init, OutcomeCosts
<1>3. IInv /\ OutcomeCosts /\ [Next]_vars => OutcomeCosts'
  BY OutcomeCostsStep DEF IInv
<1>4. IInv /\ OutcomeCosts /\ [Next]_vars => [Log!Next]_(Log!vars)
  BY StepRefines
<1> QED
  BY <1>1, <1>2, <1>3, <1>4, FencedInvariant, PTL DEF Spec, ImplementsRunLog, Log!Spec
=============================================================================
