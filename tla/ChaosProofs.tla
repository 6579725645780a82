---------------------------- MODULE ChaosProofs ----------------------------
(***************************************************************************)
(* Proofs about ChaosRun, for any runs, workers, schedules and timeouts:   *)
(* run_chaos leaves no worker behind, its report is true, and what it does *)
(* to the workers never shows in the log.                                  *)
(*                                                                         *)
(* Engine's invariant does not mention processes, so it survives kills,    *)
(* suspensions and respawns; a COMMIT that outlives its worker still holds *)
(* the row lock (FenceLocks) and is a commit like any other.               *)
(***************************************************************************)
EXTENDS ChaosRun, EngineProofs

\* The places of run_chaos behind Injector.shutdown.
Behind == {"termination", "integrity", "spent", "spend", "reported"}

\* The places from the entry of shutdown on.
Stopping == {"shutdown", "failing", "raised"} \cup Behind

\* Who may be alive: nobody but the workers on the injector's list; once shutdown has
\* begun, nobody but those its loop has still before it or in hand; behind it, nobody.
Roster ==
  /\ proc \in [Workers -> {"up", "paused", "dead"}]
  /\ crew \subseteq Workers /\ todo \subseteq Workers /\ cur \in Workers \cup {NULL}
  /\ named \in Nat
  /\ \A w \in Workers : Alive(w) => w \in crew
  /\ hpc \in Stopping => \A w \in Workers : Alive(w) => w \in todo \cup {cur}
  /\ hpc \in Behind => todo = {} /\ cur = NULL

AllFinished == \A r \in Runs : runs[r].status \in Terminal

\* Every run is submitted before the first worker starts.
AllSubmitted == hpc # "submit" => \A r \in Runs : runs[r].status # "absent"

\* The loop ended at a timeout or with every run finished.
StoppedFor == hpc \in Behind \cup {"shutdown"} /\ ~verdict.timedOut => AllFinished

\* What the checks have found so far. A finished run no longer changes, so without a
\* timeout the database stands still under them; with one, a COMMIT under way may come
\* between two of their queries.
TerminationKnown ==
  hpc \in Behind \ {"termination"} =>
    /\ verdict.termination => AllFinished
    /\ ~verdict.timedOut => verdict.termination
IntegrityKnown == hpc \in {"spent", "spend", "reported"} => verdict.integrity
SpentKnown == hpc = "spend" /\ ~verdict.timedOut => \A r \in Runs : spent[r] = runs[r].spent
SpendKnown == hpc = "reported" => (~verdict.timedOut => verdict.spend)

VerdictType ==
  verdict \in [timedOut: BOOLEAN, termination: BOOLEAN, integrity: BOOLEAN, spend: BOOLEAN]

HarnessInv ==
  /\ VerdictType
  /\ AllSubmitted
  /\ StoppedFor
  /\ TerminationKnown
  /\ IntegrityKnown
  /\ SpentKnown
  /\ SpendKnown

\* The inductive invariant of a scenario.
ChaosInv == IInv /\ OutcomeCosts /\ SpendInv /\ Roster /\ HarnessInv
-----------------------------------------------------------------------------
(***************************************************************************)
(* What a step of a scenario is to the engine: a step of its own, a change *)
(* of processes alone, a kill that drops a claim, or a late COMMIT.        *)
(***************************************************************************)
\* Suspended, resumed, respawned, or killed with a COMMIT on its way.
ProcsChange ==
  /\ proc' \in [Workers -> {"up", "paused", "dead"}] /\ reaper' \in [Workers -> BOOLEAN]
  /\ UNCHANGED <<dbVars, pc, job, faults>>

\* Killed, and the transaction rolled back.
Dropped(w) ==
  /\ proc' = [proc EXCEPT ![w] = "dead"] /\ BackToPoll(w)
  /\ lock' = [r \in Runs |-> IF lock[r] = w THEN NULL ELSE lock[r]]
  /\ UNCHANGED <<runs, events, tasks, reaper, faults>>

\* A COMMIT ends after its worker.
Late(w) ==
  /\ pc[w] = "append" /\ CommitEffect(w) /\ BackToPoll(w)
  /\ UNCHANGED <<proc, reaper, faults>>

DbStep == [Next]_vars \/ ProcsChange \/ \E w \in Workers : Dropped(w) \/ Late(w)

LEMMA KillKinds ==
  ASSUME TypeOK, NEW w \in Workers, Kill(w)
  PROVE  DbStep
<1>1. proc' \in [Workers -> {"up", "paused", "dead"}] /\ reaper' \in [Workers -> BOOLEAN]
  BY DEF TypeOK, Kill
<1>2. CASE BackToPoll(w) /\ lock' = [r \in Runs |-> IF lock[r] = w THEN NULL ELSE lock[r]]
  <2>1. Dropped(w)
    BY <1>2, Zenon DEF Kill, Dropped
  <2> QED
    BY <2>1, Zenon DEF DbStep
<1>3. CASE UNCHANGED <<pc, job, lock>>
  BY <1>1, <1>3 DEF Kill, ProcsChange, DbStep, dbVars
<1> QED
  BY <1>2, <1>3, Zenon DEF Kill

\* spawn_worker's new process is one of Workers.
LEMMA SpawnedName ==
  ASSUME named \in Nat, named < Len(Names)
  PROVE  Names[named + 1] \in Workers
  BY ChaosAssumption

LEMMA StepKinds ==
  ASSUME TypeOK, Roster, [ChaosNext]_allVars
  PROVE  DbStep
<1>1. CASE UNCHANGED vars
  BY <1>1 DEF DbStep
<1>2. ASSUME NEW r \in Runs, SubmitRuns(r) PROVE DbStep
  BY <1>2, Zenon DEF SubmitRuns, DbStep, Next
<1>3. ASSUME NEW w \in Workers, LateCommit(w) PROVE DbStep
  <2>1. Late(w)
    BY <1>3 DEF LateCommit, Late
  <2> QED
    BY <2>1, Zenon DEF DbStep
<1>4. ASSUME NEW w \in Workers,
             (\E r \in Runs : Claim(w, r)) \/ Heartbeat(w) \/ HeartbeatLost(w) \/ Reap(w) \/ TaskStep(w)
      PROVE  DbStep
  BY <1>4, Zenon DEF DbStep, Next
<1>5. CASE Tick
  BY <1>5, Zenon DEF DbStep, Next
<1>6. CASE Harness
  <2>1. CASE SpawnWorker
    <3>1. PICK w \in Workers : w = Names[named + 1]
      BY <2>1, SpawnedName DEF SpawnWorker, Roster
    <3>2. proc' = [proc EXCEPT ![w] = "up"] /\ reaper' = [reaper EXCEPT ![w] = TRUE]
      BY <2>1, <3>1 DEF SpawnWorker
    <3> QED
      BY <2>1, <3>2 DEF SpawnWorker, ProcsChange, DbStep, TypeOK, dbVars
  <2>2. ASSUME NEW S, Supervise(S) PROVE DbStep
    BY <2>2 DEF Supervise, ProcsChange, DbStep, TypeOK, dbVars
  <2>3. ASSUME NEW kind, ApplyFault(kind) PROVE DbStep
    <3>1. ASSUME NEW w \in crew, Kill(w) PROVE DbStep
      BY <3>1, KillKinds DEF Roster
    <3>2. ASSUME NEW w \in crew, proc' = [proc EXCEPT ![w] = "paused"],
                 UNCHANGED <<dbVars, pc, job, reaper, faults>>
          PROVE  DbStep
      BY <3>2 DEF ProcsChange, DbStep, TypeOK
    <3>3. CASE UNCHANGED proc /\ UNCHANGED <<dbVars, pc, job, reaper, faults>>
      BY <3>3 DEF ProcsChange, DbStep, TypeOK
    <3> QED
      BY <1>1, <2>3, <3>1, <3>2, <3>3 DEF ApplyFault
  <2>4. ASSUME NEW w \in Workers, Visit(w) PROVE DbStep
    <3>1. proc' = proc \/ proc' = [proc EXCEPT ![w] = "up"]
      BY <2>4 DEF Visit
    <3> QED
      BY <2>4, <3>1 DEF Visit, ProcsChange, DbStep, TypeOK, dbVars
  <2>5. CASE KillVisited
    <3>1. cur \in Workers /\ Kill(cur)
      BY <2>5 DEF KillVisited, Roster
    <3> QED
      BY <3>1, KillKinds
  <2>6. CASE \/ EnterTry \/ Query \/ LoopRaises \/ ShutdownEnds \/ Raises
             \/ CheckTermination \/ CheckIntegrity \/ FetchSpent \/ CheckSpend
    BY <1>1, <2>6 DEF EnterTry, Query, LoopRaises, ShutdownEnds, Raises, CheckTermination,
                      CheckIntegrity, FetchSpent, CheckSpend
  <2> QED
    BY <1>6, <2>1, <2>2, <2>3, <2>4, <2>5, <2>6, Zenon DEF Harness
<1>7. CASE UNCHANGED allVars
  BY <1>1, <1>7 DEF allVars
<1> QED
  BY <1>2, <1>3, <1>4, <1>5, <1>6, <1>7, Zenon DEF ChaosNext

\* A dead worker has no claim, or one whose COMMIT is on its way: to the others it is
\* as if it had polled (Frame).
LEMMA DroppedType ==
  ASSUME TypeOK, JobOwned, NEW w \in Workers, Dropped(w)
  PROVE  TypeOK' /\ JobOwned'
<1>1. TypeOK'
  BY NoJobType DEF Dropped, BackToPoll, Goto, TypeOK, PCs
<1>2. JobOwned'
  BY DEF Dropped, BackToPoll, Goto, TypeOK, JobOwned
<1> QED
  BY <1>1, <1>2

LEMMA LateType ==
  ASSUME TypeOK, JobOwned, NEW w \in Workers, Late(w)
  PROVE  TypeOK' /\ JobOwned'
<1>0. job[w].run \in Runs /\ CommitEffect(w)
  BY DEF Late, JobOwned
<1>1. TypeOK'
  <2>1. /\ runs' \in [Runs -> Run] /\ events' \in [Runs -> Seq(Event)]
        /\ tasks' \in [Runs -> Task] /\ lock' \in [Runs -> Workers \cup {NULL}]
    BY <1>0, CommitEffectType
  <2>2. pc' \in [Workers -> PCs] /\ job' \in [Workers -> Job]
    BY NoJobType DEF Late, BackToPoll, Goto, TypeOK, PCs
  <2>3. proc' = proc /\ reaper' = reaper /\ faults' = faults
    BY DEF Late
  <2> QED
    BY <2>1, <2>2, <2>3 DEF TypeOK
<1>2. JobOwned'
  BY DEF Late, BackToPoll, Goto, TypeOK, JobOwned
<1> QED
  BY <1>1, <1>2

\* The engine's invariant survives whatever the harness does to the workers.
LEMMA DbIInv ==
  ASSUME Fencing, IInv, DbStep
  PROVE  IInv'
<1>0. TypeOK /\ JobOwned /\ PollingIdle /\ FenceLocks
  BY DEF IInv
<1>1. CASE [Next]_vars
  BY <1>1, IInvStep
<1>2. CASE ProcsChange
  <2>1. runs' = runs /\ events' = events /\ tasks' = tasks /\ lock' = lock /\ pc' = pc /\ job' = job
    BY <1>2 DEF ProcsChange, dbVars
  <2>2. TypeOK'
    BY <1>0, <1>2, <2>1 DEF ProcsChange, TypeOK
  <2>3. TablesInv'
    BY <2>1, RequeueSafe
  <2> QED
    BY <2>1, <2>2, <2>3, RowsSafe
<1>3. ASSUME NEW w \in Workers, Dropped(w) \/ Late(w),
             LeasesOnlyEnd, LockedRowsStay(w), AppendsOwn(w), TablesInv'
      PROVE  IInv'
  <2>1. TypeOK' /\ JobOwned'
    BY <1>0, <1>3, DroppedType, LateType
  <2>2. BackToPoll(w)
    BY <1>3 DEF Dropped, Late
  <2>3. pc'[w] = "poll" /\ job'[w].run = NULL
    BY <1>0, <2>2 DEF BackToPoll, Goto, TypeOK, NoJob
  <2>4. OthersStay(w)
    BY <1>0, <2>2 DEF BackToPoll, Goto, TypeOK, OthersStay
  <2>5. Frame(w)
    BY <1>3, <2>3, <2>4 DEF Frame, ClaimKeptOrDropped
  <2>6. ReplayCurrentOf(w)' /\ FenceLocksOf(w)'
    BY <2>3 DEF ReplayCurrentOf, FenceLocksOf
  <2>7. PollingIdle' /\ TokensUnique' /\ ReplayCurrent' /\ FenceLocks'
    BY <2>1, <2>5, <2>6, OthersSafe
  <2> QED
    BY <1>3, <2>1, <2>7 DEF IInv, TablesInv
<1>4. ASSUME NEW w \in Workers, Dropped(w) PROVE IInv'
  <2>1. runs' = runs /\ events' = events /\ tasks' = tasks
        /\ lock' = [r \in Runs |-> IF lock[r] = w THEN NULL ELSE lock[r]]
    BY <1>4 DEF Dropped
  <2>2. LeasesOnlyEnd /\ LockedRowsStay(w) /\ AppendsOwn(w)
    BY <2>1 DEF LeasesOnlyEnd, LockedRowsStay, AppendsOwn
  <2>3. TablesInv'
    BY <2>1, RequeueSafe
  <2> QED
    BY <1>3, <1>4, <2>2, <2>3
<1>5. ASSUME NEW w \in Workers, Late(w) PROVE IInv'
  <2>1. job[w].run \in Runs /\ pc[w] = "append" /\ CommitEffect(w)
    BY <1>0, <1>5 DEF Late, JobOwned
  <2>2. LeasesOnlyEnd /\ LockedRowsStay(w) /\ AppendsOwn(w)
    BY <1>0, <2>1, CommitFrame
  <2>3. TablesInv'
    BY <2>1, CommitSafe
  <2> QED
    BY <1>3, <1>5, <2>2, <2>3
<1> QED
  BY <1>1, <1>2, <1>4, <1>5 DEF DbStep

LEMMA DbOutcomeCosts ==
  ASSUME IInv, OutcomeCosts, DbStep
  PROVE  OutcomeCosts'
<1>0. TypeOK /\ JobOwned
  BY DEF IInv
<1>1. CASE [Next]_vars
  BY <1>0, <1>1, OutcomeCostsStep
<1>2. CASE ProcsChange
  BY <1>2 DEF ProcsChange, OutcomeCosts
<1>3. ASSUME NEW w \in Workers, BackToPoll(w) PROVE OutcomeCosts'
  BY <1>0, <1>3 DEF BackToPoll, Goto, TypeOK, OutcomeCosts
<1> QED
  BY <1>1, <1>2, <1>3 DEF DbStep, Dropped, Late

LEMMA DbSpend ==
  ASSUME WholeMicros, IInv, OutcomeCosts, SpendInv, DbStep
  PROVE  SpendInv'
<1>0. TypeOK /\ JobOwned
  BY DEF IInv
<1>1. CASE [Next]_vars
  BY <1>0, <1>1, SpendStep
<1>2. CASE runs' = runs /\ events' = events
  BY <1>2 DEF SpendInv
<1>3. ASSUME NEW w \in Workers, Late(w) PROVE SpendInv'
  <2>1. pc[w] = "append" /\ CommitEffect(w)
    BY <1>3 DEF Late
  <2> QED
    BY <1>0, <2>1, CommitSpend
<1> QED
  BY <1>1, <1>2, <1>3 DEF DbStep, ProcsChange, Dropped, dbVars

\* A finished run stays as it is, under the harness's faults too.
LEMMA DbFinishedKept ==
  ASSUME IInv, DbStep, NEW r \in Runs, runs[r].status \in Terminal
  PROVE  runs'[r] = runs[r]
<1>1. CASE [Next]_vars
  BY <1>1, FinishedKept DEF FinishedStays
<1>2. CASE runs' = runs
  BY <1>2
<1>3. ASSUME NEW w \in Workers, Late(w) PROVE runs'[r] = runs[r]
  <2>1. pc[w] = "append" /\ CommitEffect(w) /\ TypeOK
    BY <1>3 DEF Late, IInv
  <2>2. job[w].run # r
    <3>1. tasks[r].status = "done"
      BY DEF IInv, TablesAgree
    <3> QED
      BY <2>1, <3>1, InsertedAtEnd DEF Holds
  <2> QED
    BY <2>1, <2>2 DEF CommitEffect, TypeOK
<1> QED
  BY <1>1, <1>2, <1>3 DEF DbStep, ProcsChange, Dropped, dbVars

\* A commit writes a terminal status, or leaves the status alone.
LEMMA CommitPresent ==
  ASSUME IInv, NEW w \in Workers, pc[w] = "append", CommitEffect(w),
         NEW r \in Runs, runs[r].status # "absent"
  PROVE  runs'[r].status # "absent"
<1>1. \A s \in Terminal : s # "absent"
  BY DEF Terminal
<1> QED
  BY <1>1, CommitIs

\* A submitted run stays in the table (runs has no DELETE).
LEMMA DbPresent ==
  ASSUME IInv, DbStep, NEW r \in Runs, runs[r].status # "absent"
  PROVE  runs'[r].status # "absent"
<1>0. TypeOK
  BY DEF IInv
<1>1. CASE runs' = runs
  BY <1>1
<1>2. ASSUME NEW w \in Workers, pc[w] = "append", CommitEffect(w) PROVE runs'[r].status # "absent"
  BY <1>2, CommitPresent
<1>3. ASSUME NEW q \in Runs, Submit(q) PROVE runs'[r].status # "absent"
  BY <1>0, <1>3 DEF Submit, TypeOK, Run
<1>4. ASSUME NEW w \in Workers, NEW q \in Runs, Claim(w, q) PROVE runs'[r].status # "absent"
  BY <1>0, <1>4 DEF Claim, TypeOK, Run
<1>5. ASSUME NEW w \in Workers, WorkerStep(w) PROVE runs'[r].status # "absent"
  <2>1. CASE Commit(w) \/ CommitAckLost(w)
    BY <1>2, <2>1 DEF Commit, CommitAckLost
  <2> QED
    BY <1>1, <1>5, <2>1
    DEF WorkerStep, Heartbeat, HeartbeatLost, Reap, Resume, TaskStep, ReadEvents, NextStep, StepRaises,
        Begin, AssertLease, ReleaseTask, FailRun, Fault, DbError, ReaperDies, Crash, Restart, Pause, dbVars
<1>6. CASE Tick \/ Lapse \/ UNCHANGED vars
  BY <1>1, <1>6 DEF Tick, Lapse, vars, dbVars
<1>7. CASE [Next]_vars
  BY <1>3, <1>4, <1>5, <1>6, <1>7, Zenon DEF Next, WorkerStep
<1> QED
  BY <1>1, <1>2, <1>7 DEF DbStep, ProcsChange, Dropped, Late, dbVars

\* To the outside, the harness's faults are steps of the single-writer log, or nothing.
LEMMA DbRefines ==
  ASSUME IInv, OutcomeCosts, DbStep
  PROVE  [Log!Next]_(Log!vars)
<1>1. CASE [Next]_vars
  BY <1>1, StepRefines
<1>2. ASSUME NEW w \in Workers, Late(w) PROVE Log!Next
  <2>1. pc[w] = "append" /\ CommitEffect(w)
    BY <1>2 DEF Late
  <2> QED
    BY <2>1, CommitRefines
<1>3. CASE runs' = runs /\ events' = events /\ tasks' = tasks
  BY <1>3, Zenon DEF Log!vars
<1> QED
  BY <1>1, <1>2, <1>3 DEF DbStep, ProcsChange, Dropped, dbVars
-----------------------------------------------------------------------------
(***************************************************************************)
(* The harness itself.                                                     *)
(***************************************************************************)
\* A killed worker is dead, the others are as they were.
LEMMA KillDead ==
  ASSUME Roster, NEW w \in Workers, Kill(w)
  PROVE  /\ proc' \in [Workers -> {"up", "paused", "dead"}]
         /\ \A v \in Workers : Alive(v)' => Alive(v) /\ v # w
  BY DEF Roster, Kill, Alive

\* Nobody comes to life, and the lists stay.
LEMMA RosterKept ==
  ASSUME Roster, UNCHANGED crewVars, proc' \in [Workers -> {"up", "paused", "dead"}],
         \A w \in Workers : Alive(w)' => Alive(w), hpc' = hpc \/ hpc' \notin Stopping
  PROVE  Roster'
  BY DEF Roster, crewVars, Stopping

\* A worker is spawned onto the list, leaves it only dead, and shutdown's loop takes
\* every one of the list in hand and kills it.
LEMMA RosterStep == Roster /\ [ChaosNext]_allVars => Roster'
<1> SUFFICES ASSUME Roster, [ChaosNext]_allVars PROVE Roster'
  OBVIOUS
<1>1. ASSUME UNCHANGED crewVars, proc' = proc, hpc' = hpc \/ hpc' \notin Stopping PROVE Roster'
  <2>1. proc' \in [Workers -> {"up", "paused", "dead"}] /\ \A w \in Workers : Alive(w)' => Alive(w)
    BY <1>1 DEF Roster, Alive
  <2> QED
    BY <1>1, <2>1, RosterKept
<1>2. CASE SpawnWorker
  <2>1. PICK w \in Workers : w = Names[named + 1]
    BY <1>2, SpawnedName DEF SpawnWorker, Roster
  <2>2. /\ proc' = [proc EXCEPT ![w] = "up"] /\ crew' = crew \cup {w} /\ named' = named + 1
        /\ todo' = todo /\ cur' = cur
    BY <1>2, <2>1 DEF SpawnWorker
  <2>3. hpc' \in {"start", "respawn", "faults", "query"}
    BY <1>2 DEF SpawnWorker
  <2>4. hpc' \notin Stopping /\ hpc' \notin Behind
    BY <2>3 DEF Stopping, Behind
  <2> QED
    BY <2>2, <2>4 DEF Roster, Alive
<1>3. ASSUME NEW S, Supervise(S) PROVE Roster'
  <2>1. /\ proc' = [w \in Workers |-> IF w \in S THEN "up" ELSE proc[w]] /\ crew' = Living
        /\ UNCHANGED <<named, todo, cur>> /\ hpc' \in {"respawn", "query"}
        /\ S \subseteq {w \in crew : proc[w] = "paused"}
    BY <1>3 DEF Supervise
  <2>2. \A w \in Workers : Alive(w)' => Alive(w)
    BY <2>1 DEF Alive
  <2>3. hpc' \notin Stopping /\ hpc' \notin Behind
    BY <2>1 DEF Stopping, Behind
  <2> QED
    BY <2>1, <2>2, <2>3 DEF Roster, Living
<1>4. ASSUME NEW kind, ApplyFault(kind) PROVE Roster'
  <2>1. hpc' = hpc /\ UNCHANGED crewVars
    BY <1>4 DEF ApplyFault
  <2>2. ASSUME NEW w \in crew, Kill(w) PROVE Roster'
    <3>1. w \in Workers
      BY DEF Roster
    <3> QED
      BY <2>1, <2>2, <3>1, KillDead, RosterKept
  <2>3. ASSUME NEW w \in crew, Up(w), proc' = [proc EXCEPT ![w] = "paused"] PROVE Roster'
    <3>1. /\ proc' \in [Workers -> {"up", "paused", "dead"}]
          /\ \A v \in Workers : Alive(v)' => Alive(v)
      BY <2>3 DEF Roster, Alive, Up
    <3> QED
      BY <2>1, <3>1, RosterKept
  <2>4. CASE proc' = proc
    BY <1>1, <2>1, <2>4
  <2> QED
    BY <1>4, <2>2, <2>3, <2>4 DEF ApplyFault, vars, workerVars
<1>5. CASE Query \/ LoopRaises
  <2>1. proc' = proc
    BY <1>5 DEF Query, LoopRaises, vars, workerVars
  <2>2. CASE UNCHANGED crewVars /\ hpc' = "faults"
    BY <1>1, <2>1, <2>2 DEF Stopping, Behind
  <2>3. ASSUME NEW to \in {"shutdown", "failing"}, Leave(to) PROVE Roster'
    BY <2>1, <2>3 DEF Leave, Roster, Alive, Behind
  <2> QED
    BY <1>5, <2>2, <2>3 DEF Query, LoopRaises
<1>6. ASSUME NEW w \in Workers, Visit(w) PROVE Roster'
  <2>1. /\ hpc' = hpc /\ hpc \in {"shutdown", "failing"} /\ cur = NULL /\ todo' = todo \ {w}
        /\ named' = named /\ crew' = crew
        /\ \/ Alive(w) /\ cur' = w /\ proc' = [proc EXCEPT ![w] = "up"]
           \/ ~Alive(w) /\ cur' = cur /\ proc' = proc
    BY <1>6 DEF Visit, InShutdown
  <2>2. \A v \in Workers : Alive(v)' => Alive(v)
    BY <2>1 DEF Alive, Roster
  <2>3. hpc \in Stopping /\ hpc \notin Behind
    BY <2>1 DEF Stopping, Behind
  <2>4. \A v \in Workers : Alive(v) => v \in todo
    BY <2>1, <2>3, ConstantsAssumption DEF Roster
  <2>5. \A v \in Workers : Alive(v)' => v \in todo' \cup {cur'}
    BY <2>1, <2>2, <2>4
  <2>6. proc' \in [Workers -> {"up", "paused", "dead"}]
    BY <2>1 DEF Roster
  <2> QED
    BY <2>1, <2>2, <2>3, <2>5, <2>6 DEF Roster
<1>7. CASE KillVisited
  <2>1. /\ cur \in Workers /\ Kill(cur) /\ cur' = NULL /\ hpc' = hpc /\ hpc \in {"shutdown", "failing"}
        /\ UNCHANGED <<named, crew, todo>>
    BY <1>7 DEF KillVisited, InShutdown, Roster
  <2>2. /\ proc' \in [Workers -> {"up", "paused", "dead"}]
        /\ \A v \in Workers : Alive(v)' => Alive(v) /\ v # cur
    BY <2>1, KillDead
  <2>3. hpc \in Stopping /\ hpc \notin Behind
    BY <2>1 DEF Stopping, Behind
  <2> QED
    BY <2>1, <2>2, <2>3 DEF Roster
<1>8. CASE ShutdownEnds \/ Raises
  <2>1. proc' = proc /\ UNCHANGED crewVars
    BY <1>8 DEF ShutdownEnds, Raises, vars, workerVars
  <2>2. hpc \in Stopping
    BY <1>8 DEF ShutdownEnds, Raises, InShutdown, Stopping, Behind
  <2>3. hpc' \in Behind => todo = {} /\ cur = NULL
    BY <1>8 DEF ShutdownEnds, Raises, Behind
  <2> QED
    BY <2>1, <2>2, <2>3 DEF Roster, Alive, crewVars
<1>9. CASE CheckTermination \/ CheckIntegrity \/ FetchSpent \/ CheckSpend
  <2>1. proc' = proc /\ UNCHANGED crewVars
    BY <1>9 DEF CheckTermination, CheckIntegrity, FetchSpent, CheckSpend, vars, workerVars
  <2>2. hpc \in Behind
    BY <1>9 DEF CheckTermination, CheckIntegrity, FetchSpent, CheckSpend, Hgoto, Behind
  <2> QED
    BY <2>1, <2>2 DEF Roster, Alive, crewVars, Stopping
<1>10. CASE EnterTry
  BY <1>1, <1>10 DEF EnterTry, Hgoto, Stopping, Behind, vars, workerVars
<1>11. ASSUME NEW r \in Runs, SubmitRuns(r) PROVE Roster'
  BY <1>1, <1>11 DEF SubmitRuns, Submit, workerVars, chaosVars
<1>12. ASSUME NEW w \in Workers, LateCommit(w) PROVE Roster'
  BY <1>1, <1>12 DEF LateCommit, chaosVars
<1>13. ASSUME NEW w \in Workers, UNCHANGED chaosVars,
             (\E r \in Runs : Claim(w, r)) \/ Heartbeat(w) \/ HeartbeatLost(w) \/ Reap(w) \/ TaskStep(w)
      PROVE  Roster'
  <2>1. proc' = proc
    BY <1>13
    DEF Claim, Heartbeat, HeartbeatLost, Reap, TaskStep, ReadEvents, NextStep, StepRaises, Begin,
        AssertLease, Commit, ReleaseTask, FailRun, workerVars
  <2> QED
    BY <1>1, <1>13, <2>1 DEF chaosVars
<1>14. CASE Tick /\ UNCHANGED chaosVars
  BY <1>1, <1>14 DEF Tick, workerVars, chaosVars
<1>15. CASE UNCHANGED allVars
  BY <1>1, <1>15 DEF allVars, vars, workerVars, chaosVars
<1>16. CASE Harness
  BY <1>2, <1>3, <1>4, <1>5, <1>6, <1>7, <1>8, <1>9, <1>10, <1>16, Zenon DEF Harness
<1> QED
  BY <1>11, <1>12, <1>13, <1>14, <1>15, <1>16, Zenon DEF ChaosNext

LEMMA RosterStart == ChaosInit => Roster
  BY DEF ChaosInit, Roster, Stopping, Behind, Alive

\* However run_chaos ends, its workers are dead, the suspended ones too: whoever is
\* alive is on the injector's list (spawn_worker, and the supervisor drops only the
\* dead), and shutdown's loop kills the whole list. Only an exception inside that loop
\* leaves the workers it had not come to or not yet killed.
THEOREM NoWorkerLeft == ChaosSpec => []NoOrphans
<1>1. Roster => NoOrphans
  <2>1. ASSUME Roster, hpc = "reported" PROVE \A w \in Workers : ~Alive(w)
    BY <2>1, ConstantsAssumption DEF Roster, Stopping, Behind
  <2>2. ASSUME Roster, hpc = "raised" PROVE \A w \in Workers : Alive(w) => w \in todo \cup {cur}
    BY <2>2 DEF Roster, Stopping
  <2> QED
    BY <2>1, <2>2 DEF NoOrphans
<1> QED
  BY <1>1, RosterStart, RosterStep, PTL DEF ChaosSpec

\* What holds of a sound log, the checkers report.
LEMMA OrderedPasses ==
  ASSUME IInv, NEW r \in Runs
  PROVE  log_integrity(events[r])
<1>1. events[r] \in Seq(Event) /\ Ordered(events[r], tasks[r].attempt)
  BY DEF IInv, TypeOK, LogOrdered
<1>2. DOMAIN events[r] = 1..Len(events[r]) /\ Len(events[r]) \in Nat
  BY <1>1
<1>3. ASSUME NEW j \in DOMAIN events[r], NEW k \in DOMAIN events[r]
      PROVE  /\ events[r][k].key = k - 1
             /\ j < k => events[r][j].attempt <= events[r][k].attempt /\ ~events[r][j].final
  BY <1>1, <1>2 DEF Ordered
<1> QED
  BY <1>1, <1>3, IntegrityExact

LEMMA SameTerminal == TERMINAL = Terminal
  BY DEF TERMINAL, Terminal

\* termination's two comparisons, when every run has its row.
LEMMA TerminationExact ==
  ASSUME \A r \in Runs : runs[r].status # "absent"
  PROVE  termination([r \in {q \in Runs : runs[q].status # "absent"} |-> runs[r].status], Runs)
           <=> AllFinished
<1>1. {q \in Runs : runs[q].status # "absent"} = Runs
  OBVIOUS
<1>2. PICK rows : rows = [r \in Runs |-> runs[r].status]
  OBVIOUS
<1>3. DOMAIN rows = Runs /\ \A r \in Runs : rows[r] = runs[r].status
  BY <1>2
<1>4. termination(rows, Runs) <=> AllFinished
  BY <1>3, SameTerminal, Zenon DEF termination, AllFinished
<1> QED
  BY <1>1, <1>2, <1>4, Zenon

\* One result is set, the others stay (InvariantResult.passed).
LEMMA VerdictSet ==
  ASSUME VerdictType, NEW b \in BOOLEAN
  PROVE  /\ \A v : v = [verdict EXCEPT !.timedOut = b] =>
              /\ v.timedOut = b /\ v.termination = verdict.termination
              /\ v.integrity = verdict.integrity /\ v.spend = verdict.spend
         /\ \A v : v = [verdict EXCEPT !.termination = b] =>
              /\ v.termination = b /\ v.timedOut = verdict.timedOut
              /\ v.integrity = verdict.integrity /\ v.spend = verdict.spend
         /\ \A v : v = [verdict EXCEPT !.integrity = b] =>
              /\ v.integrity = b /\ v.timedOut = verdict.timedOut
              /\ v.termination = verdict.termination /\ v.spend = verdict.spend
         /\ \A v : v = [verdict EXCEPT !.spend = b] =>
              /\ v.spend = b /\ v.timedOut = verdict.timedOut
              /\ v.termination = verdict.termination /\ v.integrity = verdict.integrity
         /\ {[verdict EXCEPT !.timedOut = b], [verdict EXCEPT !.termination = b],
             [verdict EXCEPT !.integrity = b], [verdict EXCEPT !.spend = b]}
              \subseteq [timedOut: BOOLEAN, termination: BOOLEAN, integrity: BOOLEAN, spend: BOOLEAN]
  BY DEF VerdictType

\* Where the harness stays where it is, what it knows stays true.
LEMMA HarnessStays ==
  ASSUME ChaosInv, DbStep, verdict' = verdict, spent' = spent, hpc' = hpc
  PROVE  HarnessInv'
<1>1. IInv /\ HarnessInv
  BY DEF ChaosInv
<1>2. \A r \in Runs : runs[r].status \in Terminal => runs'[r] = runs[r]
  BY <1>1, DbFinishedKept
<1>3. \A r \in Runs : runs[r].status # "absent" => runs'[r].status # "absent"
  BY <1>1, DbPresent
<1>4. AllFinished => AllFinished' /\ \A r \in Runs : runs'[r] = runs[r]
  BY <1>2 DEF AllFinished
<1>5. VerdictType' /\ IntegrityKnown' /\ SpendKnown'
  BY <1>1 DEF HarnessInv, VerdictType, IntegrityKnown, SpendKnown
<1>6. AllSubmitted'
  BY <1>1, <1>3 DEF HarnessInv, AllSubmitted
<1>7. StoppedFor' /\ TerminationKnown'
  BY <1>1, <1>4 DEF HarnessInv, StoppedFor, TerminationKnown
<1>8. SpentKnown'
  BY <1>1, <1>4 DEF HarnessInv, SpentKnown, StoppedFor, Behind
<1> QED
  BY <1>5, <1>6, <1>7, <1>8 DEF HarnessInv

\* Where it goes on without touching the rows.
LEMMA HarnessMoves ==
  ASSUME WholeMicros, ChaosInv, runs' = runs, events' = events,
         \/ Query \/ LoopRaises \/ Raises
         \/ CheckTermination \/ CheckIntegrity \/ FetchSpent \/ CheckSpend
  PROVE  HarnessInv'
<1>0. IInv /\ SpendInv /\ VerdictType /\ AllSubmitted /\ StoppedFor /\ TerminationKnown
      /\ IntegrityKnown /\ SpentKnown /\ SpendKnown
  BY DEF ChaosInv, HarnessInv
<1>a. AllFinished' <=> AllFinished
  BY DEF AllFinished
<1>1. CASE Query
  <2>1. hpc = "query" /\ hpc' \in {"faults", "shutdown"}
    BY <1>1 DEF Query, Leave
  <2>2. AllSubmitted'
    BY <1>0, <2>1 DEF AllSubmitted
  <2>3. TerminationKnown' /\ IntegrityKnown' /\ SpentKnown' /\ SpendKnown'
    BY <2>1 DEF TerminationKnown, IntegrityKnown, SpentKnown, SpendKnown, Behind
  <2>4. CASE verdict' = verdict
    <3>1. hpc' = "shutdown" => AllFinished \/ verdict'.timedOut
      <4>1. CASE AllFinished
        BY <4>1
      <4>2. CASE ~AllFinished
        <5>1. ~\A r \in Runs : runs[r].status \in TERMINAL
          BY <4>2, SameTerminal DEF AllFinished
        <5>2. hpc' = "faults" \/ verdict' = [verdict EXCEPT !.timedOut = TRUE]
          BY <1>1, <5>1 DEF Query
        <5>3. CASE verdict' = [verdict EXCEPT !.timedOut = TRUE]
          BY <1>0, <5>3, VerdictSet
        <5> QED
          BY <5>2, <5>3
      <4> QED
        BY <4>1, <4>2
    <3> QED
      BY <1>0, <1>a, <2>1, <2>2, <2>3, <2>4, <3>1 DEF HarnessInv, StoppedFor, VerdictType, Behind
  <2>5. CASE verdict' = [verdict EXCEPT !.timedOut = TRUE]
    <3>1. verdict'.timedOut = TRUE /\ VerdictType'
      BY <1>0, <2>5, VerdictSet DEF VerdictType
    <3> QED
      BY <2>2, <2>3, <3>1 DEF HarnessInv, StoppedFor
  <2> QED
    BY <1>1, <2>4, <2>5 DEF Query
<1>2. CASE LoopRaises \/ Raises
  <2>1. hpc # "submit" /\ hpc' \in {"failing", "raised"} /\ verdict' = verdict
    BY <1>2 DEF LoopRaises, Raises, InShutdown, Leave
  <2> QED
    BY <1>0, <2>1 DEF HarnessInv, VerdictType, AllSubmitted, StoppedFor, TerminationKnown,
                      IntegrityKnown, SpentKnown, SpendKnown, Behind
<1>3. CASE CheckTermination
  <2>1. hpc = "termination" /\ hpc' = "integrity"
    BY <1>3 DEF CheckTermination, Hgoto
  <2>2. PICK b \in BOOLEAN : b <=> AllFinished
    OBVIOUS
  <2>3. \A r \in Runs : runs[r].status # "absent"
    BY <1>0, <2>1 DEF AllSubmitted
  <2>4. termination([r \in {q \in Runs : runs[q].status # "absent"} |-> runs[r].status], Runs) = b
    <3>1. termination([r \in {q \in Runs : runs[q].status # "absent"} |-> runs[r].status], Runs)
            \in BOOLEAN
      BY Zenon DEF termination
    <3> QED
      BY <2>2, <2>3, <3>1, TerminationExact, Zenon
  <2>5. verdict' = [verdict EXCEPT !.termination = b]
    BY <1>3, <2>4, Zenon DEF CheckTermination
  <2>6. verdict'.termination = b /\ verdict'.timedOut = verdict.timedOut /\ VerdictType'
    BY <1>0, <2>5, VerdictSet DEF VerdictType
  <2> QED
    BY <1>0, <1>a, <2>1, <2>2, <2>3, <2>6
    DEF HarnessInv, AllSubmitted, StoppedFor, TerminationKnown, IntegrityKnown, SpentKnown, SpendKnown, Behind
<1>4. CASE CheckIntegrity
  <2>1. hpc = "integrity" /\ hpc' = "spent"
    BY <1>4 DEF CheckIntegrity, Hgoto
  <2>2. (\A r \in Runs : log_integrity(events[r])) = TRUE
    BY <1>0, OrderedPasses
  <2>3. verdict' = [verdict EXCEPT !.integrity = TRUE]
    BY <1>4, <2>2, Zenon DEF CheckIntegrity
  <2>4. /\ verdict'.integrity = TRUE /\ verdict'.timedOut = verdict.timedOut
        /\ verdict'.termination = verdict.termination /\ VerdictType'
    BY <1>0, <2>3, VerdictSet DEF VerdictType
  <2> QED
    BY <1>0, <1>a, <2>1, <2>4
    DEF HarnessInv, AllSubmitted, StoppedFor, TerminationKnown, IntegrityKnown, SpentKnown, SpendKnown, Behind
<1>5. CASE FetchSpent
  <2>1. hpc = "spent" /\ hpc' = "spend" /\ verdict' = verdict /\ spent' = [r \in Runs |-> runs[r].spent]
    BY <1>5 DEF FetchSpent, Hgoto
  <2>2. SpentKnown'
    BY <2>1 DEF SpentKnown
  <2> QED
    BY <1>0, <1>a, <2>1, <2>2
    DEF HarnessInv, VerdictType, AllSubmitted, StoppedFor, TerminationKnown, IntegrityKnown, SpendKnown, Behind
<1>6. CASE CheckSpend
  <2>1. hpc = "spend" /\ hpc' = "reported"
    BY <1>6 DEF CheckSpend, Hgoto
  <2>2. PICK b \in BOOLEAN : b <=> \A r \in Runs : spend_consistency(spent[r], events[r])
    OBVIOUS
  <2>3. ~verdict.timedOut => b
    <3> SUFFICES ASSUME ~verdict.timedOut, NEW r \in Runs PROVE spend_consistency(spent[r], events[r])
      BY <2>2
    <3>1. spent[r] = Recorded(events[r]) /\ events[r] \in Seq(Event)
      BY <1>0, <2>1 DEF SpentKnown, SpendInv, IInv, TypeOK
    <3> QED
      BY <3>1, SpendSum
  <2>4. verdict' = [verdict EXCEPT !.spend = b]
    <3>1. (\A r \in Runs : spend_consistency(spent[r], events[r])) = b
      BY <2>2
    <3> QED
      BY <1>6, <3>1, Zenon DEF CheckSpend
  <2>5. /\ verdict'.spend = b /\ verdict'.timedOut = verdict.timedOut
        /\ verdict'.termination = verdict.termination /\ verdict'.integrity = verdict.integrity
        /\ VerdictType'
    BY <1>0, <2>4, VerdictSet DEF VerdictType
  <2> QED
    BY <1>0, <1>a, <2>1, <2>3, <2>5
    DEF HarnessInv, AllSubmitted, StoppedFor, TerminationKnown, IntegrityKnown, SpentKnown, SpendKnown, Behind
<1> QED
  BY <1>1, <1>2, <1>3, <1>4, <1>5, <1>6

\* What the harness knows is kept by every step of a scenario.
LEMMA HarnessStep ==
  ASSUME WholeMicros, ChaosInv, [ChaosNext]_allVars
  PROVE  HarnessInv'
<1>0. IInv /\ HarnessInv /\ DbStep
  BY StepKinds DEF ChaosInv, IInv
<1>1. CASE verdict' = verdict /\ spent' = spent /\ hpc' = hpc
  BY <1>0, <1>1, HarnessStays
<1>2. CASE UNCHANGED chaosVars
  BY <1>1, <1>2 DEF chaosVars
<1>3. CASE Harness
  <2>1. ASSUME hpc' \in {"start", "respawn", "faults", "query"}, runs' = runs, verdict' = verdict,
               \A r \in Runs : runs[r].status # "absent"
        PROVE  HarnessInv'
    BY <1>0, <2>1 DEF HarnessInv, VerdictType, AllSubmitted, StoppedFor, TerminationKnown,
                      IntegrityKnown, SpentKnown, SpendKnown, Behind
  <2>2. CASE EnterTry
    BY <2>1, <2>2 DEF EnterTry, Hgoto, vars, dbVars
  <2>3. CASE SpawnWorker
    <3>1. hpc # "submit" /\ hpc' \in {"start", "respawn", "faults", "query"}
          /\ runs' = runs /\ verdict' = verdict
      BY <2>3 DEF SpawnWorker, dbVars
    <3> QED
      BY <1>0, <2>1, <3>1 DEF HarnessInv, AllSubmitted
  <2>4. ASSUME NEW S, Supervise(S) PROVE HarnessInv'
    <3>1. hpc = "faults" /\ hpc' \in {"respawn", "query"} /\ runs' = runs /\ verdict' = verdict
      BY <2>4 DEF Supervise, dbVars
    <3> QED
      BY <1>0, <2>1, <3>1 DEF HarnessInv, AllSubmitted
  <2>5. ASSUME NEW kind, ApplyFault(kind) PROVE HarnessInv'
    BY <1>1, <2>5, Zenon DEF ApplyFault
  <2>6. ASSUME NEW w \in Workers, Visit(w) PROVE HarnessInv'
    BY <1>1, <2>6, Zenon DEF Visit
  <2>7. CASE KillVisited
    BY <1>1, <2>7, Zenon DEF KillVisited
  <2>8. CASE ShutdownEnds
    <3>1. /\ hpc \in {"shutdown", "failing"} /\ verdict' = verdict /\ spent' = spent
          /\ hpc' = (IF hpc = "failing" THEN "raised" ELSE "termination") /\ runs' = runs
      BY <2>8 DEF ShutdownEnds, InShutdown, vars, dbVars
    <3> QED
      BY <1>0, <3>1
      DEF HarnessInv, VerdictType, AllSubmitted, StoppedFor, TerminationKnown,
          IntegrityKnown, SpentKnown, SpendKnown, Behind, AllFinished
  <2>9. CASE \/ Query \/ LoopRaises \/ Raises
             \/ CheckTermination \/ CheckIntegrity \/ FetchSpent \/ CheckSpend
    <3>1. runs' = runs /\ events' = events
      BY <2>9 DEF Query, LoopRaises, Raises, CheckTermination, CheckIntegrity, FetchSpent, CheckSpend,
                  vars, dbVars
    <3> QED
      BY <2>9, <3>1, HarnessMoves, Zenon
  <2> QED
    BY <1>3, <2>2, <2>3, <2>4, <2>5, <2>6, <2>7, <2>8, <2>9, Zenon DEF Harness
<1>4. ASSUME NEW w \in Workers, LateCommit(w) PROVE HarnessInv'
  BY <1>2, <1>4, Zenon DEF LateCommit, chaosVars
<1>5. ASSUME NEW r \in Runs, SubmitRuns(r) PROVE HarnessInv'
  BY <1>2, <1>5, Zenon DEF SubmitRuns
<1>6. CASE UNCHANGED allVars
  BY <1>2, <1>6 DEF allVars
<1> QED
  BY <1>2, <1>3, <1>4, <1>5, <1>6, Zenon DEF ChaosNext
-----------------------------------------------------------------------------
\* Before a run is submitted and a worker started, all is in order.
LEMMA ChaosStart ==
  ASSUME ChaosInit
  PROVE  IInv /\ OutcomeCosts /\ SpendInv /\ HarnessInv
<1>1. TypeOK
  BY ConstantsAssumption, NoJobType
  DEF ChaosInit, TypeOK, Run, RunStatus, Event, Task, PCs, FaultKinds
<1>2. JobOwned /\ PollingIdle /\ TokensUnique /\ ReplayCurrent /\ FenceLocks /\ OutcomeCosts
  BY DEF ChaosInit, JobOwned, PollingIdle, TokensUnique, ReplayCurrent, FenceLocks, OutcomeCosts, NoJob
<1>3. ClaimsCounted /\ TablesAgree
  BY DEF ChaosInit, ClaimsCounted, TablesAgree, Finished, Terminal
<1>4. LogOrdered
  BY DEF ChaosInit, LogOrdered, Ordered
<1>5. SpendInv
  <2> SUFFICES ASSUME NEW r \in Runs
               PROVE  runs[r].spent % 2 = 0 /\ runs[r].spent = Recorded(events[r])
    BY DEF SpendInv
  <2>1. runs[r].spent = 0 /\ events[r] = <<>>
    BY DEF ChaosInit
  <2>2. 0 % 2 = 0 /\ Recorded(<<>>) = 0
    BY RecordedAppend
  <2> QED
    BY <2>1, <2>2, Zenon
<1>6. HarnessInv
  BY DEF ChaosInit, HarnessInv, VerdictType, AllSubmitted, StoppedFor, TerminationKnown,
         IntegrityKnown, SpentKnown, SpendKnown, Behind
<1> QED
  BY <1>1, <1>2, <1>3, <1>4, <1>5, <1>6 DEF IInv

\* The database under a scenario is that of the fenced engine, whatever the schedule.
LEMMA ScenarioKeepsEngine == ASSUME Fencing PROVE ChaosSpec => [](Roster /\ IInv /\ OutcomeCosts)
<1>1. ChaosInit => Roster /\ IInv /\ OutcomeCosts
  BY ChaosStart, RosterStart
<1>2. (Roster /\ IInv /\ OutcomeCosts) /\ [ChaosNext]_allVars => (Roster /\ IInv /\ OutcomeCosts)'
  <2> SUFFICES ASSUME Roster, IInv, OutcomeCosts, [ChaosNext]_allVars
               PROVE  Roster' /\ IInv' /\ OutcomeCosts'
    OBVIOUS
  <2>1. DbStep
    BY StepKinds DEF IInv
  <2> QED
    BY <2>1, RosterStep, DbIInv, DbOutcomeCosts
<1> QED
  BY <1>1, <1>2, PTL DEF ChaosSpec

\* The report of a chaos scenario is true, for good: PASS only if every run ended and
\* its log and spend are right, and FAIL only after a timeout (run_chaos, check_all).
THEOREM ReportIsTrue == ASSUME Fencing, WholeMicros PROVE ChaosSpec => []ReportTrue
<1>1. ChaosInit => ChaosInv
  BY ChaosStart, RosterStart DEF ChaosInv
<1>2. ChaosInv /\ [ChaosNext]_allVars => ChaosInv'
  <2> SUFFICES ASSUME ChaosInv, [ChaosNext]_allVars PROVE ChaosInv'
    OBVIOUS
  <2>1. IInv /\ OutcomeCosts /\ SpendInv /\ DbStep
    BY StepKinds DEF ChaosInv, IInv
  <2>2. IInv' /\ OutcomeCosts' /\ SpendInv'
    BY <2>1, DbIInv, DbOutcomeCosts, DbSpend
  <2>3. HarnessInv'
    BY HarnessStep
  <2>4. Roster'
    BY RosterStep DEF ChaosInv
  <2> QED
    BY <2>2, <2>3, <2>4 DEF ChaosInv
<1>3. ChaosInv => ReportTrue
  <2> SUFFICES ASSUME ChaosInv, hpc = "reported"
               PROVE  /\ passed => /\ \A r \in Runs : runs[r].status \in Terminal
                                   /\ KeysContiguous /\ NoStaleWriter /\ SpendConsistency
                      /\ ~passed => verdict.timedOut
    BY Zenon DEF ReportTrue
  <2>1. TypeOK /\ LogOrdered /\ SpendInv /\ HarnessInv
    BY DEF ChaosInv, IInv
  <2>2. KeysContiguous
    BY <2>1 DEF KeysContiguous, LogOrdered, Ordered
  <2>3. NoStaleWriter
    <3> SUFFICES ASSUME NEW r \in Runs, NEW j \in DOMAIN events[r], NEW k \in DOMAIN events[r], j < k
                 PROVE  events[r][j].attempt <= events[r][k].attempt /\ ~events[r][j].final
      BY DEF NoStaleWriter
    <3>1. events[r] \in Seq(Event) /\ Ordered(events[r], tasks[r].attempt)
      BY <2>1 DEF TypeOK, LogOrdered
    <3>2. j \in 1..Len(events[r]) /\ k \in 1..Len(events[r]) /\ Len(events[r]) \in Nat
      BY <3>1
    <3> QED
      BY <3>1, <3>2 DEF Ordered
  <2>4. SpendConsistency
    BY <2>1 DEF SpendInv, SpendConsistency
  <2>5. passed => \A r \in Runs : runs[r].status \in Terminal
    BY <2>1 DEF passed, HarnessInv, TerminationKnown, Behind, AllFinished
  <2>6. ~passed => verdict.timedOut
    BY <2>1 DEF passed, HarnessInv, TerminationKnown, IntegrityKnown, SpendKnown, Behind
  <2> QED
    BY <2>2, <2>3, <2>4, <2>5, <2>6
<1> QED
  BY <1>1, <1>2, <1>3, PTL DEF ChaosSpec

\* A scenario's database is a single-writer log: SIGKILLs, SIGSTOPs, respawns and
\* COMMITs that outlive their worker show the outside nothing RunLog does not allow.
THEOREM ScenarioImplementsRunLog == ASSUME Fencing PROVE ChaosSpec => ImplementsRunLog
<1>1. ChaosInit => Log!Init
  <2> SUFFICES ASSUME ChaosInit PROVE Log!Init
    OBVIOUS
  <2>1. StatusOf = [r \in Runs |-> "absent"] /\ TokenOf = [r \in Runs |-> 0]
    BY DEF ChaosInit, StatusOf, TokenOf
  <2>2. \A r \in Runs : (tasks[r].status = "leased") = FALSE
    BY DEF ChaosInit
  <2>3. [r \in Runs |-> tasks[r].status = "leased"] = [r \in Runs |-> FALSE]
    BY <2>2, Zenon
  <2>4. events = [r \in Runs |-> <<>>]
    BY DEF ChaosInit
  <2> QED
    BY <2>1, <2>3, <2>4, Zenon DEF Log!Init, StatusOf, TokenOf
<1>2. Roster /\ IInv /\ OutcomeCosts /\ [ChaosNext]_allVars => [Log!Next]_(Log!vars)
  <2> SUFFICES ASSUME Roster, IInv, OutcomeCosts, [ChaosNext]_allVars PROVE [Log!Next]_(Log!vars)
    OBVIOUS
  <2>1. DbStep
    BY StepKinds DEF IInv
  <2> QED
    BY <2>1, DbRefines
<1> QED
  BY <1>1, <1>2, ScenarioKeepsEngine, PTL DEF ChaosSpec, ImplementsRunLog, Log!Spec
=============================================================================
