# Verification of phoenix-agent-runner

Phoenix runs LLM coding agents as *durable runs*: every step is one event in PostgreSQL,
workers claim runs with leases, and a run survives the worker that executes it. This directory
holds TLA+ models of that machinery, TLC configurations that check them on small instances, and
TLAPS proofs of the main results for every instance. `src/...` paths below are those of the
repository's tree, `PROJECT.json` maps every definition to its lines.

## 1. The system

| Part | State it keeps | Operations | Interacts with |
|---|---|---|---|
| Executor (`engine.py`) | a claim and the locals of one task per worker | `submit_run`, `execute_task`, `commit_step`, `_handle_error`, `run_worker` | leases, store, workflow |
| Leases (`leases.py`) | table `tasks`: status, owner, attempt (fencing token), expiry, availability | `claim_task`, `heartbeat`, `reap_expired`, `release_task`, `assert_lease` | called by the executor and its two loops |
| Event store (`store.py`) | tables `runs`, `events` | `insert_run`, `append_event`, `read_events`, `apply_migrations` | called inside `commit_step`'s transaction |
| Agent loop (`agent.py`) | one workspace directory per attempt | `next_step`, `materialize_workspace`, `_execute` | budget, cache, sandbox |
| Budget (`budget.py`) | none: functions of the log | `spent_from_events`, `detect_loop`, `check_limits` | agent loop |
| Answer cache (`llm/cache.py`) | tables `llm_cache`, `provider_calls` | `complete_cached` | agent loop, provider |
| Providers (`llm/*.py`) | pacing lock and clock per instance | `complete`, `_post`, `_pace`, the two message translations | an external service |
| Sandbox (`sandbox/`) | one container per call | `run`, `_oom_killed`, `_capture`, `_kill`, `_remove` | the Docker daemon |
| Migrations (`store.py`) | table `schema_migrations` | `apply_migrations` | several processes at once |
| HTTP API, CLI, timeline | none | submit and read | store |
| Chaos suite (`chaos/`) | worker processes, a schedule of faults, a report | `run_chaos`, the injector, four invariant checkers | database, processes, Docker |
| Eval suite (`evals/`) | results | `run_evals`, `_wait_terminal`, `_grade`, `summarize` | executor, sandbox, migrations |

What is hard: several workers act on one task (the owner, a zombie that was paused past its
lease, every worker's reaper); a worker can die or stop between any two awaits; PostgreSQL's
`now()` is the start of the transaction; a COMMIT can succeed without the client knowing; an
LLM answer is paid for before it is stored; a container outlives the process that made it; tools
that judge the system read it with several queries while it runs. What makes the parts correct:

* executor and leases: one writer at a time per log, steps computed from the whole log, run,
  task and log finish together and stay finished, every run ends;
* event store: contiguous numbering, one event per key, rows appear in order;
* agent loop and cache: an attempt asks once per step, a stored answer is reused, the limits
  hold on the committed log, the owner continues with the right files;
* providers: spaced requests, retries as the service asks, conversations it accepts, no hang;
* sandbox: no container leaks, the verdict is what happened, untrusted code cannot hold a worker;
* chaos and eval suites: a report or a published result is true, nothing is left running, the
  cost cap means something; migrations apply once.

The full list of hazards, each at its line and with the properties against it, is in
`PROJECT.json`.

## 2. The modules

`RunLog` is the abstract specification: per run a status, an append-only log, a token and
whether it is still held. Tokens are granted in increasing order, only the holder of the newest
unrevoked token appends, always the next key, and a final entry ends the run.

`Engine` is `engine.py` + `leases.py` (+ the append of `store.py` as one step). State: the rows
of `runs`, `events`, `tasks`; the row lock a transaction holds on a task; for each worker its
process (up, paused, dead), program counter, claim and locals, and whether its reaper loop
lives. Correspondence:

| Action | Code |
|---|---|
| `Submit`, `Claim`, `Heartbeat`, `Reap`, `ReleaseTask` | the functions of those names; one statement or transaction each |
| `HeartbeatLost` | `_heartbeat_loop` cancelling the task |
| `ReadEvents`, `NextStep`, `StepRaises` | the loop of `execute_task` |
| `Begin`, `AssertLease`, `Commit` | `commit_step`: BEGIN (which fixes `now()`), the check that locks the row, the rest up to COMMIT |
| `FailRun` | `_handle_error` out of attempts: it goes through the same commit |
| `DbError`, `CommitAckLost` | a statement fails and rolls back; COMMIT succeeds and its answer is lost. Both go where the exception goes: to `_handle_error`, or out of `run_worker` |
| `ReaperDies` | an exception in `_reaper_loop` |
| `Tick`, `Lapse` | time. A healthy holder renews in time; `Lapse` is the exception |
| `Crash`, `Restart`, `Pause`, `Resume` | kill -9, a supervisor, SIGSTOP, SIGCONT, as the chaos injector does them |

Times are kept relative to `now()` and cut off where they stop mattering, so time is unbounded
and the state space is not. Money is counted in half micro-dollars: the smallest unit that
shows the rounding of `NUMERIC(12,6)`. Workflows are the sets of outcomes they can return.

`EventStore` is `append_event` statement by statement: the row lock on `runs`, the look-up, the
numbering, the insert with its unique constraints, commit and rollback of concurrent
transactions. It justifies that `Engine` takes the append as one step.

`AgentRun` is one agent run over what `RunLog` promises: each attempt is a session (replay,
limits, cache look-up, ledger row, provider call, store, tool, commit), sessions whose token
was revoked go on as zombies, and any session may end at any await: by a crash, by an exception
that is retried, or by a fatal one that fails the run at once. `UsesRunLog` shows that the run's log is used as `RunLog` allows, so `Engine` and `AgentRun` meet in `RunLog`. A file's
content, a message history and a cache key are values that differ when the code's do.

`Timeline` adds to `EventStore` a reader (the API's GET endpoints, `status`, `timeline`) whose
queries run between the statements of the writers.

`Sandbox` is `DockerRunner.run` in the threads of several processes: create, start, wait with a
timeout, kill, wait again, collect the output, read the OOM flag until it may be late no more,
remove. The daemon answers, errs once at any request (the streams of the captures included; an
error of the kill is swallowed, a broken connection is not), or serves a request whose caller is dead
by then; programs end or not; the injector kills containers, workers and finally everything
with the label, its own or not. Output is lengths of chunks, enough for where it is cut.

`Provider` is `OpenAICompatProvider` with a clock in ticks (pacing lock, slots, retries, hints
and their cap, quota), the Anthropic provider as one call of its SDK, construction by
`_provider_for` (one instance per task, or one for all; a new one knows nothing of earlier
requests, so pacing is a matter of one instance), cancellation at any await, and the
translation of the histories that arise to both wire formats, as roles, ids and extras. A
`Retry-After` that is a date fails the code's `isdigit` test and counts as none.

`ChaosChecks` holds the four checkers of `chaos/invariants.py` as operators on rows. `EngineChecks`
compares them with the properties of the log, `AgentRun` states its billing property with one,
and `ChaosRun` evaluates them query by query.

`ChaosRun` composes them with `Engine`: `run_chaos` submits, spawns, applies its schedule,
supervises, shuts down and checks. The workers' actions are those of `Engine`; its faults are
replaced by the harness's. The harness keeps the injector's list of workers (`crew`): spawning
appends to it under a new name, every turn of the supervisor drops the dead and refills it, and
the shutdown loop walks it in order, resuming and killing whoever is alive (`Visit`,
`KillVisited`). An exception may leave the `try` (`LoopRaises`: the shutdown still runs), the
shutdown loop itself or a check (`Raises`). A killed worker's COMMIT may be under way and land
later (`LateCommit`): beside its replacement, or during the checks. A fault's kind is drawn
when it is due; the code draws the schedule beforehand, but nothing looks ahead in it.

`Migrations` is `apply_migrations` statement by statement in several processes that may die.
`EvalRun` extends it: the eval command migrates, checks the cap, starts workers, submits, waits
or times out, grades with a row query and an events query while the workers run on, and
publishes or not. A run is here what `Engine` and `AgentRun` promise: steps until a final one,
chosen by the mock script at the mock's price or by a model that may answer anything, or an end
by budget, steps or a loop. Two equal names in a log may be the same action or not, so after
`LOOP_WINDOW` of them both a loop and another step are possible.

The `MC` modules give the constants for TLC. `EngineProofs`, `ChaosProofs`, `EventStoreProofs`
(with `Timeline`), `AgentRunProofs`, `SandboxProofs`, `ProviderProofs` and `EvalProofs` (with
`Migrations`) hold the proofs, `InductionFacts` what they share. Definitions marked *Mutant* are
plausible wrong versions of the definition below them; substituting one must make TLC report
its property, which shows that the property depends on that code.

## 3. The runs

| Run | Instance | Shows |
|---|---|---|
| `engine_fenced` | 2 workers with the same id, 1 toy run of 2 steps, lease 1 tick, one crash, pause, lapse and database error each | the safety properties and the refinement of `RunLog` |
| `engine_live` | own ids, an agent run whose steps may raise, a crash without restart, a pause | the run ends; claims beyond `max_attempts` need a fault |
| `engine_unfenced` | `Fencing = FALSE`, a lapse, a dead reaper loop, free and paid steps | keys stay contiguous even then; the chaos log checker fails exactly the damaged logs, and the spend checker none |
| `event_store` | 3 connections, 5 transactions, 2 keys, a run that exists and one that does not, a reader | numbering, idempotency, order, timelines that are not torn |
| `agent` | 2 attempts, 3 steps, budget 3, loop window 2, contents that can and cannot be replayed, answers equal up to metadata, escaping paths, programs that write | billing, cache, files, budget, steps, loops, refinement of `RunLog` |
| `sandbox` | 2 calls, one of the injector's workers; 2 rechecks, flag up to 2 intervals late; 1 daemon error | no leak, true verdict, the call returns |
| `provider` | 2 runs of 3 and 1 steps, interval 2, hints below and above the cap of 3, 3 requests per call, 2 task attempts, shared or own instance, every kind | pacing, retries, conversations, no hang |
| `chaos` | 2 workers at a time out of 4 names, a toy run, `max_attempts` 1, every schedule of 2 faults | true report, no orphans, the scenario ends |
| `evals` | 2 tasks (one passes at the second draft, one is a negative control), mock and real, caps below and at the worst case, loop window 2, a second migrating process | migrations, published results, the cap |
| `engine_crash_retries` | `max_attempts` 1, two crashes | **violated**: the run is claimed a third time |
| `engine_reaper_dead` | a crash and a reaper exception | **violated**: the run stays leased for ever |
| `agent_non_text` | a content that is not a string | **violated**: the log cannot be replayed |

The three violations are disagreements between the code and its documentation, quoted under
`findings`: crashes do not count towards `max_attempts`, so a run that keeps killing its worker
is not failed after five tries (`README.md:285`; `ExtraClaimsNeedFaults` in `engine_live` is the
bound the code does keep); an exception ends a reaper loop unnoticed; a committed step may be
impossible to replay. Other places where code and words differ, which the properties are stated
around (each is a hazard with a note): files a program leaves in the workspace are in no event,
so a takeover finds what the log's last write put there (the one exception of
`ContinuesExactly`); `CREATE TABLE IF NOT EXISTS schema_migrations` is not under the advisory
lock and can raise on a fresh database; a `Retry-After` beyond 60 seconds is cut to 60; the
injector's shutdown stops removing containers at the first that is already gone;
`--max-total-usd` can be passed by one answer per task. Three hazards no property covers: costs
finer than a micro-dollar are rounded in `runs.spent_usd` and not in the events (the runs and
`SpendRecorded` have whole ones); pacing is per provider instance, hence per task, and `Paced`
says no more; a toy run of zero steps, which only the command line accepts, never ends.

Bounds. Two workers and one task are enough for owner, zombie and reaper to meet; faults are
capped at one per kind (`MaxCrashes`, ..., `MaxReaperErrors`), which lets each follow any other
and any of the two steps; lease and backoff are one tick, so expiry and waiting both happen.
Two attempts in `AgentRun` are an owner and a zombie, over the whole of three steps and all
limits at once; that more attempts add nothing is not left to the bound, since every property of
the run is a theorem for any number of them. `MaxTx` and `MaxSessions` end the
behaviours of `EventStore` and `AgentRun`. In `Sandbox`, `OOM_RECHECKS` is 2 for 10 and the
flag may come at the last recheck (`MaxOomDelay` within the rechecks is the assumption under
which the code can see it at all); `MaxErrors` is 1, since each exception of `VerdictTrue`,
`NoContainerLeaks` and `RunReturns` needs only one. In `Provider`, `MAX_ATTEMPTS` 3 and cap 3
let a first, a middle and a last request, and delays below, at and above the cap occur; three
steps are enough for a text-only reply between two calls. `NFaults` 2 lets the second fault hit
the worker that took over, and four names are as many as two workers and the replacements of two
kills need; with `max_attempts` 1 a step that raises fails the run at once. The proofs have any
`max_attempts`, and a schedule and a list of any length, with faults that find no worker to hit. In `EvalRun` the
budget is two cheap real answers, less than a dear one, and enough for the mock's whole script.
`engine_*` and `provider` check deadlock; the other systems stop at the end of their work. The proofs below have none of these bounds. Worker names being equal in
`engine_fenced` is the worst case: the default id is `worker-<pid>`, the same in every container.

Fairness. `Engine` (`FairSpec`): a worker that is up takes its next step (the model's and the
sandbox's calls have timeouts), its heartbeat, reaper and polling loops are asyncio tasks that
wake up again, time passes, and a stopped process is continued. Nothing obliges anyone to restart
a dead worker, and no fairness is assumed of faults. The last assumption on pauses is needed: a
process stopped inside `commit_step` holds the task's row lock, which reaper and claim skip.
`ChaosRun`: the same for workers; the harness's loop runs on and resumes a suspended worker when
its time has come (strong fairness: its turn comes and goes), and PostgreSQL ends its
transactions. The harness's timeout is not needed and no fairness is put on it. `Sandbox`:
threads run, requests are served or fail; none for programs, which may run for ever, and
`WaitTimesOut` is one of the thread's steps. `Provider`: time passes, the event loop runs what
is ready, the HTTP client has a timeout; none for cancellation.

## 4. The proofs

Each theorem holds for arbitrary constants under the assumptions its model names: no bound on
runs, workers, steps, attempts, faults, messages or files. A further hypothesis is part of the
theorem's statement, and given below.

**Induction over data** (`InductionFacts`). The library's induction theorems need a predicate as
a parameter. `SetInduction` states induction for a *set* of numbers, from the library's
well-foundedness of `<`; from it follow that a function defined from `k - 1` to `k` exists
(`PrefixRecursion`, `SubsetRecursion`), that `FoldLeft` over a sequence is such a function of
its prefixes (`FoldPrefixes`), how it grows with an append (`ReachesStep`), and that what every
step keeps holds at its end (`ReachesKeep`). Sums over logs, scanned logs, replayed files,
captured output and translated messages are all folds and are reasoned about this way.

**Engine** (`EngineProofs`).

* `TypeCorrect`: `TypeOK`. It needs `JobOwned`: a worker that is not polling has a run.
* `KeysInOrder`: `KeysContiguous`, fenced or not. The invariant adds `ReplayedPrefix`: a worker
  replayed a prefix of the log; if the log has grown since, its key is in it and the append is
  a no-op.
* `SpendRecorded`: `SpendConsistency`, fenced or not, if every cost is a whole number of
  micro-dollars (`WholeMicros`). Without it the theorem is false: see the rounding in section 3.
* `CheckersExact`: `ChecksExact`, fenced or not, under the same hypothesis. `IntegrityExact` and
  `SpendSum` hold of every log, written by the engine or not: the scan of `log_integrity` is
  followed event by event (`ScanKnows`: it has found a violation exactly if the prefix is
  damaged, and otherwise has its highest attempt and knows whether it is final), and the sum of
  `spend_consistency` is `Recorded`.
* `FencedInvariant`, assuming `Fencing`: `IInv`, the conjunction of the above with
  `PollingIdle`, `ClaimsCounted`, `TokensUnique`, `ReplayCurrent`, `FenceLocks`, `LogOrdered` and
  `TablesAgree`. `CommitsFromFullReplay` is not inductive alone: that the replayed log is still
  whole at the append follows from `ReplayCurrent` (while a claim is *held* nobody else
  appends, since an appender holds a claim too and tokens are unique) and `FenceLocks` (past the
  check the claim stays held, since the row is locked). The proof shows first what every
  worker step leaves alone (`Frame`), then one worker's own claim, the others', and the tables.
  `SingleWriter`, `FullReplay`, `DistinctTokens`, `TablesConsistent` and the action property
  `FinishedIsForever` follow.
* `ClaimsBounded`: `ExtraClaimsNeedFaults`, with fencing and `max_attempts > 0`. The invariant is
  `ClaimLeft`: a task that waits for a claim, or is leased to nobody who renews it, has one left
  of `max_attempts` plus the faults so far. A lease that lapses under a healthy holder is a
  fault, so every way back to the queue is paid for; `FreshKnown` says that a claim alive at
  the fence was alive at BEGIN, hence that a healthy commit is not refused.
* `EngineImplementsRunLog`: the fenced engine refines `RunLog` (`Spec => Log!Spec`), with
  `OutcomeCosts` added to the invariant. A claim is a Grant, reaping and releasing a Revoke, a
  commit an Extend or Finish, and everything else is invisible.

**Chaos scenarios** (`ChaosProofs`), for any schedule, timeout and place where the loop raises.
A step of a scenario is, to the engine, a step of its own, a change of processes alone, a kill
that drops a claim, or a COMMIT that ends after its worker (`StepKinds`). `IInv` mentions no
process, and the late COMMIT still holds the row lock (`FenceLocks`), so each keeps it (`DbIInv`).

* `NoWorkerLeft` (`NoOrphans`), fenced or not. Nothing in the way out of the shutdown says that
  everyone is dead; the invariant `Roster` does: whoever is alive is on the injector's list, since
  spawning puts him there and the supervisor drops only the dead; once the shutdown has begun he
  is among those its loop has still to come to or is about to kill; so behind it there is nobody.
  An exception inside the loop leaves those it had not finished with, and no others.
* `ReportIsTrue` (`ReportTrue`), with fencing and `WholeMicros`. The invariant `ChaosInv` adds to
  `IInv` and the spend what each check has found: without a timeout every run was finished when the
  loop stopped (`StoppedFor`), a finished run no longer changes (`DbFinishedKept`), hence the four
  queries see one state although no transaction holds them together. With a timeout they may not:
  a COMMIT between the two queries of `spend_consistency` makes it fail on a run that is right,
  which is why `SpentKnown` is about scenarios that did not time out.
* `ScenarioImplementsRunLog`: a scenario's database refines `RunLog` too, the late COMMIT being
  its Extend or Finish.

**Event store and timeline** (`EventStoreProofs`). `StoreInv`: a run's log is finite, numbered
1..n and has a key once (`LogOK`); past the lock a transaction owns the row of an existing run
(`LocksOK`); and what it has read is still so: its key is absent, its number is the next, or the
event it found is there (`LocalsOK`). `TypeCorrect`, `Gapless`, `NoConflict`, `AnswersStay` and
the action property `InOrder` follow. `ReadersOnlyRead` (`TimelineSpec => Spec`) carries them
over to a store that is being read, and `TimelineHolds` proves `TimelineTrue` with `ReaderInv`:
what a reader has fetched is a prefix of the log as it is now, because logs only grow.

**Agent run** (`AgentRunProofs`). `BaseInvariant` (types, and what a session has at each await)
gives `TypeCorrect`, and every further result adds one layer to it:

* `OneCall` (`OneCallPerAttempt`): the rows of an attempt in the ledger are of earlier steps, or
  of its present one once it has asked (`Ledger`);
* `OneCallOver`, `LimitsHold` (`OvershootOneCall`, `StepsAndLoopsBounded`): a session past the
  limits that is current has passed `check_limits` on the whole log (`Limits`);
* `Reused` (the action property `AnswerReused`): the key of step i is the same whichever attempt
  computes it, and whenever (`CacheOK`);
* `TakeoverExact` (`ContinuesExactly`), whatever programs write: path by path, the current
  session's files and those of the last commit are the log's, replayed, unless a program left
  the file (`FilesKept`);
* `ChargesBounded` (`UnrecordedCharges`), if there is a largest cost (`CostsBounded`): what was
  charged is recorded or is owed by an attempt, each owing one call at most (`Charges`);
* `AgentUsesRunLog` (`UsesRunLog`): the agent loop implements `RunLog` too. With
  `EngineImplementsRunLog` the two models meet at the same specification.

**Sandbox** (`SandboxProofs`). `SandboxInv` has for every call `CallOK`: a container that has
ended stays as it ended, whoever kills or removes it; a call past `wait` has its exit code; while
it rechecks, the flag comes before the rechecks are used up (reads plus intervals still to wait
are at most `OOM_RECHECKS`); and past the captures the output is the head of what was printed.
`ShutdownOK` says that once the injector's workers are dead, their running containers are on the
list until the loop reaches them. `TypeCorrect`, `ContainersRemoved` (`NoContainerLeaks`) and
`ResultsTrue` (`VerdictTrue`) follow.

**Providers** (`ProviderProofs`). `ProviderInv`: when the next slot is due the last request is
`min_interval` ago (`SlotsOK`), who sleeps in `_pace` holds the lock and sleeps until the slot is
due (`PaceOK`), and a wait that was asked for is slept in `_post` and nowhere else (`RetryOK`).
`PacedAlways` and `RetriesDisciplined` follow. `ConversationsAccepted`
(`ConversationWellFormed`) is about every history: the k-th message of `build_messages` is known
(`MessagesAre`), the fold of the translation is followed message by message (`Conversation`,
`TranslatedIs`), and ids, answers, roles and signatures are read off the result.

**Migrations and evals** (`EvalProofs`). `AppliedOnce` (`MigratedOnce`): the applied files are a
prefix 1..n, and a process has seen those before its own, while only the holder of the advisory
lock is between look-up and commit (`MigrationInv`). `CapKept` (`CapHolds`), if the suite is not
empty and there is a positive largest price, the mock's among them (`CostsSomething`; otherwise the strict bound reads
0 < 0): a suite beyond the cap starts nothing (`Refused`), a run ends at the first answer that
takes it to its budget (`SpentBounded`), and the total is a fold over the suite.
`PublishedResults` (`PublishedTrue`): the row of an ended run stays as it was read (`RowOK`), a
final status is graded as the run has it (`Graded`), a published result is complete, and a mock
run has logged its script so far (`AllScripted`).

Only model-checked: liveness (`RunsTerminate`, `RunReturns`, `CompleteEnds`, `ScenarioEnds`), out
of the prover's reach. Every invariant and every other action property or refinement that a
passing run checks is a theorem. Disproved by their runs and so not provable: the three violations
of section 3.

What the prover needed of the models: `no_double_billing`, `Solution` and `Rebuilt` count or pick
indices and `Acted` is a fold, since `SelectSeq` is opaque to it; `Turn`, `Scanned`, `Unlocked`, `Ends`,
`Acts` and `Commit` are operators of their own; the kinds of fault in `ApplyFault` are disjuncts; and constants have assumptions that say what they were
meant to be: at least one migration file, a suite without repetition, replies that are sequences
of tool calls, `NULL` outside every set it marks the absence from.

## 5. Not modelled

Left out for good: prompt texts, rendering, statistics, request validation, the API key,
argument parsing, environment files (pure functions of one input), the policy's resource limits
(enforced by the kernel), the benchmarks (they time what is modelled), `ensure_image`,
`create_run`, `leftover_containers` and `remove_leftovers` (tests and set-up only; a failing
`ensure_image` is a branch of `Configure`), and `zombie_replay`, one fixed interleaving of
`Engine`'s operations that `engine_fenced` and `engine_unfenced` contain. `ChaosRun` has toy
runs: an agent step differs there only by its outcome, and its docker faults are in `Sandbox`.
