------------------------------ MODULE EvalRun ------------------------------
(***************************************************************************)
(* The eval command: migrate, refuse what could cost too much, start       *)
(* workers, submit one run per task, wait, grade every run by a hidden     *)
(* test while the workers run on, and publish only a complete result.      *)
(* A run is what the engine and the agent loop promise of it: committed    *)
(* steps until a final one (Engine, AgentRun); the model may be the mock   *)
(* with a task's script or a real one that answers anything.               *)
(* Source: evals/runner.py, catalog.py, report.py, llm/mock.py and         *)
(* __main__._eval.                                                         *)
(***************************************************************************)
EXTENDS Migrations, Sequences, SequencesExt

CONSTANTS
  Evaluator,  \* the process that runs the evals
  Suite,      \* the tasks in the order of load_tasks, and for the mock: how many
  FailFirst, Outcome,  \* drafts fail, and "pass" or "wrong"
  PerRun,     \* --budget
  Caps,       \* values of --max-total-usd
  Costs,      \* what a real answer may cost
  MOCK_COST,  \* what a mock answer costs
  MaxSteps,   \* max_steps of spec_for
  LOOP_WINDOW,
  NWorkers

Tasks == {Suite[i] : i \in DOMAIN Suite}

ASSUME EvalAssumption ==
  /\ Evaluator \in Procs
  /\ Suite \in Seq(Tasks) /\ \A i, j \in DOMAIN Suite : Suite[i] = Suite[j] => i = j
  /\ FailFirst \in [Tasks -> Nat] /\ Outcome \in [Tasks -> {"pass", "wrong"}]
  /\ PerRun \in Nat /\ Caps \subseteq Nat /\ Costs \subseteq Nat
  /\ MOCK_COST \in Nat
  /\ MaxSteps \in Nat /\ NWorkers \in Nat /\ LOOP_WINDOW \in Nat \ {0}

VARIABLES
  args,       \* --real, whether the environment allows it, --max-total-usd
  epc,        \* where _eval is
  workers,    \* worker processes alive; nobody replaces them
  run,        \* run[t]: status, actions of the log, spent_usd, failed by the platform
  row,        \* _grade's first query: the task and its row
  results,    \* results[t]: the TaskResult, once graded
  exit        \* the exit code, or -1; 0: published

evalVars == <<args, epc, workers, run, row, results, exit>>
allVars == <<migrationVars, evalVars>>

TERMINAL == {"succeeded", "failed", "budget_exceeded"}
NoRun == [status |-> "absent", log |-> <<>>, spent |-> 0, infra |-> FALSE]
NoRow == [task |-> "none", status |-> "none", spent |-> 0]

\* drafts[:fail_first]: there are two.
Drafts(t) == IF FailFirst[t] < 2 THEN FailFirst[t] ELSE 2

\* EvalTask.mock_script, with a write named by what it puts in solution.py.
mock_script(t) ==
  <<"check">>
    \o [i \in 1..(2 * Drafts(t)) |-> IF i % 2 = 1 THEN "draft" ELSE "run"]
    \o <<IF Outcome[t] = "wrong" THEN "bad" ELSE "good", "run", "finish">>

\* MockProvider.complete: a function of the number of turns so far.
MockAction(t, turn) == mock_script(t)[IF turn < Len(mock_script(t)) THEN turn + 1 ELSE Len(mock_script(t))]

\* materialize_workspace: the last write to solution.py, as the log has it.
Solution(log) ==
  LET writes == {k \in DOMAIN log : log[k] \in {"draft", "good", "bad"}}
  IN IF writes = {} THEN "none" ELSE log[Max(writes)]

EvalInit ==
  /\ MigrationsInit
  /\ args \in [real: BOOLEAN, enabled: BOOLEAN, cap: Caps]
  /\ epc = "migrate" /\ workers = 0 /\ run = [t \in Tasks |-> NoRun]
  /\ row = NoRow /\ results = [t \in {} |-> NoRow] /\ exit = -1

Egoto(from, to) == epc = from /\ epc' = to
OfMigrations == UNCHANGED migrationVars

\* Mutant: one run's budget is compared with the cap.
check_real_mode_one == PerRun <= args.cap /\ (args.real => args.enabled)

\* check_real_mode: TRUE if it does not raise.
check_real_mode == PerRun * Cardinality(Tasks) <= args.cap /\ (args.real => args.enabled)

\* apply_migrations raised: so does the command.
MigrationFailed ==
  /\ mpc[Evaluator] \in {"raised", "duplicate"} /\ Egoto("migrate", "raised")
  /\ UNCHANGED <<args, workers, run, row, results, exit>> /\ OfMigrations

\* run_evals: refused with exit code 2, or the workers are started, unless Docker
\* or the image is missing.
Configure ==
  /\ mpc[Evaluator] = "returned"
  /\ IF check_real_mode
     THEN /\ \/ Egoto("migrate", "submit") /\ workers' = NWorkers
             \/ Egoto("migrate", "raised") /\ UNCHANGED workers
          /\ UNCHANGED exit
     ELSE Egoto("migrate", "done") /\ exit' = 2 /\ UNCHANGED workers
  /\ UNCHANGED <<args, run, row, results>> /\ OfMigrations

Submit(i) ==
  LET t == Suite[i] IN
  /\ epc = "submit" /\ run[t].status = "absent"
  /\ \A j \in 1..(i - 1) : run[Suite[j]].status # "absent"
  /\ run' = [run EXCEPT ![t].status = "running"]
  /\ UNCHANGED <<args, epc, workers, row, results, exit>> /\ OfMigrations

\* _wait_terminal returns when all runs are terminal, or at its timeout without
\* a word.
WaitTerminal ==
  /\ \A t \in Tasks : run[t].status # "absent"
  /\ Egoto("submit", "grade")
  /\ UNCHANGED <<args, workers, run, row, results, exit>> /\ OfMigrations

\* _grade reads the row of the next run, ...
GradeRow ==
  LET t == Suite[Cardinality(DOMAIN results) + 1] IN
  /\ DOMAIN results # Tasks /\ Egoto("grade", "events")
  /\ row' = [task |-> t, status |-> run[t].status, spent |-> run[t].spent]
  /\ UNCHANGED <<args, workers, run, results, exit>> /\ OfMigrations

\* ... then its events, and runs the hidden test on the files of a success; the
\* test may run into its timeout.
GradeEvents ==
  LET t == row.task
      status == IF run[t].infra THEN "error"
                ELSE IF row.status \in TERMINAL THEN row.status ELSE "timeout"
  IN /\ Egoto("events", "grade")
     /\ \E slow \in IF status = "succeeded" THEN BOOLEAN ELSE {FALSE} :
          results' = [u \in DOMAIN results \cup {t} |->
            IF u # t THEN results[u]
            ELSE [status |-> status, spent |-> row.spent, slow |-> slow,
                  passed |-> status = "succeeded" /\ Solution(run[t].log) = "good" /\ ~slow]]
     /\ row' = NoRow
     /\ UNCHANGED <<args, workers, run, exit>> /\ OfMigrations

\* The sandbox or a query raises: `finally` stops the workers, no result.
GradeRaises ==
  /\ epc \in {"submit", "grade", "events"} /\ epc' = "raised" /\ workers' = 0
  /\ UNCHANGED <<args, run, row, results, exit>> /\ OfMigrations

\* `finally`: shutdown, once all are graded.
EvalShutdown ==
  /\ Egoto("grade", "report") /\ DOMAIN results = Tasks /\ workers' = 0
  /\ UNCHANGED <<args, run, row, results, exit>> /\ OfMigrations

\* Mutant: a timeout counts as a failure of the model.
unfinishedErrors == {t \in Tasks : results[t].status = "error"}

\* summarize's "unfinished".
unfinished == {t \in Tasks : results[t].status \in {"timeout", "error"}}

\* Exit code 3 and nothing written if a run did not finish; else --out.
Report ==
  /\ Egoto("report", "done")
  /\ exit' = IF unfinished = {} THEN 0 ELSE 3
  /\ UNCHANGED <<args, workers, run, row, results>> /\ OfMigrations

\* detect_loop may hold: the last actions have the same name here, and may be the
\* same in full.
MayLoop(log) ==
  /\ Len(log) >= LOOP_WINDOW
  /\ \A k \in (Len(log) - LOOP_WINDOW + 1)..Len(log) : log[k] = log[Len(log)]

\* A limit ends a run; an action of the model is logged, and `finish` ends it.
Ends(r, status) == [r EXCEPT !.status = status]
Acts(r, a, c) ==
  [r EXCEPT !.log = Append(@, a), !.spent = @ + c, !.status = IF a = "finish" THEN "succeeded" ELSE @]

\* A worker commits the next step of a run.
Commit(t, r) == run' = [run EXCEPT ![t] = r]
WorkerStep(t) ==
  /\ workers > 0 /\ run[t].status = "running"
  /\ LET r == run[t] IN
     \/ r.spent >= PerRun /\ Commit(t, Ends(r, "budget_exceeded"))
     \/ r.spent < PerRun /\ Len(r.log) >= MaxSteps /\ Commit(t, Ends(r, "failed"))
     \/ r.spent < PerRun /\ Len(r.log) < MaxSteps /\ MayLoop(r.log) /\ Commit(t, Ends(r, "failed"))
     \/ /\ r.spent < PerRun /\ Len(r.log) < MaxSteps /\ args.real
        /\ \E a \in {"good", "bad", "finish"}, c \in Costs : Commit(t, Acts(r, a, c))
     \/ /\ r.spent < PerRun /\ Len(r.log) < MaxSteps /\ ~args.real
        /\ Commit(t, Acts(r, MockAction(t, Len(r.log)), MOCK_COST))
  /\ UNCHANGED <<args, epc, workers, row, results, exit>> /\ OfMigrations

\* A run fails for the platform: a worker error in every attempt, or a fatal one.
PlatformFails(t) ==
  /\ workers > 0 /\ run[t].status = "running"
  /\ run' = [run EXCEPT ![t].status = "failed", ![t].infra = TRUE]
  /\ UNCHANGED <<args, epc, workers, row, results, exit>> /\ OfMigrations

WorkerDies ==
  /\ workers > 0 /\ workers' = workers - 1
  /\ UNCHANGED <<args, epc, run, row, results, exit>> /\ OfMigrations

EvalNext ==
  \/ \E p \in Procs : MigrationStep(p) /\ UNCHANGED evalVars
  \/ MigrationFailed \/ Configure \/ WaitTerminal \/ GradeEvents \/ GradeRaises
  \/ EvalShutdown \/ Report \/ WorkerDies
  \/ GradeRow \/ \E i \in DOMAIN Suite : Submit(i)
  \/ \E t \in Tasks : WorkerStep(t) \/ PlatformFails(t)

EvalSpec == EvalInit /\ [][EvalNext]_allVars
-----------------------------------------------------------------------------
\* _eval: what is published is a result. Every run ended by itself, its status,
\* cost and verdict are those of the finished log though they were read one by
\* one while workers ran on, and a mock run that succeeds passes exactly if the
\* catalogue says so.
PublishedTrue ==
  exit = 0 => \A t \in Tasks :
    /\ run[t].status \in TERMINAL /\ ~run[t].infra
    /\ results[t].status = run[t].status /\ results[t].spent = run[t].spent
    /\ results[t].passed <=> /\ run[t].status = "succeeded"
                             /\ Solution(run[t].log) = "good" /\ ~results[t].slow
    /\ ~args.real /\ run[t].status = "succeeded" /\ ~results[t].slow =>
         (results[t].passed <=> Outcome[t] = "pass")

\* check_real_mode: the recorded spend of all runs together stays below the cap
\* plus one answer per task, the one that takes a run over its budget.
CapHolds ==
  LET total == FoldLeft(LAMBDA s, t : s + run[t].spent, 0, Suite)
      prices == Costs \cup {MOCK_COST}
      dearest == CHOOSE c \in prices : \A d \in prices : d <= c
  IN total < args.cap + Cardinality(Tasks) * dearest
=============================================================================
