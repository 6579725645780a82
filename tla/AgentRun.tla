------------------------------ MODULE AgentRun ------------------------------
(***************************************************************************)
(* The agent loop of one run: replay the log, check the limits, ask the    *)
(* model through the answer cache, execute one tool, commit one event.     *)
(* Sources: agent.py, budget.py, llm/cache.py, llm/base.py.                *)
(*                                                                         *)
(* The engine underneath is what RunLog promises: attempts get increasing  *)
(* tokens and only the newest unrevoked one commits. Each attempt is a     *)
(* session; a session whose token was revoked runs on as a zombie, and any *)
(* session may crash between two of its awaits.                            *)
(*                                                                         *)
(* A message history is the sequence of (action, observation) pairs of the *)
(* replayed events; a file's content is a value, str() of a content that   *)
(* is not a string another. Money is in half micro-dollars, as in Engine.  *)
(***************************************************************************)
EXTENDS Integers, Sequences, FiniteSets, ChaosChecks

CONSTANTS
  Paths,         \* the paths safe_join accepts
  Actions,       \* what the model may answer
  NonText,       \* contents of a write_file that are not strings
  Costs,         \* what one provider call may cost
  Budget,        \* runs.budget_usd
  MaxSteps,      \* max_steps
  LoopWindow,    \* LOOP_WINDOW
  MaxAttempts,   \* run_worker's max_attempts
  ProgramsWrite, \* may a program run by run_code write a file
  MaxSessions,   \* bound: how often the task is claimed
  NULL

Tools == {"write_file", "run_code", "finish", "invalid"}
Sessions == 1..MaxSessions
Terminal == {"succeeded", "failed", "budget_exceeded"}
Observations == {"none", "ok", "error", "ran"}

\* provider.complete's answer, and next_step's StepOutcome.
Response == [action: Actions, cost: Nat]
Outcome == [action: Actions \cup {NULL}, obs: Observations, cost: Nat, final: BOOLEAN,
            status: Terminal]

ASSUME ConstantsAssumption ==
  /\ \A a \in Actions : a.tool \in Tools
  /\ Costs \subseteq Nat /\ Budget \in Nat
  /\ {MaxSteps, MaxAttempts} \subseteq Nat
  /\ {LoopWindow, MaxSessions} \subseteq Nat \ {0}
  /\ ProgramsWrite \in BOOLEAN
  /\ NULL \notin Actions \cup Outcome \cup Terminal

VARIABLES
  status,   \* runs.status
  log,      \* the run's events
  token,    \* tasks.attempt
  held,     \* tasks.status = 'leased'
  pc,       \* pc[a]: where attempt a's coroutine is
  idx,      \* idx[a]: how many events it replayed, the index of its step
  ws,       \* ws[d]: the files of workspace directory d, NULL before it exists
  resp,     \* resp[a]: the answer it got, or NULL
  out,      \* out[a]: the outcome it is about to commit
  cache,    \* table llm_cache
  calls,    \* table provider_calls, ordered by id
  billed,   \* history: what the provider charged for the run
  lastWs    \* history: the files of the attempt that committed last

logVars == <<status, log, token, held>>
tables == <<cache, calls, billed>>
vars == <<logVars, pc, idx, ws, resp, out, tables, lastWs>>

\* NUMERIC(10,6) rounds to a whole micro-dollar.
Numeric6(amount) == ((amount + 1) \div 2) * 2
-----------------------------------------------------------------------------
\* agent.py's path rules, seen from one path: inside the workspace or rejected.
SafeJoin(path) == path \in Paths

EmptyWorkspace == [p \in Paths |-> NULL]

\* write_file stored this event's content in the workspace.
Wrote(e) == e.action # NULL /\ e.action.tool = "write_file" /\ e.obs # "error"

\* materialize_workspace: the last successful write of each path.
Rebuilt(events) ==
  [p \in Paths |->
     LET writes == {k \in DOMAIN events : Wrote(events[k]) /\ events[k].action.path = p}
     IN IF writes = {} THEN NULL
        ELSE events[CHOOSE k \in writes : \A j \in writes : j <= k].action.content]

\* write_text refuses a content that is not a string.
RebuildRaises(events) ==
  \E k \in DOMAIN events : Wrote(events[k]) /\ events[k].action.content \in NonText

\* The events of steps that asked the model; the others end a run by a limit.
Acted(events) ==
  FoldLeft(LAMBDA acted, e : IF e.action = NULL THEN acted ELSE Append(acted, e), <<>>, events)

\* build_messages: the history the model sees.
Messages(events) ==
  LET acted == Acted(events) IN [k \in DOMAIN acted |-> <<acted[k].action, acted[k].obs>>]

\* spent_from_events.
SpentFrom(events) ==
  LET sum[k \in 0..Len(events)] == IF k = 0 THEN 0 ELSE sum[k - 1] + events[k].cost
  IN sum[Len(events)]

\* Mutant: the metadata counts.
FingerprintAll(action) == action

\* _fingerprint: provider metadata does not count.
Fingerprint(action) == [tool |-> action.tool, path |-> action.path, content |-> action.content]

\* detect_loop: the last LoopWindow actions are the same.
DetectLoop(events) ==
  LET acted == Acted(events)
      n == Len(acted)
  IN /\ n >= LoopWindow
     /\ \A k \in (n - LoopWindow + 1)..n :
          Fingerprint(acted[k].action) = Fingerprint(acted[n].action)

\* Mutant: the budget may be reached.
CheckLimitsReached(events) ==
  IF SpentFrom(events) > Budget THEN "budget_exceeded"
  ELSE IF Len(events) >= MaxSteps \/ DetectLoop(events) THEN "failed"
  ELSE NULL

\* check_limits, in its order; NULL lets the run go on.
CheckLimits(events) ==
  IF SpentFrom(events) >= Budget THEN "budget_exceeded"
  ELSE IF Len(events) >= MaxSteps \/ DetectLoop(events) THEN "failed"
  ELSE NULL

Seen(a) == SubSeq(log, 1, idx[a])

\* Mutant: the key holds the attempt too.
CacheKeyPerAttempt(a) == [step |-> idx[a], messages |-> Messages(Seen(a)), attempt |-> a]

\* cache_key: scoped to the run and the step, with the whole history.
CacheKey(a) == [step |-> idx[a], messages |-> Messages(Seen(a))]

\* Mutant: one directory per run.
WorkspacePerRun(a) == IF a \in Sessions THEN 1 ELSE 0

\* AgentWorkflow.workspace: one directory per attempt.
Workspace(a) == a

StopOutcome(end) ==
  [action |-> NULL, obs |-> "none", cost |-> 0, final |-> TRUE, status |-> end]

\* Mutant: any live lease on the task will do.
CurrentAny(a) == held /\ a \in Sessions

\* Attempt a owns the task: what the engine's fence lets commit.
Current(a) == held /\ token = a

Goto(a, label) == pc' = [pc EXCEPT ![a] = label]
\* The coroutine is gone, its directory stays.
End(a) ==
  /\ Goto(a, "ended")
  /\ idx' = [idx EXCEPT ![a] = 0]
  /\ resp' = [resp EXCEPT ![a] = NULL]
  /\ out' = [out EXCEPT ![a] = NULL]

Init ==
  /\ status = "absent" /\ log = <<>> /\ token = 0 /\ held = FALSE
  /\ pc = [a \in Sessions |-> "none"]
  /\ idx = [a \in Sessions |-> 0]
  /\ ws = [d \in Sessions |-> NULL]
  /\ resp = [a \in Sessions |-> NULL]
  /\ out = [a \in Sessions |-> NULL]
  /\ cache = {} /\ calls = <<>> /\ billed = 0
  /\ lastWs = EmptyWorkspace
-----------------------------------------------------------------------------
\* submit_run.
Submit ==
  /\ status = "absent"
  /\ status' = "pending"
  /\ UNCHANGED <<log, token, held, pc, idx, ws, resp, out, tables, lastWs>>

\* The engine hands the run to a worker (RunLog's Grant).
Claim ==
  /\ status \in {"pending", "running"} /\ ~held /\ token < MaxSessions
  /\ status' = "running" /\ token' = token + 1 /\ held' = TRUE
  /\ Goto(token + 1, "replay")
  /\ UNCHANGED <<log, idx, ws, resp, out, tables, lastWs>>

\* The lease ends under its holder (RunLog's Revoke), which need not notice.
Revoke ==
  /\ held
  /\ held' = FALSE
  /\ UNCHANGED <<status, log, token, pc, idx, ws, resp, out, tables, lastWs>>

\* The worker dies, or the heartbeat cancels the task.
Crash(a) ==
  /\ pc[a] \notin {"none", "ended"}
  /\ End(a)
  /\ UNCHANGED <<logVars, ws, tables, lastWs>>

\* An exception left next_step: _handle_error gives the task back or, out of
\* attempts or for good (fatal), ends the run; both only while the token is good.
Raise(a, fatal) ==
  /\ End(a)
  /\ IF Current(a)
     THEN /\ held' = FALSE
          /\ IF a < MaxAttempts /\ ~fatal THEN UNCHANGED <<status, log>>
             ELSE /\ status' = "failed"
                  /\ log' = Append(log, [action |-> NULL, obs |-> "none", cost |-> 0,
                                         final |-> TRUE, attempt |-> a])
     ELSE UNCHANGED <<held, status, log>>
  /\ UNCHANGED <<token, ws, tables, lastWs>>

\* Mutant: steps are counted from one.
ReplayFromOne(a) ==
  /\ pc[a] = "replay"
  /\ idx' = [idx EXCEPT ![a] = Len(log) + 1]
  /\ Goto(a, "lookup")
  /\ UNCHANGED <<logVars, ws, resp, out, tables, lastWs>>

\* execute_task and the head of next_step: replay, build the workspace at the
\* session's first step, check the limits.
Replay(a) ==
  /\ pc[a] = "replay"
  /\ idx' = [idx EXCEPT ![a] = Len(log)]
  /\ ws[Workspace(a)] = NULL => ~RebuildRaises(log)
  /\ ws' = [ws EXCEPT ![Workspace(a)] = IF @ = NULL THEN Rebuilt(log) ELSE @]
  /\ LET stop == CheckLimits(log) IN
       IF stop = NULL
       THEN Goto(a, "lookup") /\ UNCHANGED out
       ELSE Goto(a, "commit") /\ out' = [out EXCEPT ![a] = StopOutcome(stop)]
  /\ UNCHANGED <<logVars, resp, tables, lastWs>>

\* materialize_workspace raised half-way.
ReplayRaises(a) ==
  /\ pc[a] = "replay" /\ ws[Workspace(a)] = NULL /\ RebuildRaises(log)
  /\ Raise(a, FALSE)

\* The provider, the sandbox, the file system or the database raised; only the
\* provider's daily quota is fatal.
StepRaises(a) ==
  /\ pc[a] \notin {"none", "ended"}
  /\ \E fatal \in {FALSE, pc[a] = "ask"} : Raise(a, fatal)

\* complete_cached: is the answer there already?
Lookup(a) ==
  /\ pc[a] = "lookup"
  /\ LET hits == {c \in cache : c.key = CacheKey(a)} IN
       \/ /\ hits # {}
          /\ \E c \in hits : resp' = [resp EXCEPT ![a] = c.resp]
          /\ Goto(a, "tool")
       \/ /\ hits = {}
          /\ Goto(a, "record")
          /\ UNCHANGED resp
  /\ UNCHANGED <<logVars, idx, ws, out, tables, lastWs>>

\* complete_cached: the provider_calls row, before the call.
RecordCall(a) ==
  /\ pc[a] = "record"
  /\ calls' = Append(calls, [step |-> idx[a], attempt |-> a])
  /\ Goto(a, "ask")
  /\ UNCHANGED <<logVars, idx, ws, resp, out, cache, billed, lastWs>>

\* Mutant: a call whose answer is lost is repeated by the same attempt.
AskAgain(a) ==
  /\ pc[a] = "ask"
  /\ \E act \in Actions, c \in Costs :
       /\ resp' = [resp EXCEPT ![a] = [action |-> act, cost |-> c]]
       /\ billed' = billed + c
  /\ Goto(a, "store") \/ Goto(a, "record")
  /\ UNCHANGED <<logVars, idx, ws, out, cache, calls, lastWs>>

\* provider.complete answers; the provider charges for it from now on.
Ask(a) ==
  /\ pc[a] = "ask"
  /\ \E act \in Actions, c \in Costs :
       /\ resp' = [resp EXCEPT ![a] = [action |-> act, cost |-> c]]
       /\ billed' = billed + c
  /\ Goto(a, "store")
  /\ UNCHANGED <<logVars, idx, ws, out, cache, calls, lastWs>>

\* complete_cached: INSERT ... ON CONFLICT DO NOTHING; the caller keeps its own
\* answer even when another session's is in the table.
Store(a) ==
  /\ pc[a] = "store"
  /\ cache' = IF \E c \in cache : c.key = CacheKey(a) THEN cache
              ELSE cache \cup {[key |-> CacheKey(a),
                                resp |-> [resp[a] EXCEPT !.cost = Numeric6(@)]]}
  /\ Goto(a, "tool")
  /\ UNCHANGED <<logVars, idx, ws, resp, out, calls, billed, lastWs>>

\* _execute: what the tool answers and what it leaves in the workspace.
Executed(action, files) ==
  CASE action.tool = "write_file" /\ SafeJoin(action.path) ->
         {[obs |-> "ok", files |-> [files EXCEPT ![action.path] = action.content]]}
    [] action.tool = "run_code" /\ SafeJoin(action.path) ->
         {[obs |-> "ran", files |-> f] :
            f \in {files} \cup IF ProgramsWrite
                               THEN {[files EXCEPT ![p] = "data"] : p \in Paths} ELSE {}}
    [] action.tool = "finish" -> {[obs |-> "ok", files |-> files]}
    [] OTHER -> {[obs |-> "error", files |-> files]}

\* The tail of next_step.
Execute(a) ==
  /\ pc[a] = "tool"
  /\ \E x \in Executed(resp[a].action, ws[Workspace(a)]) :
       /\ ws' = [ws EXCEPT ![Workspace(a)] = x.files]
       /\ out' = [out EXCEPT ![a] = [action |-> resp[a].action, obs |-> x.obs,
                                     cost |-> resp[a].cost,
                                     final |-> resp[a].action.tool = "finish",
                                     status |-> "succeeded"]]
  /\ resp' = [resp EXCEPT ![a] = NULL]
  /\ Goto(a, "commit")
  /\ UNCHANGED <<logVars, idx, tables, lastWs>>

\* commit_step, as RunLog has it: the current token appends, any other session
\* is told that it lost the lease.
Commit(a) ==
  /\ pc[a] = "commit"
  /\ IF Current(a)
     THEN /\ log' = Append(log, [action |-> out[a].action, obs |-> out[a].obs,
                                 cost |-> out[a].cost, final |-> out[a].final, attempt |-> a])
          /\ status' = IF out[a].final THEN out[a].status ELSE status
          /\ held' = ~out[a].final
          /\ lastWs' = ws[Workspace(a)]
     ELSE UNCHANGED <<log, status, held, lastWs>>
  /\ IF Current(a) /\ ~out[a].final
     THEN Goto(a, "replay") /\ out' = [out EXCEPT ![a] = NULL] /\ UNCHANGED <<idx, resp>>
     ELSE End(a)
  /\ UNCHANGED <<token, ws, tables>>

Step(a) ==
  \/ Replay(a) \/ ReplayRaises(a) \/ Lookup(a) \/ RecordCall(a) \/ Ask(a)
  \/ StepRaises(a) \/ Store(a) \/ Execute(a) \/ Commit(a)

Next ==
  \/ Submit \/ Claim \/ Revoke
  \/ \E a \in Sessions : Step(a) \/ Crash(a)

Spec == Init /\ [][Next]_vars
-----------------------------------------------------------------------------
\* The type invariant.
TypeOK ==
  /\ status \in {"absent", "pending", "running"} \cup Terminal
  /\ \A k \in DOMAIN log :
       log[k] \in [action: Actions \cup {NULL}, obs: Observations, cost: Nat,
                   final: BOOLEAN, attempt: Sessions]
  /\ token \in 0..MaxSessions /\ held \in BOOLEAN
  /\ pc \in [Sessions -> {"none", "replay", "lookup", "record", "ask", "store", "tool",
                          "commit", "ended"}]
  /\ idx \in [Sessions -> 0..Len(log)]
  /\ \A a \in Sessions :
       /\ ws[a] = NULL \/ DOMAIN ws[a] = Paths
       /\ resp[a] \in Response \cup {NULL}
       /\ pc[a] = "commit" <=> out[a] # NULL
  /\ \A c \in cache : c.resp \in Response
  /\ \A k \in DOMAIN calls : calls[k] \in [step: Nat, attempt: Sessions]
  /\ billed \in Nat

\* Chaos invariant 3 (no_double_billing): no attempt asks the provider twice for
\* one step. A repeat by another attempt is a crash-window retry.
OneCallPerAttempt == no_double_billing(calls)

\* check_limits, seen on the committed log: a step that asked the model started
\* below the budget, so the recorded spend overshoots by at most that one call,
\* whoever replayed, resumed or raced.
OvershootOneCall ==
  \A k \in DOMAIN log : log[k].action # NULL => SpentFrom(SubSeq(log, 1, k - 1)) < Budget

SameCall(x, y) == x.tool = y.tool /\ x.path = y.path /\ x.content = y.content

\* A log has at most max_steps steps and never more than LOOP_WINDOW equal calls
\* in a row, provider metadata aside; a limit adds one final event.
StepsAndLoopsBounded ==
  /\ Len(Acted(log)) <= MaxSteps
  /\ \A k \in DOMAIN log : k > LoopWindow /\ log[k].action # NULL =>
       \E j \in (k - LoopWindow)..(k - 1) : ~SameCall(log[j].action, log[k].action)

\* llm/cache.py: "finds the cached answer on retry and does not call again". A
\* look-up misses only when no answer for that step is in the table, whichever
\* attempt stored it.
AnswerReused ==
  [][\A a \in Sessions : pc[a] = "lookup" /\ pc'[a] = "record" =>
       \A c \in cache : c.key.step # idx[a]]_vars

\* agent.py: "a worker that takes over mid-run continues exactly where the dead
\* one stopped". The owner of the run, about to ask the model, has the very files
\* the last committing attempt had, whatever zombies and their programs did
\* meanwhile. The one exception the code makes: a file as a program left it ("data")
\* is in no event, and after a takeover it is as the log's last write_file has it.
ContinuesExactly ==
  \A a \in Sessions : Current(a) /\ pc[a] = "lookup" =>
    \A p \in Paths :
      \/ ws[Workspace(a)][p] = lastWs[p]
      \/ lastWs[p] = "data" /\ ws[Workspace(a)][p] = Rebuilt(log)[p]

\* agent.py: "Everything the loop needs is rebuilt from the replayed events": no
\* committed log makes materialize_workspace raise.
LogCanBeReplayed == ~RebuildRaises(log)

MaxCost == CHOOSE c \in Costs : \A d \in Costs : d <= c

\* The honest crash window (README): what the provider charged and no event shows
\* is at most one call per attempt, whatever crashed, raced or was repeated.
UnrecordedCharges == billed <= SpentFrom(log) + token * MaxCost

Entry(k) == [key |-> k - 1, attempt |-> log[k].attempt, cost |-> log[k].cost,
             final |-> log[k].final]

Log == INSTANCE RunLog WITH
         Runs <- {"run"},
         Costs <- Costs \cup {Numeric6(c) : c \in Costs} \cup {0},
         status <- [r \in {"run"} |-> status],
         log <- [r \in {"run"} |-> [k \in DOMAIN log |-> Entry(k)]],
         token <- [r \in {"run"} |-> token],
         held <- [r \in {"run"} |-> held]

\* The sessions use the run's log exactly as the engine lets them (RunLog).
UsesRunLog == Log!Spec
=============================================================================
