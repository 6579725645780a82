------------------------------ MODULE Provider ------------------------------
(***************************************************************************)
(* LLM providers: pacing, retries and the daily quota of                   *)
(* OpenAICompatProvider, over several task attempts of several runs, and   *)
(* the translation of a run's history to and from the wire format of both  *)
(* real providers. A provider is built per claimed task unless the engine  *)
(* context brings one; time passes in ticks.                               *)
(* Source: llm/openai_compat.py, llm/anthropic.py, llm/factory.py and      *)
(* engine._provider_for; the service is external.                          *)
(***************************************************************************)
EXTENDS Integers, Sequences, SequencesExt

CONSTANTS
  Runs,
  Steps,          \* bound: Steps[r] answers end run r
  Replies,        \* the tool calls of an answer, as sequences of [name, ext]
  Hints,          \* waits the service may ask for
  MinInterval,    \* PHOENIX_MIN_REQUEST_INTERVAL_S
  MAX_ATTEMPTS, MAX_BACKOFF_S,
  MaxTaskAttempts,
  Shared          \* the instance given in EngineContext.provider

ASSUME ConstantsAssumption ==
  /\ Replies \subseteq Seq([name: BOOLEAN, ext: BOOLEAN])
  /\ Steps \in [Runs -> Nat] /\ Hints \subseteq Nat /\ Shared \notin Runs
  /\ MinInterval \in Nat /\ MAX_BACKOFF_S \in Nat
  /\ MAX_ATTEMPTS \in Nat \ {0} /\ MaxTaskAttempts \in Nat \ {0}

VARIABLES
  kind,     \* the provider: "gemini", "anthropic" or "none" (real calls are disabled,
            \* no key or an unknown name)
  given,    \* EngineContext.provider is set: one instance for all tasks
  inst,     \* inst[i]: pacing lock and the time left to _next_ok; history: the
            \* time since the last slot and the smallest gap between two
  call,     \* call[r]: complete() of run r's task attempt
  actions   \* actions[r]: the actions of the committed log

vars == <<kind, given, inst, call, actions>>

Instances == Runs \cup {Shared}
Inst(r) == IF given THEN Shared ELSE r
Free == [lock |-> Shared, nextOk |-> 0, since |-> MinInterval, gap |-> MinInterval]

\* sleep: time left to sleep; asked: time left of the wait the service asked for,
\* as far as the cap goes; quota: it said that the day's quota is used up.
NoCall == [pc |-> "idle", attempt |-> 1, sent |-> 0, sleep |-> 0, asked |-> 0, quota |-> FALSE]

Least(a, b) == IF a < b THEN a ELSE b
Less(n) == IF n = 0 THEN 0 ELSE n - 1
-----------------------------------------------------------------------------
\* A reply's first tool call is the action; no call, or one without a name, is the
\* action "invalid".
parse_action(reply) ==
  IF reply = <<>> THEN [tool |-> "invalid", ext |-> FALSE]
  ELSE [tool |-> IF Head(reply).name THEN "tool" ELSE "invalid", ext |-> Head(reply).ext]

\* The same in AnthropicProvider.complete, where a call has a name and no extras.
FirstToolUse(reply) == [tool |-> IF reply = <<>> THEN "invalid" ELSE "tool", ext |-> FALSE]

\* agent.build_messages: the task, then an action and its observation per event.
Messages(acts) ==
  FoldLeft(LAMBDA out, a : out \o <<[m |-> "action", a |-> a], [m |-> "observation"]>>,
           <<[m |-> "task"]>>, acts)

Msg(role, what, id, ext) == [role |-> role, what |-> what, id |-> id, ext |-> ext]
Text(role) == Msg(role, "text", -1, FALSE)

\* One message of the loop the two translations share: ids call_n / toolu_n, n counting
\* observations; a text-only reply and what follows it are plain text.
Turn(results, keepExt, s, msg) ==
  CASE msg.m = "task" -> [s EXCEPT !.out = Append(@, Text("user"))]
    [] msg.m = "action" ->
         [s EXCEPT !.out = Append(@, IF msg.a.tool = "invalid" THEN Text("assistant")
                                     ELSE Msg("assistant", "call", s.n, keepExt /\ msg.a.ext))]
    [] msg.m = "observation" ->
         [s EXCEPT !.out = Append(@, IF Last(s.out).what = "call"
                                     THEN Msg(results, "result", s.n, FALSE)
                                     ELSE Text("user")),
                   !.n = @ + 1]

\* Mutant: the counter is not advanced.
TranslateSameIds(first, results, keepExt, msgs) ==
  FoldLeft(LAMBDA s, msg : [Turn(results, keepExt, s, msg) EXCEPT !.n = 0],
           [out |-> first, n |-> 0], msgs).out

Translate(first, results, keepExt, msgs) ==
  FoldLeft(LAMBDA s, msg : Turn(results, keepExt, s, msg), [out |-> first, n |-> 0], msgs).out

to_openai_messages(msgs) == Translate(<<Text("system")>>, "tool", TRUE, msgs)
to_anthropic_messages(msgs) == Translate(<<>>, "user", FALSE, msgs)

\* Mutant: only the Retry-After header is read.
HeaderDelay(where, hint, attempt) == IF where = "header" THEN hint ELSE 2 ^ attempt

\* Retry-After in seconds, else retryDelay in the body and a second more, else
\* backoff. A Retry-After that is a date is not read: then it is "body" or "none".
retry_delay(where, hint, attempt) ==
  CASE where = "header" -> hint
    [] where = "body" -> hint + 1
    [] where = "none" -> 2 ^ attempt
-----------------------------------------------------------------------------
Init ==
  /\ kind \in {"gemini", "anthropic", "none"} /\ given \in BOOLEAN
  /\ given => kind # "none"
  /\ inst = [i \in Instances |-> Free]
  /\ call = [r \in Runs |-> NoCall]
  /\ actions = [r \in Runs |-> <<>>]

\* complete(): the next question of run r.
Complete(r) ==
  /\ call[r].pc = "idle" /\ Len(actions[r]) < Steps[r] /\ kind # "none"
  /\ call' = [call EXCEPT ![r].pc = IF kind = "anthropic" THEN "sdk" ELSE "pace"]
  /\ UNCHANGED <<kind, given, inst, actions>>

\* Mutant: the wait is computed without the lock.
PaceUnlocked(r) ==
  /\ call[r].pc = "pace"
  /\ call' = [call EXCEPT ![r].pc = "paceSleep", ![r].sleep = inst[Inst(r)].nextOk]
  /\ UNCHANGED <<kind, given, inst, actions>>

\* _pace: take the lock and see how long to wait; no interval, no pacing.
Pace(r) ==
  /\ call[r].pc = "pace"
  /\ IF MinInterval = 0
     THEN call' = [call EXCEPT ![r].pc = "post"] /\ UNCHANGED inst
     ELSE /\ inst[Inst(r)].lock = Shared
          /\ inst' = [inst EXCEPT ![Inst(r)].lock = r]
          /\ call' = [call EXCEPT ![r].pc = "paceSleep", ![r].sleep = inst[Inst(r)].nextOk]
  /\ UNCHANGED <<kind, given, actions>>

\* The sleep is over: this slot is r's, the next is MinInterval away.
PaceDone(r) ==
  /\ call[r].pc = "paceSleep" /\ call[r].sleep = 0
  /\ inst' = [inst EXCEPT ![Inst(r)] =
                [lock |-> Shared, nextOk |-> MinInterval, since |-> 0,
                 gap |-> Least(@.gap, @.since)]]
  /\ call' = [call EXCEPT ![r].pc = "post"]
  /\ UNCHANGED <<kind, given, actions>>

\* The task attempt is over for r: `async with` gives the lock back, and unless
\* the engine context holds the instance, the next attempt builds its own, which
\* knows nothing of the requests before it.
Unlocked(i, r) == [i EXCEPT !.lock = IF i.lock = r THEN Shared ELSE i.lock]
DropInstance(r) ==
  inst' = [inst EXCEPT ![Inst(r)] = IF given THEN Unlocked(@, r) ELSE Free]

\* The exception reaches _handle_error: a new attempt, or out of attempts.
Error(r) ==
  /\ call' = [call EXCEPT ![r] =
                IF @.attempt < MaxTaskAttempts
                THEN [NoCall EXCEPT !.attempt = call[r].attempt + 1]
                ELSE [@ EXCEPT !.pc = "failed"]]
  /\ DropInstance(r)

\* _provider_for raises: no instance for this attempt.
BuildFails(r) ==
  /\ kind = "none" /\ call[r].pc = "idle" /\ Error(r)
  /\ UNCHANGED <<kind, given, actions>>

Answered(r) ==
  /\ \E reply \in Replies :
       actions' = [actions EXCEPT ![r] = Append(@, IF kind = "anthropic" THEN FirstToolUse(reply)
                                                   ELSE parse_action(reply))]
  /\ call' = [call EXCEPT ![r] = [NoCall EXCEPT !.attempt = call[r].attempt]]
  /\ UNCHANGED <<kind, given, inst>>

\* _post's request succeeds.
PostOk(r) == call[r].pc = "post" /\ Answered(r)

\* 429 and PerDay: QuotaExhaustedError is fatal, _handle_error fails the run.
PostQuota(r) ==
  /\ call[r].pc = "post"
  /\ call' = [call EXCEPT ![r].pc = "failed", ![r].quota = TRUE]
  /\ DropInstance(r)
  /\ UNCHANGED <<kind, given, actions>>

\* Another error status, or httpx raises (a timeout): not retried here.
PostFails(r) ==
  /\ call[r].pc = "post" /\ Error(r)
  /\ UNCHANGED <<kind, given, actions>>

\* A status of RETRY_STATUS: sleep as told, as far as the cap goes, and try
\* again, unless this was the last attempt.
PostRetry(r) ==
  /\ call[r].pc = "post" /\ UNCHANGED <<kind, given, actions>>
  /\ IF call[r].sent = MAX_ATTEMPTS - 1 THEN Error(r)
     ELSE \E where \in {"header", "body", "none"}, hint \in Hints :
            /\ call' = [call EXCEPT ![r].pc = "backoff", ![r].sent = @ + 1,
                 ![r].sleep = Least(retry_delay(where, hint, call[r].sent), MAX_BACKOFF_S),
                 ![r].asked = IF where = "none" THEN 0 ELSE Least(hint, MAX_BACKOFF_S)]
            /\ UNCHANGED inst

BackoffDone(r) ==
  /\ call[r].pc = "backoff" /\ call[r].sleep = 0
  /\ call' = [call EXCEPT ![r].pc = "pace"]
  /\ UNCHANGED <<kind, given, inst, actions>>

\* AnthropicProvider.complete: the SDK answers or raises.
Sdk(r) ==
  /\ call[r].pc = "sdk"
  /\ Answered(r) \/ (Error(r) /\ UNCHANGED <<kind, given, actions>>)

\* Mutant: the cancelled coroutine keeps the lock.
CancelledLocked(r) ==
  /\ call[r].pc \notin {"idle", "failed"} /\ call[r].attempt < MaxTaskAttempts
  /\ call' = [call EXCEPT ![r] = [NoCall EXCEPT !.attempt = call[r].attempt + 1]]
  /\ UNCHANGED <<kind, given, inst, actions>>

\* The lease is lost and the task cancelled at an await; a later attempt goes on.
Cancelled(r) ==
  /\ call[r].pc \notin {"idle", "failed"} /\ call[r].attempt < MaxTaskAttempts
  /\ Error(r)
  /\ UNCHANGED <<kind, given, actions>>

Tick ==
  /\ inst' = [i \in Instances |-> [inst[i] EXCEPT !.nextOk = Less(@),
                                                  !.since = Least(@ + 1, MinInterval)]]
  /\ call' = [r \in Runs |-> [call[r] EXCEPT !.sleep = Less(@), !.asked = Less(@)]]
  /\ UNCHANGED <<kind, given, actions>>

Step(r) ==
  \/ BuildFails(r) \/ Complete(r) \/ Pace(r) \/ PaceDone(r) \/ PostOk(r) \/ PostQuota(r)
  \/ PostFails(r) \/ PostRetry(r) \/ BackoffDone(r) \/ Sdk(r)

Next == Tick \/ \E r \in Runs : Step(r) \/ Cancelled(r)

\* The event loop runs what is ready, the service answers or times out.
Spec == Init /\ [][Next]_vars /\ WF_vars(Tick) /\ \A r \in Runs : WF_vars(Step(r))
-----------------------------------------------------------------------------
\* _pace: "Keep at least min_interval between requests", per instance as in the code
\* (not from one task's instance to the next one's), whoever shares it, whoever is
\* cancelled while it sleeps with the lock, retries included.
Paced == \A i \in Instances : inst[i].gap >= MinInterval

\* _post: a question is sent MAX_ATTEMPTS times at most, again only after the wait
\* the service asked for in seconds (up to the cap), and never after the daily quota
\* is gone.
RetryDiscipline ==
  \A r \in Runs : /\ call[r].sent < MAX_ATTEMPTS
                  /\ call[r].pc = "post" => call[r].asked = 0
                  /\ call[r].quota => call[r].pc = "failed"

\* What both services require of a conversation: every tool call has its own id
\* and is answered at once under that id, nothing else is an answer; Anthropic's
\* roles alternate from user; OpenAI's thought signatures come back on their call.
ConversationWellFormed ==
  \A r \in Runs :
    LET msgs == Messages(actions[r])
        openai == to_openai_messages(msgs)
        anthropic == to_anthropic_messages(msgs)
        CallsOf(out) == {i \in DOMAIN out : out[i].what = "call"}
        Answers(out) ==
          /\ \A i \in CallsOf(out) :
               /\ i < Len(out) /\ out[i + 1].what = "result" /\ out[i + 1].id = out[i].id
               /\ \A j \in CallsOf(out) : out[i].id = out[j].id => i = j
          /\ \A i \in DOMAIN out : out[i].what = "result" => i - 1 \in CallsOf(out)
    IN /\ Answers(openai) /\ Answers(anthropic)
       /\ \A i \in DOMAIN anthropic :
            anthropic[i].role = IF i % 2 = 1 THEN "user" ELSE "assistant"
       /\ \A i \in DOMAIN actions[r] :
            openai[2 * i + 1].ext = (actions[r][i].ext /\ actions[r][i].tool # "invalid")

\* Everyone's question is answered or given up, with callers cancelled while they
\* hold the pacing lock: complete() never hangs.
CompleteEnds == \A r \in Runs : call[r].pc = "pace" ~> call[r].pc \in {"idle", "failed"}
=============================================================================
