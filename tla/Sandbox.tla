------------------------------ MODULE Sandbox ------------------------------
(***************************************************************************)
(* Calls of DockerRunner.run in the threads of several worker processes,   *)
(* the Docker daemon they share, the faults of the chaos injector (a       *)
(* killed worker, `docker kill`) and its shutdown. A container belongs to  *)
(* one call and outlives it if nobody removes it.                          *)
(* Source: sandbox/runner.py, chaos/injector.py; the daemon is external.   *)
(***************************************************************************)
EXTENDS Integers, Sequences, SequencesExt

CONSTANTS
  Calls,         \* calls of run(), each made once
  Owned,         \* those made by the injector's workers
  Outputs,       \* what programs print: <<stdout, stderr>>, as chunk lengths
  Limit,         \* policy.max_output_bytes
  OOM_RECHECKS,
  MaxOomDelay,   \* the OOM flag is this many recheck intervals late at most
  MaxErrors      \* bound: daemon errors per behaviour

ASSUME ConstantsAssumption ==
  /\ Owned \subseteq Calls
  /\ Outputs \subseteq Seq(Nat) \X Seq(Nat)
  /\ Limit \in Nat /\ OOM_RECHECKS \in Nat /\ MaxErrors \in Nat
  /\ MaxOomDelay \in 0..OOM_RECHECKS

VARIABLES
  pc,        \* pc[c]: where the thread of call c is
  loc,       \* loc[c]: run()'s locals
  box,       \* box[c]: the daemon's record of the container of c
  harness,   \* Injector.shutdown: "on", "killing", "removing", "off"
  listed,    \* the containers shutdown listed and has not reached
  aborted,   \* history: shutdown's loop ended on an exception
  erred      \* history: the daemon errors, as <<call, where its thread was>>

vars == <<pc, loc, box, harness, listed, aborted, erred>>

Over == {"returned", "raised", "crashed"}
PCs == {"idle", "create", "start", "wait", "kill", "wait2", "collect", "reload",
        "recheck", "drain", "remove"} \cup Over

NoLocals == [asked |-> FALSE, timedOut |-> FALSE, exit |-> 0, oom |-> FALSE, reads |-> 0,
             failing |-> FALSE, log |-> <<<<>>, <<>>>>, kept |-> <<0, 0>>, truncated |-> FALSE]

\* What is left of the locals when the call ends without a result.
Forget(c) == loc' = [loc EXCEPT ![c] = [NoLocals EXCEPT !.asked = loc[c].asked]]

\* hit: the kernel OOM-killed in this container; late: recheck intervals until
\* the flag OOMKilled shows it.
NoBox == [st |-> "none", exit |-> 0, hit |-> FALSE, late |-> 0]

Exists(c) == box[c].st \in {"created", "running", "exited"}

Goto(c, from, to) == pc[c] = from /\ pc' = [pc EXCEPT ![c] = to]

Leave == UNCHANGED <<harness, listed, aborted>>
NoError == erred' = erred

\* A request of c, or of shutdown about c, that breaks or is answered with an error.
DaemonError(c) ==
  /\ Len(erred) < MaxErrors
  /\ erred' = Append(erred, <<c, pc[c]>>)

ErredAt(c, S) == \E i \in DOMAIN erred : erred[i][1] = c /\ erred[i][2] \in S
-----------------------------------------------------------------------------
\* _capture: drain the stream, keep the head; lengths only.
Capture(chunks) ==
  FoldLeft(LAMBDA a, n : [buf |-> IF a.buf < Limit
                                  THEN a.buf + (IF n < Limit - a.buf THEN n ELSE Limit - a.buf)
                                  ELSE a.buf,
                          total |-> a.total + n],
           [buf |-> 0, total |-> 0], chunks)

Ends(c, exit, hit, late) ==
  box' = [box EXCEPT ![c] = [st |-> "exited", exit |-> exit, hit |-> hit, late |-> late]]

Killed(c) == Ends(c, 137, FALSE, 0)
Stopped(c) == box[c].st \in {"exited", "gone"}

\* remove(force=True): a running container is killed first.
Removed(c) ==
  IF box[c].st = "running" THEN [box EXCEPT ![c].st = "gone", ![c].exit = 137]
  ELSE [box EXCEPT ![c].st = "gone"]
-----------------------------------------------------------------------------
Init ==
  /\ pc = [c \in Calls |-> "idle"]
  /\ loc = [c \in Calls |-> NoLocals]
  /\ box = [c \in Calls |-> NoBox]
  /\ harness = "on" /\ listed = {} /\ aborted = FALSE
  /\ erred = <<>>

\* run() up to the request for a container.
Request(c) ==
  /\ Goto(c, "idle", "create")
  /\ loc' = [loc EXCEPT ![c].asked = TRUE]
  /\ UNCHANGED box /\ Leave /\ NoError

\* The daemon serves the request, also when the caller is dead or has had an
\* error for an answer by then.
DaemonCreates(c) ==
  /\ loc[c].asked /\ box[c].st = "none"
  /\ box' = [box EXCEPT ![c].st = "created"]
  /\ UNCHANGED <<pc, loc>> /\ Leave /\ NoError

Created(c) ==
  /\ box[c].st # "none" /\ Goto(c, "create", "start")
  /\ UNCHANGED <<loc, box>> /\ Leave /\ NoError

\* containers.create raises, before the try: nothing removes the container the
\* daemon may have made.
CreateRaises(c) ==
  /\ Goto(c, "create", "raised") /\ DaemonError(c)
  /\ UNCHANGED <<loc, box>> /\ Leave

\* Mutant: an exception leaves without the finally.
RaiseUncaught(c, from) ==
  /\ Goto(c, from, "raised")
  /\ loc' = [loc EXCEPT ![c].failing = TRUE]

\* An exception inside the try, outside the pool: finally removes.
Raise(c, from) ==
  /\ Goto(c, from, "remove")
  /\ loc' = [loc EXCEPT ![c].failing = TRUE]

\* An exception inside the pool: its exit first waits for the captures, which
\* follow the container to its end.
RaiseInPool(c, from) ==
  /\ Goto(c, from, "drain")
  /\ loc' = [loc EXCEPT ![c].failing = TRUE]

Start(c) ==
  \/ /\ box[c].st = "created" /\ Goto(c, "start", "wait")
     /\ box' = [box EXCEPT ![c].st = "running"]
     /\ UNCHANGED loc /\ Leave /\ NoError
  \/ /\ Raise(c, "start")
     /\ \/ box[c].st = "gone" /\ NoError /\ UNCHANGED box
        \/ DaemonError(c) /\ UNCHANGED box
        \/ DaemonError(c) /\ box[c].st = "created" /\ box' = [box EXCEPT ![c].st = "running"]
     /\ Leave

\* container.wait(timeout): the exit code; a container removed meanwhile gives
\* the code of its end or NotFound.
Wait(c, from) ==
  /\ Leave
  /\ \/ /\ Stopped(c) /\ Goto(c, from, "collect")
        /\ loc' = [loc EXCEPT ![c].exit = box[c].exit]
        /\ UNCHANGED box /\ NoError
     \/ /\ box[c].st = "gone" /\ RaiseInPool(c, from) /\ UNCHANGED box /\ NoError
     \/ /\ RaiseInPool(c, from) /\ DaemonError(c) /\ UNCHANGED box

\* Mutant: the timed-out program is not killed.
WaitTimesOutNoKill(c) ==
  /\ Goto(c, "wait", "wait2")
  /\ loc' = [loc EXCEPT ![c].timedOut = TRUE]
  /\ UNCHANGED box /\ Leave /\ NoError

\* ReadTimeout or ConnectionError, possibly just as the program ends.
WaitTimesOut(c) ==
  /\ Goto(c, "wait", "kill")
  /\ loc' = [loc EXCEPT ![c].timedOut = TRUE]
  /\ UNCHANGED box /\ Leave /\ NoError

\* _kill swallows every answer of the daemon that is an error, a container that
\* has ended or is gone too; a request that breaks raises, inside the pool (served
\* all the same, it looks like an end with 137).
Kill(c) ==
  /\ Leave
  /\ \/ /\ Goto(c, "kill", "wait2") /\ UNCHANGED loc /\ NoError
        /\ IF box[c].st = "running" THEN Killed(c) ELSE UNCHANGED box
     \/ /\ Goto(c, "kill", "wait2") /\ UNCHANGED <<loc, box>> /\ DaemonError(c)
     \/ RaiseInPool(c, "kill") /\ DaemonError(c) /\ UNCHANGED box

\* out_f.result() and err_f.result(), once the container has ended; log is what
\* it printed. They raise what container.logs raised in a capture, and the pool's
\* exit has nothing left to wait for.
Collect(c) ==
  /\ Stopped(c) /\ UNCHANGED box /\ Leave
  /\ \/ /\ Goto(c, "collect", "reload") /\ NoError
        /\ \E log \in Outputs :
             LET cap == [i \in 1..2 |-> Capture(log[i])] IN
               loc' = [loc EXCEPT ![c].log = log, ![c].kept = <<cap[1].buf, cap[2].buf>>,
                                  ![c].truncated = \E i \in 1..2 : cap[i].total > Limit]
     \/ /\ Raise(c, "collect")
        /\ \/ box[c].st = "gone" /\ NoError
           \/ DaemonError(c)

\* with ThreadPoolExecutor: the exit of a failing call.
Drain(c) ==
  /\ Stopped(c) /\ Goto(c, "drain", "remove")
  /\ UNCHANGED <<loc, box>> /\ Leave /\ NoError

Flag(b) == b.hit /\ b.late = 0

\* Mutant: one read of the flag, as before the recheck was added.
ReloadOnce(c) ==
  \/ /\ Exists(c) /\ Goto(c, "reload", "remove")
     /\ loc' = [loc EXCEPT ![c].oom = Flag(box[c])]
     /\ NoError /\ UNCHANGED box /\ Leave
  \/ /\ Raise(c, "reload") /\ UNCHANGED box /\ Leave
     /\ \/ box[c].st = "gone" /\ NoError
        \/ DaemonError(c)

\* _oom_killed: the first read; an exit 137 without a timeout is read again.
Reload(c) ==
  \/ /\ Exists(c)
     /\ Goto(c, "reload", IF Flag(box[c]) \/ loc[c].exit # 137 \/ loc[c].timedOut
                          THEN "remove" ELSE "recheck")
     /\ loc' = [loc EXCEPT ![c].oom = Flag(box[c])]
     /\ NoError /\ UNCHANGED box /\ Leave
  \/ /\ Raise(c, "reload") /\ UNCHANGED box /\ Leave
     /\ \/ box[c].st = "gone" /\ NoError
        \/ DaemonError(c)

\* Mutant: one turn too many.
RecheckOneMore(c) ==
  LET b == [box[c] EXCEPT !.late = IF @ = 0 THEN 0 ELSE @ - 1]
      n == loc[c].reads + 1
  IN
  \/ /\ Exists(c) /\ loc[c].reads <= OOM_RECHECKS
     /\ Goto(c, "recheck", IF Flag(b) \/ n > OOM_RECHECKS THEN "remove" ELSE "recheck")
     /\ box' = [box EXCEPT ![c] = b]
     /\ loc' = [loc EXCEPT ![c].reads = n, ![c].oom = Flag(b)]
     /\ NoError /\ Leave
  \/ /\ Raise(c, "recheck") /\ UNCHANGED box /\ Leave
     /\ \/ box[c].st = "gone" /\ NoError
        \/ DaemonError(c)

\* One turn of the loop over OOM_RECHECKS: sleep one interval, read the flag.
Recheck(c) ==
  LET b == [box[c] EXCEPT !.late = IF @ = 0 THEN 0 ELSE @ - 1]
      n == loc[c].reads + 1
  IN
  \/ /\ Exists(c) /\ loc[c].reads < OOM_RECHECKS
     /\ Goto(c, "recheck", IF Flag(b) \/ n = OOM_RECHECKS THEN "remove" ELSE "recheck")
     /\ box' = [box EXCEPT ![c] = b]
     /\ loc' = [loc EXCEPT ![c].reads = n, ![c].oom = Flag(b)]
     /\ NoError /\ Leave
  \/ /\ Raise(c, "recheck") /\ UNCHANGED box /\ Leave
     /\ \/ box[c].st = "gone" /\ NoError
        \/ DaemonError(c)

\* _remove, and run() ends; NotFound is swallowed, another error leaves the
\* container.
RemoveBox(c) ==
  /\ Leave
  /\ \/ /\ ~loc[c].failing /\ Goto(c, "remove", "returned")
        /\ box' = Removed(c) /\ UNCHANGED loc /\ NoError
     \/ /\ Goto(c, "remove", "raised") /\ Forget(c)
        /\ \/ loc[c].failing /\ box' = Removed(c) /\ NoError
           \/ DaemonError(c) /\ UNCHANGED box
-----------------------------------------------------------------------------
\* The program ends by itself or runs into its memory limit.
ProgramEnds(c) ==
  /\ box[c].st = "running"
  /\ \E exit \in {0, 137}, hit \in BOOLEAN :
       \E late \in 0..(IF hit THEN MaxOomDelay ELSE 0) : Ends(c, exit, hit, late)
  /\ UNCHANGED <<pc, loc>> /\ Leave /\ NoError

\* Injector.docker_kill picks any running container with the label.
DockerKill(c) ==
  /\ harness = "on" /\ box[c].st = "running"
  /\ Killed(c)
  /\ UNCHANGED <<pc, loc>> /\ Leave /\ NoError

\* The worker process of c dies (a crash, Injector.kill); its container runs on
\* and a request for one may still be served.
Dies(c) ==
  /\ pc[c] \notin Over
  /\ pc' = [pc EXCEPT ![c] = "crashed"]
  /\ Forget(c) /\ UNCHANGED box /\ NoError

WorkerDies(c) == harness = "on" /\ Dies(c) /\ Leave

\* shutdown: kill the workers one by one, ...
Shutdown ==
  /\ harness = "on" /\ harness' = "killing"
  /\ UNCHANGED <<pc, loc, box, listed, aborted>> /\ NoError

ShutdownKills(c) == harness = "killing" /\ c \in Owned /\ Dies(c) /\ Leave

\* ... then list every container with the label, other processes' too, ...
List ==
  /\ harness = "killing" /\ \A c \in Owned : pc[c] \in Over
  /\ harness' = "removing" /\ listed' = {c \in Calls : Exists(c)}
  /\ UNCHANGED <<pc, loc, box, aborted>> /\ NoError

\* ... and remove them; an error, NotFound included, ends the loop.
RemoveListed ==
  /\ harness = "removing" /\ UNCHANGED <<pc, loc>>
  /\ \/ \E c \in listed :
          \/ /\ Exists(c) /\ box' = Removed(c) /\ listed' = listed \ {c}
             /\ UNCHANGED <<harness, aborted>> /\ NoError
          \/ /\ \/ ~Exists(c) /\ NoError
                \/ DaemonError(c)
             /\ harness' = "off" /\ aborted' = TRUE
             /\ UNCHANGED <<box, listed>>
     \/ /\ listed = {} /\ harness' = "off"
        /\ UNCHANGED <<box, listed, aborted>> /\ NoError

Thread(c) ==
  \/ Request(c) \/ Created(c) \/ CreateRaises(c) \/ Start(c)
  \/ Wait(c, "wait") \/ WaitTimesOut(c) \/ Kill(c) \/ Wait(c, "wait2") \/ Collect(c)
  \/ Drain(c) \/ Reload(c) \/ Recheck(c) \/ RemoveBox(c)

Next ==
  \/ \E c \in Calls :
       Thread(c) \/ DaemonCreates(c) \/ ProgramEnds(c) \/ DockerKill(c) \/ WorkerDies(c) \/ ShutdownKills(c)
  \/ Shutdown \/ List \/ RemoveListed

\* The threads run, requests are served or time out; a program may run for ever.
Spec ==
  Init /\ [][Next]_vars /\ \A c \in Calls : WF_vars(Thread(c)) /\ WF_vars(DaemonCreates(c))
-----------------------------------------------------------------------------
\* The type invariant.
TypeOK ==
  /\ pc \in [Calls -> PCs]
  /\ \A c \in Calls :
       /\ loc[c].timedOut \in BOOLEAN /\ loc[c].oom \in BOOLEAN /\ loc[c].failing \in BOOLEAN
       /\ loc[c].reads \in 0..OOM_RECHECKS /\ loc[c].exit \in {0, 137}
       /\ box[c].st \in {"none", "created", "running", "exited", "gone"}
       /\ box[c].late \in 0..MaxOomDelay
  /\ harness \in {"on", "killing", "removing", "off"} /\ listed \subseteq Calls
  /\ erred \in Seq(Calls \X PCs)

\* run()'s finally and Injector.shutdown: however a call ends, its container is
\* gone unless the very request to create or to remove it failed or its worker
\* died; and no container of the injector's own workers runs on after a shutdown
\* whose loop got through.
NoContainerLeaks ==
  \A c \in Calls :
    /\ pc[c] \in {"returned", "raised"} /\ ~ErredAt(c, {"create", "remove"}) => ~Exists(c)
    /\ harness = "off" /\ ~aborted /\ c \in Owned => box[c].st # "running"

\* The SandboxResult is what happened, with the kernel's OOM event late, the
\* timeout racing the exit, and kills from outside: oom_killed is never made up
\* and is never missed for a SIGKILL that was no timeout; the output is cut at the
\* limit and says so.
VerdictTrue ==
  \A c \in Calls :
    LET l == loc[c]
        b == box[c]
        printed == [i \in 1..2 |-> FoldLeft(LAMBDA a, n : a + n, 0, l.log[i])]
    IN pc[c] = "returned" =>
         /\ l.exit = b.exit
         /\ l.oom => b.hit
         /\ b.hit /\ l.exit = 137 /\ ~l.timedOut => l.oom
         /\ \A i \in 1..2 : l.kept[i] = IF printed[i] < Limit THEN printed[i] ELSE Limit
         /\ l.truncated = (\E i \in 1..2 : l.kept[i] < printed[i])

\* Untrusted code cannot hold a worker: a call ends even if its program never
\* does. Only a daemon error on the wait or on the kill leaves the thread behind
\* a program that still runs, in the pool's exit or in the wait without timeout.
RunReturns ==
  \A c \in Calls :
    pc[c] = "create" ~> \/ pc[c] \in Over
                        \/ /\ ErredAt(c, {"wait", "kill", "wait2"})
                           /\ pc[c] \in {"drain", "wait2"}
                           /\ box[c].st = "running"
=============================================================================
