--------------------------- MODULE SandboxProofs ---------------------------
(***************************************************************************)
(* Proofs about Sandbox, for any number of calls, programs that print      *)
(* anything, any output limit and any number of daemon errors: no          *)
(* container is left behind, and a result says what happened.              *)
(***************************************************************************)
EXTENDS Sandbox, InductionFacts

\* What a program printed, in bytes.
Printed(chunks) == FoldLeft(LAMBDA a, n : a + n, 0, chunks)

\* The lengths add up from chunk to chunk.
LEMMA PrintedPrefixes ==
  ASSUME NEW s \in Seq(Nat)
  PROVE  \E h \in [0..Len(s) -> Nat] :
           /\ h[0] = 0 /\ \A k \in 1..Len(s) : h[k] = h[k - 1] + s[k]
           /\ Printed(s) = h[Len(s)]
<1> DEFINE N == Len(s)
           F(g) == [t \in SUBSET DOMAIN s |->
                      IF t = {} THEN 0 ELSE g[t \ {Max(t)}] + s[Max(t)]]
           iter == CHOOSE g : g = F(g)
           op == [p \in Nat \X (1..N) |-> p[1] + s[p[2]]]
<1>1. Printed(s) = iter[DOMAIN s]
  BY DEF Printed, FoldLeft, MapThenFoldSet
<1>2. N \in Nat /\ DOMAIN s = 1..N /\ (\A k \in 1..N : s[k] \in Nat) /\ 0 \in Nat
  OBVIOUS
<1>3. op \in [Nat \X (1..N) -> Nat]
  BY <1>2
<1>4. \A x \in Nat, k \in 1..N : op[<<x, k>>] = x + s[k]
  OBVIOUS
<1> HIDE DEF op, N
<1>5. PICK g \in [SUBSET (1..N) -> Nat] : FoldsOver(g, 0, op, N)
  BY <1>2, <1>3, SubsetRecursion, Zenon
<1>6. \A t \in SUBSET (1..N) : t # {} => Max(t) \in 1..N /\ t \ {Max(t)} \in SUBSET (1..N)
  BY <1>2, MaxOfSubset
<1>7. g = F(g)
  BY <1>2, <1>4, <1>5, <1>6 DEF FoldsOver
<1> HIDE DEF F
<1>8. iter = F(iter)
  BY <1>7
<1> HIDE DEF iter
<1>10. Folding(iter, Nat, 0, op, N)
  BY <1>2, <1>3, <1>4, <1>6, <1>8 DEF F, Folding
<1>11. PICK h \in [0..N -> Nat] : Iterates(h, 0, op, N) /\ h[N] = iter[1..N]
  <2>1. Reaches(iter[1..N], Nat, 0, op, N)
    BY <1>10, FoldPrefixes, Zenon
  <2> QED
    BY <2>1 DEF Reaches
<1>12. ASSUME NEW k \in 1..N PROVE h[k] = h[k - 1] + s[k]
  <2>1. k - 1 \in 0..N
    BY <1>2
  <2>2. h[k - 1] \in Nat /\ h[k] = op[<<h[k - 1], k>>]
    BY <1>11, <2>1 DEF Iterates
  <2> QED
    BY <1>4, <2>2
<1>13. h[0] = 0 /\ Printed(s) = h[N]
  BY <1>1, <1>2, <1>11, Zenon DEF Iterates
<1> QED
  BY <1>12, <1>13 DEF N

Captured == [buf: Nat, total: Nat]

\* One turn of _capture's loop.
Take(a, n) == [buf |-> IF a.buf < Limit
                       THEN a.buf + (IF n < Limit - a.buf THEN n ELSE Limit - a.buf)
                       ELSE a.buf,
               total |-> a.total + n]

LEMMA TakeType ==
  ASSUME NEW a \in Captured, NEW n \in Nat
  PROVE  /\ Take(a, n) \in Captured
         /\ Take(a, n).total = a.total + n
         /\ a.buf = (IF a.total < Limit THEN a.total ELSE Limit) =>
              Take(a, n).buf = IF a.total + n < Limit THEN a.total + n ELSE Limit
<1> DEFINE b == IF a.buf < Limit
                THEN a.buf + (IF n < Limit - a.buf THEN n ELSE Limit - a.buf)
                ELSE a.buf
           c == a.total + n
<1>1. a.buf \in Nat /\ a.total \in Nat /\ Limit \in Nat
  BY ConstantsAssumption DEF Captured
<1>2. b \in Nat /\ c \in Nat
  BY <1>1
<1>3. a.buf = (IF a.total < Limit THEN a.total ELSE Limit) => b = IF c < Limit THEN c ELSE Limit
  BY <1>1
<1>4. Take(a, n) = [buf |-> b, total |-> c]
  BY DEF Take
<1> HIDE DEF b, c
<1>5. Take(a, n) \in Captured /\ Take(a, n).total = c /\ Take(a, n).buf = b
  BY <1>2, <1>4 DEF Captured
<1> QED
  BY <1>3, <1>5 DEF c

LEMMA CapturePrefixes ==
  ASSUME NEW s \in Seq(Nat)
  PROVE  \E h \in [0..Len(s) -> Captured] :
           /\ h[0] = [buf |-> 0, total |-> 0]
           /\ \A k \in 1..Len(s) : h[k] = Take(h[k - 1], s[k])
           /\ Capture(s) = h[Len(s)]
<1> DEFINE N == Len(s)
           zero == [buf |-> 0, total |-> 0]
           F(g) == [t \in SUBSET DOMAIN s |->
                      IF t = {} THEN zero ELSE Take(g[t \ {Max(t)}], s[Max(t)])]
           iter == CHOOSE g : g = F(g)
           op == [p \in Captured \X (1..N) |-> Take(p[1], s[p[2]])]
<1>1. Capture(s) = iter[DOMAIN s]
  BY DEF Capture, FoldLeft, MapThenFoldSet, Take
<1>2. N \in Nat /\ DOMAIN s = 1..N /\ (\A k \in 1..N : s[k] \in Nat)
  OBVIOUS
<1>3. op \in [Captured \X (1..N) -> Captured]
  <2>1. \A x \in Captured, k \in 1..N : Take(x, s[k]) \in Captured
    BY <1>2, TakeType
  <2> HIDE DEF N
  <2> QED
    BY <2>1
<1>4. \A x \in Captured, k \in 1..N : op[<<x, k>>] = Take(x, s[k])
  OBVIOUS
<1>5. zero \in Captured
  BY DEF Captured
<1> HIDE DEF op, N, zero
<1>6. PICK g \in [SUBSET (1..N) -> Captured] : FoldsOver(g, zero, op, N)
  BY <1>2, <1>3, <1>5, SubsetRecursion, Zenon
<1>7. \A t \in SUBSET (1..N) : t # {} => Max(t) \in 1..N /\ t \ {Max(t)} \in SUBSET (1..N)
  BY <1>2, MaxOfSubset
<1>8. g = F(g)
  BY <1>2, <1>4, <1>6, <1>7 DEF FoldsOver
<1> HIDE DEF F
<1>9. iter = F(iter)
  BY <1>8
<1> HIDE DEF iter
<1>11. Folding(iter, Captured, zero, op, N)
  BY <1>2, <1>3, <1>4, <1>5, <1>7, <1>9 DEF F, Folding
<1>12. PICK h \in [0..N -> Captured] : Iterates(h, zero, op, N) /\ h[N] = iter[1..N]
  <2>1. Reaches(iter[1..N], Captured, zero, op, N)
    BY <1>11, FoldPrefixes, Zenon
  <2> QED
    BY <2>1 DEF Reaches
<1>13. \A k \in 1..N : h[k] = Take(h[k - 1], s[k])
  <2>1. \A k \in 1..N : k - 1 \in 0..N
    BY <1>2
  <2> QED
    BY <1>4, <1>12, <2>1 DEF Iterates
<1>14. h[0] = zero /\ Capture(s) = h[N]
  BY <1>1, <1>2, <1>12, Zenon DEF Iterates
<1> QED
  BY <1>13, <1>14 DEF N, zero

\* _capture keeps the head of what was printed, up to the limit, and counts it all.
LEMMA CaptureKeepsHead ==
  ASSUME NEW s \in Seq(Nat)
  PROVE  /\ Printed(s) \in Nat
         /\ Capture(s).total = Printed(s)
         /\ Capture(s).buf = IF Printed(s) < Limit THEN Printed(s) ELSE Limit
<1>1. PICK h \in [0..Len(s) -> Nat] :
           /\ h[0] = 0 /\ \A k \in 1..Len(s) : h[k] = h[k - 1] + s[k]
           /\ Printed(s) = h[Len(s)]
  BY PrintedPrefixes
<1>2. PICK c \in [0..Len(s) -> Captured] :
           /\ c[0] = [buf |-> 0, total |-> 0]
           /\ \A k \in 1..Len(s) : c[k] = Take(c[k - 1], s[k])
           /\ Capture(s) = c[Len(s)]
  BY CapturePrefixes
<1> DEFINE Good(k) == c[k].total = h[k] /\ c[k].buf = IF h[k] < Limit THEN h[k] ELSE Limit
           P == {k \in Nat : k <= Len(s) => Good(k)}
<1>3. 0 \in P
  BY <1>1, <1>2, ConstantsAssumption
<1>4. ASSUME NEW k \in Nat, k \in P PROVE k + 1 \in P
  <2> SUFFICES ASSUME k + 1 <= Len(s) PROVE Good(k + 1)
    OBVIOUS
  <2>1. PICK m \in 1..Len(s) : m = k + 1 /\ m - 1 = k
    OBVIOUS
  <2>0. k \in 0..Len(s)
    OBVIOUS
  <2>2. c[k] \in Captured /\ h[k] \in Nat /\ s[m] \in Nat
    BY <2>0
  <2>3. c[m] = Take(c[k], s[m]) /\ h[m] = h[k] + s[m]
    BY <1>1, <1>2, <2>1
  <2>4. Good(k)
    BY <1>4, <2>1
  <2>5. c[m].total = h[m]
    BY <2>2, <2>3, <2>4, TakeType
  <2>6. c[m].buf = IF h[m] < Limit THEN h[m] ELSE Limit
    <3>1. c[k].buf = IF c[k].total < Limit THEN c[k].total ELSE Limit
      BY <2>4
    <3>2. Take(c[k], s[m]).buf = IF c[k].total + s[m] < Limit THEN c[k].total + s[m] ELSE Limit
      BY <2>2, <3>1, TakeType
    <3> QED
      BY <2>3, <2>4, <3>2
  <2> QED
    BY <2>1, <2>5, <2>6
<1> HIDE DEF P
<1>5. Nat \subseteq P
  BY <1>3, <1>4, SetInduction
<1>6. Len(s) \in Nat /\ h[Len(s)] \in Nat
  OBVIOUS
<1>7. Good(Len(s))
  BY <1>5, <1>6 DEF P
<1> QED
  BY <1>1, <1>2, <1>6, <1>7
-----------------------------------------------------------------------------
Locals == [asked: BOOLEAN, timedOut: BOOLEAN, exit: {0, 137}, oom: BOOLEAN,
           reads: 0..OOM_RECHECKS, failing: BOOLEAN, log: Seq(Nat) \X Seq(Nat),
           kept: Nat \X Nat, truncated: BOOLEAN]
Box == [st: {"none", "created", "running", "exited", "gone"}, exit: {0, 137},
        hit: BOOLEAN, late: 0..MaxOomDelay]

\* The types of all the variables.
Typed ==
  /\ pc \in [Calls -> PCs]
  /\ loc \in [Calls -> Locals]
  /\ box \in [Calls -> Box]
  /\ harness \in {"on", "killing", "removing", "off"} /\ listed \subseteq Calls
  /\ aborted \in BOOLEAN
  /\ erred \in Seq(Calls \X PCs)

\* A call that knows how its container ended: run() past container.wait, and not
\* on the way out with an exception.
Knows(c) ==
  \/ pc[c] \in {"collect", "reload", "recheck", "returned"}
  \/ pc[c] = "remove" /\ ~loc[c].failing

\* The same past the captures' results.
HasOutput(c) == Knows(c) /\ pc[c] # "collect"

\* And past _oom_killed.
HasVerdict(c) == Knows(c) /\ pc[c] \in {"remove", "returned"}

OutputTrue(l) ==
  /\ \A i \in 1..2 : l.kept[i] = IF Printed(l.log[i]) < Limit THEN Printed(l.log[i]) ELSE Limit
  /\ l.truncated = (\E i \in 1..2 : l.kept[i] < Printed(l.log[i]))

\* What run() and the daemon keep true of call c. A container that has ended stays
\* as it ended, however often it is killed or removed; the late OOM flag shows
\* before the rechecks are used up.
CallOK(c) ==
  /\ pc[c] \in PCs \ {"idle", "create", "raised", "crashed"} => box[c].st # "none"
  /\ pc[c] = "returned" => box[c].st = "gone"
  /\ pc[c] = "raised" => box[c].st = "gone" \/ ErredAt(c, {"create", "remove"})
  /\ Knows(c) => Stopped(c) /\ loc[c].exit = box[c].exit
  /\ loc[c].oom => Stopped(c) /\ box[c].hit
  /\ pc[c] \in {"idle", "create", "start", "wait", "kill", "wait2", "collect", "reload"} =>
       loc[c].reads = 0
  /\ pc[c] = "drain" => loc[c].failing
  /\ pc[c] = "recheck" => loc[c].reads + box[c].late <= OOM_RECHECKS
  /\ HasVerdict(c) /\ box[c].hit /\ loc[c].exit = 137 /\ ~loc[c].timedOut => loc[c].oom
  /\ HasOutput(c) => OutputTrue(loc[c])

\* Injector.shutdown: once its workers are dead, no container of theirs starts, and
\* those that run are on the list until the loop reaches them.
ShutdownOK ==
  /\ harness \in {"removing", "off"} =>
       \A c \in Owned : /\ pc[c] \in Over
                        /\ box[c].st = "running" => aborted \/ c \in listed
  /\ harness = "off" /\ ~aborted => listed = {}

\* The inductive invariant.
SandboxInv == Typed /\ (\A c \in Calls : CallOK(c)) /\ ShutdownOK

\* Steps of one call's thread, of its worker or of its container.
CallStep(c) ==
  \/ Thread(c) \/ DaemonCreates(c) \/ ProgramEnds(c) \/ DockerKill(c) \/ WorkerDies(c)
  \/ ShutdownKills(c)

\* Other calls are left alone, and errors are not forgotten.
OthersStay(c) ==
  \A d \in Calls \ {c} : pc'[d] = pc[d] /\ loc'[d] = loc[d] /\ box'[d] = box[d]

ErrorsStay == \A d \in Calls, S \in SUBSET PCs : ErredAt(d, S) => ErredAt(d, S)'

LEMMA ErrorLogged ==
  ASSUME Typed, NEW c \in Calls, DaemonError(c) \/ NoError
  PROVE  /\ erred' \in Seq(Calls \X PCs)
         /\ ErrorsStay
         /\ DaemonError(c) => \A S \in SUBSET PCs : pc[c] \in S => ErredAt(c, S)'
<1> DEFINE e == <<c, pc[c]>>
<1>1. erred \in Seq(Calls \X PCs) /\ e \in Calls \X PCs /\ e[1] = c /\ e[2] = pc[c]
  BY DEF Typed
<1>2. CASE NoError /\ ~DaemonError(c)
  BY <1>1, <1>2 DEF NoError, ErrorsStay, ErredAt
<1>3. CASE DaemonError(c)
  <2>1. erred' = Append(erred, e)
    BY <1>3 DEF DaemonError
  <2> HIDE DEF e
  <2>2. /\ Len(erred') = Len(erred) + 1 /\ Len(erred) \in Nat
        /\ DOMAIN erred = 1..Len(erred) /\ DOMAIN erred' = 1..(Len(erred) + 1)
        /\ \A i \in 1..Len(erred) : erred'[i] = erred[i]
        /\ erred'[Len(erred) + 1] = e
        /\ erred' \in Seq(Calls \X PCs)
    BY <1>1, <2>1
  <2>3. ErrorsStay
    <3> SUFFICES ASSUME NEW d \in Calls, NEW S \in SUBSET PCs, ErredAt(d, S) PROVE ErredAt(d, S)'
      BY DEF ErrorsStay
    <3>1. PICK i \in DOMAIN erred : erred[i][1] = d /\ erred[i][2] \in S
      BY DEF ErredAt
    <3>2. i \in DOMAIN erred' /\ erred'[i] = erred[i]
      BY <2>2
    <3> QED
      BY <3>1, <3>2 DEF ErredAt
  <2>4. ASSUME NEW S \in SUBSET PCs, pc[c] \in S PROVE ErredAt(c, S)'
    <3>1. Len(erred) + 1 \in DOMAIN erred'
      BY <2>2
    <3> QED
      BY <1>1, <2>2, <2>4, <3>1 DEF ErredAt
  <2> QED
    BY <2>2, <2>3, <2>4
<1> QED
  BY <1>2, <1>3

\* Another call's step keeps what is true of this one.
LEMMA OtherCallOK ==
  ASSUME NEW d \in Calls, CallOK(d), ErrorsStay,
         pc'[d] = pc[d], loc'[d] = loc[d], box'[d] = box[d]
  PROVE  CallOK(d)'
<1>1. {"create", "remove"} \in SUBSET PCs
  BY DEF PCs
<1>2. ErredAt(d, {"create", "remove"}) => ErredAt(d, {"create", "remove"})'
  BY <1>1 DEF ErrorsStay
<1>3. Knows(d)' = Knows(d)
  BY DEF Knows
<1>4. /\ HasOutput(d)' = HasOutput(d) /\ HasVerdict(d)' = HasVerdict(d)
      /\ Stopped(d)' = Stopped(d) /\ OutputTrue(loc'[d]) = OutputTrue(loc[d])
  BY <1>3 DEF HasOutput, HasVerdict, Stopped
<1> QED
  BY <1>2, <1>3, <1>4 DEF CallOK

\* The result is about the output alone, whatever the other locals are.
LEMMA OutputSame ==
  ASSUME NEW l, NEW m, l.log = m.log, l.kept = m.kept, l.truncated = m.truncated, OutputTrue(l)
  PROVE  OutputTrue(m)
  BY DEF OutputTrue

LEMMA NoLocalsType == NoLocals \in Locals /\ NoLocals.oom = FALSE /\ NoLocals.reads = 0
<1> DEFINE nolog == <<<<>>, <<>>>>
           nokept == <<0, 0>>
<1>1. <<>> \in Seq(Nat)
  OBVIOUS
<1>2. nolog \in Seq(Nat) \X Seq(Nat) /\ nokept \in Nat \X Nat
  BY <1>1
<1>3. 0 \in 0..OOM_RECHECKS
  BY ConstantsAssumption
<1>4. NoLocals = [asked |-> FALSE, timedOut |-> FALSE, exit |-> 0, oom |-> FALSE, reads |-> 0,
                  failing |-> FALSE, log |-> nolog, kept |-> nokept, truncated |-> FALSE]
  BY DEF NoLocals
<1> HIDE DEF nolog, nokept
<1> QED
  BY <1>2, <1>3, <1>4 DEF Locals

\* The locals with which a call starts over.
LEMMA ForgetType ==
  ASSUME Typed, NEW c \in Calls, Forget(c)
  PROVE  /\ loc' \in [Calls -> Locals]
         /\ \A d \in Calls \ {c} : loc'[d] = loc[d]
         /\ loc'[c].oom = FALSE /\ loc'[c].reads = 0
         /\ \E l \in Locals : loc' = [loc EXCEPT ![c] = l]
<1> DEFINE l == [NoLocals EXCEPT !.asked = loc[c].asked]
<1>1. loc[c].asked \in BOOLEAN
  BY DEF Typed, Locals
<1>6. l \in Locals /\ l.oom = FALSE /\ l.reads = 0
  BY <1>1, NoLocalsType DEF Locals
<1>7. loc' = [loc EXCEPT ![c] = l]
  BY DEF Forget
<1> HIDE DEF l
<1> QED
  BY <1>6, <1>7 DEF Typed

\* A step of call c that gives it new locals l, container b and place p keeps the
\* types.
LEMMA CallTyped ==
  ASSUME Typed, NEW c \in Calls, Leave, DaemonError(c) \/ NoError,
         \/ pc' = pc
         \/ \E p \in PCs : pc' = [pc EXCEPT ![c] = p],
         \/ loc' = loc
         \/ \E l \in Locals : loc' = [loc EXCEPT ![c] = l],
         \/ box' = box
         \/ \E b \in Box : box' = [box EXCEPT ![c] = b]
  PROVE  Typed' /\ OthersStay(c) /\ ErrorsStay
<1>1. erred' \in Seq(Calls \X PCs) /\ ErrorsStay
  BY ErrorLogged
<1>2. pc' \in [Calls -> PCs] /\ \A d \in Calls \ {c} : pc'[d] = pc[d]
  BY DEF Typed
<1>3. loc' \in [Calls -> Locals] /\ \A d \in Calls \ {c} : loc'[d] = loc[d]
  BY DEF Typed
<1>4. box' \in [Calls -> Box] /\ \A d \in Calls \ {c} : box'[d] = box[d]
  BY DEF Typed
<1> QED
  BY <1>1, <1>2, <1>3, <1>4 DEF Typed, OthersStay, Leave

\* The request for a container, and the answers to it.
LEMMA CreateOK ==
  ASSUME SandboxInv, NEW c \in Calls,
         Request(c) \/ DaemonCreates(c) \/ Created(c) \/ CreateRaises(c)
  PROVE  Typed' /\ OthersStay(c) /\ ErrorsStay /\ CallOK(c)'
<1>0. Typed /\ CallOK(c) /\ loc[c] \in Locals /\ box[c] \in Box /\ pc[c] \in PCs
  BY DEF SandboxInv, Typed
<1>1. CASE Request(c)
  <2>1. loc' = [loc EXCEPT ![c] = [loc[c] EXCEPT !.asked = TRUE]]
    BY <1>1 DEF Request
  <2>2. [loc[c] EXCEPT !.asked = TRUE] \in Locals
    BY <1>0 DEF Locals
  <2>3. "create" \in PCs /\ pc' = [pc EXCEPT ![c] = "create"] /\ pc[c] = "idle" /\ box' = box
        /\ Leave /\ NoError
    BY <1>1 DEF Request, Goto, PCs
  <2>4. Typed' /\ OthersStay(c) /\ ErrorsStay
    BY <1>0, <2>1, <2>2, <2>3, CallTyped
  <2>5. loc'[c].oom = loc[c].oom /\ loc'[c].reads = loc[c].reads /\ pc'[c] = "create"
    BY <1>0, <2>1, <2>3 DEF Typed, Locals
  <2> QED
    BY <1>0, <2>3, <2>4, <2>5 DEF CallOK, Knows, HasOutput, HasVerdict, Stopped
<1>2. CASE DaemonCreates(c)
  <2>1. box' = [box EXCEPT ![c] = [box[c] EXCEPT !.st = "created"]]
    BY <1>2 DEF DaemonCreates
  <2>2. [box[c] EXCEPT !.st = "created"] \in Box
    BY <1>0 DEF Box
  <2>3. pc' = pc /\ loc' = loc /\ Leave /\ NoError /\ box[c].st = "none"
    BY <1>2 DEF DaemonCreates
  <2>4. Typed' /\ OthersStay(c) /\ ErrorsStay
    BY <1>0, <2>1, <2>2, <2>3, CallTyped
  <2>5. pc[c] \in {"idle", "create", "raised", "crashed"} /\ ~loc[c].oom
    BY <1>0, <2>3 DEF CallOK, Stopped
  <2>6. ErredAt(c, {"create", "remove"}) => ErredAt(c, {"create", "remove"})'
    BY <2>4 DEF ErrorsStay, PCs
  <2> QED
    BY <1>0, <2>3, <2>4, <2>5, <2>6 DEF CallOK, Knows, HasOutput, HasVerdict
<1>3. CASE Created(c)
  <2>1. "start" \in PCs /\ pc' = [pc EXCEPT ![c] = "start"] /\ pc[c] = "create" /\ box' = box
        /\ loc' = loc /\ Leave /\ NoError /\ box[c].st # "none"
    BY <1>3 DEF Created, Goto, PCs
  <2>2. Typed' /\ OthersStay(c) /\ ErrorsStay
    BY <1>0, <2>1, CallTyped
  <2>3. pc'[c] = "start"
    BY <1>0, <2>1 DEF Typed
  <2> QED
    BY <1>0, <2>1, <2>2, <2>3 DEF CallOK, Knows, HasOutput, HasVerdict, Stopped
<1>4. CASE CreateRaises(c)
  <2>1. "raised" \in PCs /\ pc' = [pc EXCEPT ![c] = "raised"] /\ pc[c] = "create" /\ box' = box
        /\ loc' = loc /\ Leave /\ DaemonError(c)
    BY <1>4 DEF CreateRaises, Goto, PCs, Over
  <2>2. Typed' /\ OthersStay(c) /\ ErrorsStay
    BY <1>0, <2>1, CallTyped
  <2>3. pc'[c] = "raised"
    BY <1>0, <2>1 DEF Typed
  <2>4. ErredAt(c, {"create", "remove"})'
    <3>1. {"create", "remove"} \in SUBSET PCs
      BY DEF PCs
    <3> QED
      BY <1>0, <2>1, <3>1, ErrorLogged
  <2> QED
    BY <1>0, <2>1, <2>2, <2>3, <2>4 DEF CallOK, Knows, HasOutput, HasVerdict, Stopped
<1> QED
  BY <1>1, <1>2, <1>3, <1>4

\* An exception inside the try: the call no longer has a result to give, and its
\* container is as it was, or was started by the request that failed.
LEMMA RaiseOK ==
  ASSUME SandboxInv, NEW c \in Calls, Leave, DaemonError(c) \/ NoError,
         NEW from \in {"start", "wait", "kill", "wait2", "collect", "reload", "recheck"},
         Raise(c, from) \/ RaiseInPool(c, from),
         \/ box' = box
         \/ box[c].st = "created" /\ box' = [box EXCEPT ![c].st = "running"]
  PROVE  Typed' /\ OthersStay(c) /\ ErrorsStay /\ CallOK(c)'
<1>0. Typed /\ CallOK(c) /\ loc[c] \in Locals /\ box[c] \in Box /\ pc[c] \in PCs
  BY DEF SandboxInv, Typed
<1>1. PICK p \in {"remove", "drain"} : pc[c] = from /\ pc' = [pc EXCEPT ![c] = p]
  BY DEF Raise, RaiseInPool, Goto
<1>2. loc' = [loc EXCEPT ![c] = [loc[c] EXCEPT !.failing = TRUE]]
  BY DEF Raise, RaiseInPool
<1>3. [loc[c] EXCEPT !.failing = TRUE] \in Locals /\ p \in PCs
  BY <1>0 DEF Locals, PCs
<1>4. [box[c] EXCEPT !.st = "running"] \in Box
  BY <1>0 DEF Box
<1>5. \/ box' = box
      \/ box[c].st = "created" /\ box' = [box EXCEPT ![c] = [box[c] EXCEPT !.st = "running"]]
  OBVIOUS
<1>6. Typed' /\ OthersStay(c) /\ ErrorsStay
  BY <1>0, <1>1, <1>2, <1>3, <1>4, <1>5, CallTyped
<1>7. pc'[c] = p /\ loc'[c].failing = TRUE /\ loc'[c].oom = loc[c].oom
  BY <1>0, <1>1, <1>2 DEF Typed, Locals
<1>8. box'[c] = box[c] \/ (box[c].st = "created" /\ box'[c].st = "running")
  <2>1. CASE box' = box
    BY <2>1
  <2>2. CASE box[c].st = "created" /\ box' = [box EXCEPT ![c] = [box[c] EXCEPT !.st = "running"]]
    BY <1>0, <2>2 DEF Typed, Box
  <2> QED
    BY <1>5, <2>1, <2>2
<1>9. box[c].st # "none"
  BY <1>0, <1>1 DEF CallOK
<1> QED
  BY <1>0, <1>1, <1>6, <1>7, <1>8, <1>9 DEF CallOK, Knows, HasOutput, HasVerdict, Stopped

\* container.start, container.wait and its timeout, _kill.
LEMMA WaitOK ==
  ASSUME SandboxInv, NEW c \in Calls,
         Start(c) \/ Wait(c, "wait") \/ WaitTimesOut(c) \/ Kill(c) \/ Wait(c, "wait2")
  PROVE  Typed' /\ OthersStay(c) /\ ErrorsStay /\ CallOK(c)'
<1>0. Typed /\ CallOK(c) /\ loc[c] \in Locals /\ box[c] \in Box /\ pc[c] \in PCs
  BY DEF SandboxInv, Typed
<1>1. CASE Start(c)
  <2>1. CASE Raise(c, "start")
    <3>1. Leave /\ (DaemonError(c) \/ NoError)
          /\ \/ box' = box
             \/ box[c].st = "created" /\ box' = [box EXCEPT ![c].st = "running"]
      BY <1>1 DEF Start
    <3> QED
      BY <2>1, <3>1, RaiseOK
  <2>2. CASE ~Raise(c, "start")
    <3>1. /\ box[c].st = "created" /\ pc[c] = "start" /\ pc' = [pc EXCEPT ![c] = "wait"]
          /\ loc' = loc /\ Leave /\ NoError
          /\ box' = [box EXCEPT ![c] = [box[c] EXCEPT !.st = "running"]]
      BY <1>1, <2>2 DEF Start, Goto
    <3>2. [box[c] EXCEPT !.st = "running"] \in Box /\ "wait" \in PCs
      BY <1>0 DEF Box, PCs
    <3>3. Typed' /\ OthersStay(c) /\ ErrorsStay
      BY <1>0, <3>1, <3>2, CallTyped
    <3>4. pc'[c] = "wait" /\ box'[c].st = "running"
      BY <1>0, <3>1, <3>2 DEF Typed, Box
    <3> QED
      BY <1>0, <3>1, <3>3, <3>4 DEF CallOK, Knows, HasOutput, HasVerdict, Stopped
  <2> QED
    BY <2>1, <2>2
<1>2. ASSUME NEW from \in {"wait", "wait2"}, Wait(c, from)
      PROVE  Typed' /\ OthersStay(c) /\ ErrorsStay /\ CallOK(c)'
  <2>1. CASE RaiseInPool(c, from)
    <3>1. Leave /\ (DaemonError(c) \/ NoError) /\ box' = box
      BY <1>2 DEF Wait
    <3> QED
      BY <2>1, <3>1, RaiseOK
  <2>2. CASE ~RaiseInPool(c, from)
    <3>1. /\ Stopped(c) /\ pc[c] = from /\ pc' = [pc EXCEPT ![c] = "collect"]
          /\ box' = box /\ Leave /\ NoError
          /\ loc' = [loc EXCEPT ![c] = [loc[c] EXCEPT !.exit = box[c].exit]]
      BY <1>2, <2>2 DEF Wait, Goto
    <3>2. [loc[c] EXCEPT !.exit = box[c].exit] \in Locals /\ "collect" \in PCs
      BY <1>0 DEF Locals, Box, PCs
    <3>3. Typed' /\ OthersStay(c) /\ ErrorsStay
      BY <1>0, <3>1, <3>2, CallTyped
    <3>4. /\ pc'[c] = "collect" /\ loc'[c].exit = box[c].exit /\ loc'[c].oom = loc[c].oom
          /\ loc'[c].reads = loc[c].reads
      BY <1>0, <3>1, <3>2 DEF Typed, Locals
    <3> QED
      BY <1>0, <3>1, <3>3, <3>4 DEF CallOK, Knows, HasOutput, HasVerdict, Stopped
  <2> QED
    BY <2>1, <2>2
<1>3. CASE WaitTimesOut(c)
  <2>1. /\ pc[c] = "wait" /\ pc' = [pc EXCEPT ![c] = "kill"]
        /\ box' = box /\ Leave /\ NoError
        /\ loc' = [loc EXCEPT ![c] = [loc[c] EXCEPT !.timedOut = TRUE]]
    BY <1>3 DEF WaitTimesOut, Goto
  <2>2. [loc[c] EXCEPT !.timedOut = TRUE] \in Locals /\ "kill" \in PCs
    BY <1>0 DEF Locals, PCs
  <2>3. Typed' /\ OthersStay(c) /\ ErrorsStay
    BY <1>0, <2>1, <2>2, CallTyped
  <2>4. pc'[c] = "kill" /\ loc'[c].oom = loc[c].oom /\ loc'[c].reads = loc[c].reads
    BY <1>0, <2>1, <2>2 DEF Typed, Locals
  <2> QED
    BY <1>0, <2>1, <2>3, <2>4 DEF CallOK, Knows, HasOutput, HasVerdict, Stopped
<1>4. CASE Kill(c)
  <2>1. CASE RaiseInPool(c, "kill")
    <3>1. Leave /\ (DaemonError(c) \/ NoError) /\ box' = box
      <4>1. pc' # [pc EXCEPT ![c] = "wait2"]
        BY <1>0, <2>1 DEF RaiseInPool, Goto, Typed
      <4> QED
        BY <1>4, <4>1 DEF Kill, Goto
    <3> QED
      BY <2>1, <3>1, RaiseOK
  <2>2. CASE ~RaiseInPool(c, "kill")
    <3> DEFINE b == [st |-> "exited", exit |-> 137, hit |-> FALSE, late |-> 0]
    <3>1. /\ pc[c] = "kill" /\ pc' = [pc EXCEPT ![c] = "wait2"]
          /\ loc' = loc /\ Leave /\ (DaemonError(c) \/ NoError)
          /\ box' = box \/ (box[c].st = "running" /\ box' = [box EXCEPT ![c] = b])
      BY <1>4, <2>2 DEF Kill, Goto, Killed, Ends
    <3>2. b \in Box /\ "wait2" \in PCs /\ b.st = "exited"
      BY ConstantsAssumption DEF Box, PCs
    <3> HIDE DEF b
    <3>3. Typed' /\ OthersStay(c) /\ ErrorsStay
      BY <1>0, <3>1, <3>2, CallTyped
    <3>4. pc'[c] = "wait2" /\ (box'[c] = box[c] \/ (box[c].st = "running" /\ box'[c].st = "exited"))
      <4>1. CASE box' = box
        BY <1>0, <3>1, <4>1 DEF Typed
      <4>2. CASE box[c].st = "running" /\ box' = [box EXCEPT ![c] = b]
        BY <1>0, <3>1, <3>2, <4>2 DEF Typed
      <4> QED
        BY <3>1, <4>1, <4>2
    <3> QED
      BY <1>0, <3>1, <3>3, <3>4 DEF CallOK, Knows, HasOutput, HasVerdict, Stopped
  <2> QED
    BY <2>1, <2>2
<1> QED
  BY <1>1, <1>2, <1>3, <1>4

\* out_f.result() and err_f.result(): the result has the head of what was printed.
LEMMA CollectOK ==
  ASSUME SandboxInv, NEW c \in Calls, Collect(c)
  PROVE  Typed' /\ OthersStay(c) /\ ErrorsStay /\ CallOK(c)'
<1>0. Typed /\ CallOK(c) /\ loc[c] \in Locals /\ box[c] \in Box /\ pc[c] \in PCs
  BY DEF SandboxInv, Typed
<1>1. CASE Raise(c, "collect")
  <2>1. Leave /\ (DaemonError(c) \/ NoError) /\ box' = box
    BY DEF Collect
  <2> QED
    BY <1>1, <2>1, RaiseOK
<1>2. CASE ~Raise(c, "collect")
  <2>1. /\ pc[c] = "collect" /\ pc' = [pc EXCEPT ![c] = "reload"]
        /\ Stopped(c) /\ box' = box /\ Leave /\ NoError
    BY <1>2 DEF Collect, Goto
  <2>2. PICK log \in Outputs :
          LET cap == [i \in 1..2 |-> Capture(log[i])] IN
            loc' = [loc EXCEPT ![c].log = log, ![c].kept = <<cap[1].buf, cap[2].buf>>,
                               ![c].truncated = \E i \in 1..2 : cap[i].total > Limit]
    BY <1>2 DEF Collect
  <2>3. log \in Seq(Nat) \X Seq(Nat) /\ log[1] \in Seq(Nat) /\ log[2] \in Seq(Nat)
    BY ConstantsAssumption
  <2> DEFINE kept == <<Capture(log[1]).buf, Capture(log[2]).buf>>
             cut == \E i \in 1..2 : Capture(log[i]).total > Limit
             l == [loc[c] EXCEPT !.log = log, !.kept = kept, !.truncated = cut]
  <2>4. \A i \in 1..2 : /\ Printed(log[i]) \in Nat
                        /\ Capture(log[i]).total = Printed(log[i])
                        /\ Capture(log[i]).buf =
                             IF Printed(log[i]) < Limit THEN Printed(log[i]) ELSE Limit
    BY <2>3, CaptureKeepsHead
  <2>5. Limit \in Nat
    BY ConstantsAssumption
  <2>6. kept \in Nat \X Nat /\ cut \in BOOLEAN /\ \A i \in 1..2 : kept[i] = Capture(log[i]).buf
    BY <2>4, <2>5
  <2>7. cut = (\E i \in 1..2 : kept[i] < Printed(log[i]))
    BY <2>4, <2>5, <2>6
  <2>8. loc' = [loc EXCEPT ![c].log = log, ![c].kept = kept, ![c].truncated = cut]
    BY <2>2
  <2> HIDE DEF kept, cut
  <2>9. loc' = [loc EXCEPT ![c] = l]
    BY <1>0, <2>8 DEF Typed
  <2>10. /\ l \in Locals /\ l.log = log /\ l.kept = kept /\ l.truncated = cut
         /\ l.exit = loc[c].exit /\ l.oom = loc[c].oom /\ l.reads = loc[c].reads
    BY <1>0, <2>3, <2>6 DEF Locals
  <2> HIDE DEF l
  <2>11. OutputTrue(l)
    BY <2>4, <2>6, <2>7, <2>10 DEF OutputTrue
  <2>12. "reload" \in PCs
    BY DEF PCs
  <2>13. Typed' /\ OthersStay(c) /\ ErrorsStay
    BY <1>0, <2>1, <2>9, <2>10, <2>12, CallTyped
  <2>14. pc'[c] = "reload" /\ loc'[c] = l /\ box'[c] = box[c]
    BY <1>0, <2>1, <2>9 DEF Typed
  <2> QED
    BY <1>0, <2>1, <2>10, <2>11, <2>13, <2>14
    DEF CallOK, Knows, HasOutput, HasVerdict, Stopped
<1> QED
  BY <1>1, <1>2

\* The rest of run(): the pool's exit, _oom_killed and _remove.
LEMMA DrainOK ==
  ASSUME SandboxInv, NEW c \in Calls, Drain(c)
  PROVE  Typed' /\ OthersStay(c) /\ ErrorsStay /\ CallOK(c)'
<1>0. Typed /\ CallOK(c) /\ loc[c] \in Locals /\ box[c] \in Box /\ pc[c] \in PCs
  BY DEF SandboxInv, Typed
<1>1. /\ pc[c] = "drain" /\ pc' = [pc EXCEPT ![c] = "remove"] /\ box' = box /\ loc' = loc
      /\ Leave /\ NoError /\ "remove" \in PCs
  BY DEF Drain, Goto, PCs
<1>2. Typed' /\ OthersStay(c) /\ ErrorsStay
  BY <1>0, <1>1, CallTyped
<1>3. pc'[c] = "remove"
  BY <1>0, <1>1 DEF Typed
<1> QED
  BY <1>0, <1>1, <1>2, <1>3 DEF CallOK, Knows, HasOutput, HasVerdict, Stopped

\* The locals with another flag, and another number of reads.
LEMMA LocalsType ==
  ASSUME NEW l \in Locals, NEW f \in BOOLEAN, NEW n \in 0..OOM_RECHECKS
  PROVE  [l EXCEPT !.oom = f] \in Locals /\ [l EXCEPT !.reads = n, !.oom = f] \in Locals
<1>1. [l EXCEPT !.oom = TRUE] \in Locals /\ [l EXCEPT !.oom = FALSE] \in Locals
  BY DEF Locals
<1>2. /\ [l EXCEPT !.reads = n, !.oom = TRUE] \in Locals
      /\ [l EXCEPT !.reads = n, !.oom = FALSE] \in Locals
  BY DEF Locals
<1> QED
  BY <1>1, <1>2, Zenon

\* _oom_killed's first read.
LEMMA ReloadOK ==
  ASSUME SandboxInv, NEW c \in Calls, Reload(c)
  PROVE  Typed' /\ OthersStay(c) /\ ErrorsStay /\ CallOK(c)'
<1>0. Typed /\ CallOK(c) /\ loc[c] \in Locals /\ box[c] \in Box /\ pc[c] \in PCs
  BY DEF SandboxInv, Typed
<1>1. CASE Raise(c, "reload")
  <2>1. Leave /\ (DaemonError(c) \/ NoError) /\ box' = box
    BY DEF Reload
  <2> QED
    BY <1>1, <2>1, RaiseOK
<1>2. CASE ~Raise(c, "reload")
  <2> DEFINE p == IF Flag(box[c]) \/ loc[c].exit # 137 \/ loc[c].timedOut
                  THEN "remove" ELSE "recheck"
             f == Flag(box[c])
             l == [loc[c] EXCEPT !.oom = f]
  <2>1. /\ pc[c] = "reload" /\ pc' = [pc EXCEPT ![c] = p] /\ loc' = [loc EXCEPT ![c].oom = f]
        /\ box' = box /\ Leave /\ NoError
    BY <1>2 DEF Reload, Goto
  <2>2. /\ f \in BOOLEAN /\ f = (box[c].hit /\ box[c].late = 0)
        /\ p \in PCs /\ p \in {"remove", "recheck"}
        /\ p = "remove" /\ box[c].hit /\ loc[c].exit = 137 /\ ~loc[c].timedOut => f
    BY <1>0 DEF Flag, Box, PCs
  <2> HIDE DEF p, f
  <2>3. l \in Locals /\ loc' = [loc EXCEPT ![c] = l]
    <3>0. 0 \in 0..OOM_RECHECKS
      BY ConstantsAssumption
    <3>1. loc' = [loc EXCEPT ![c] = l]
      BY <2>1
    <3>2. l \in Locals
      BY <1>0, <2>2, <3>0, LocalsType
    <3> QED
      BY <3>1, <3>2
  <2>4. Typed' /\ OthersStay(c) /\ ErrorsStay
    BY <1>0, <2>1, <2>2, <2>3, CallTyped
  <2>5. pc'[c] = p /\ loc'[c] = l /\ box'[c] = box[c]
    BY <1>0, <2>1, <2>3 DEF Typed
  <2>6. /\ l.oom = f /\ l.exit = loc[c].exit /\ l.reads = loc[c].reads
        /\ l.timedOut = loc[c].timedOut /\ l.log = loc[c].log /\ l.kept = loc[c].kept
        /\ l.truncated = loc[c].truncated /\ l.failing = loc[c].failing
    BY <1>0 DEF Locals
  <2>7. OutputTrue(l)
    BY <1>0, <2>1, <2>6, OutputSame DEF CallOK, HasOutput, Knows
  <2>8. Stopped(c) /\ loc[c].exit = box[c].exit /\ loc[c].reads = 0 /\ box[c].st # "none"
    BY <1>0, <2>1 DEF CallOK, Knows, Stopped
  <2>9. l.reads + box[c].late <= OOM_RECHECKS
    BY <1>0, <2>6, <2>8, ConstantsAssumption DEF Box
  <2> HIDE DEF l
  <2> QED
    BY <2>2, <2>4, <2>5, <2>6, <2>7, <2>8, <2>9
    DEF CallOK, Knows, HasOutput, HasVerdict, Stopped
<1> QED
  BY <1>1, <1>2

\* Its further reads: the flag is late by no more intervals than are left.
LEMMA RecheckOK ==
  ASSUME SandboxInv, NEW c \in Calls, Recheck(c)
  PROVE  Typed' /\ OthersStay(c) /\ ErrorsStay /\ CallOK(c)'
<1>0. Typed /\ CallOK(c) /\ loc[c] \in Locals /\ box[c] \in Box /\ pc[c] \in PCs
  BY DEF SandboxInv, Typed
<1>1. CASE Raise(c, "recheck") /\ Leave /\ (DaemonError(c) \/ NoError) /\ box' = box
  BY <1>1, RaiseOK
<1>2. CASE ~(Raise(c, "recheck") /\ Leave /\ (DaemonError(c) \/ NoError) /\ box' = box)
  <2> DEFINE late == IF box[c].late = 0 THEN 0 ELSE box[c].late - 1
             b == [box[c] EXCEPT !.late = late]
             n == loc[c].reads + 1
             f == Flag(b)
             p == IF f \/ n = OOM_RECHECKS THEN "remove" ELSE "recheck"
             l == [loc[c] EXCEPT !.reads = n, !.oom = f]
  <2>1. /\ pc[c] = "recheck" /\ pc' = [pc EXCEPT ![c] = p] /\ loc[c].reads < OOM_RECHECKS
        /\ loc' = [loc EXCEPT ![c].reads = n, ![c].oom = f]
        /\ box' = [box EXCEPT ![c] = b] /\ Leave /\ NoError
    BY <1>2 DEF Recheck, Goto
  <2>2. /\ loc[c].reads + box[c].late <= OOM_RECHECKS
        /\ Stopped(c) /\ loc[c].exit = box[c].exit /\ box[c].st # "none" /\ OutputTrue(loc[c])
    BY <1>0, <2>1 DEF CallOK, Knows, HasOutput, Stopped
  <2>3. /\ late \in 0..MaxOomDelay /\ n \in 0..OOM_RECHECKS /\ n + late <= OOM_RECHECKS
        /\ n = OOM_RECHECKS => late = 0
    <3>1. /\ loc[c].reads \in Nat /\ box[c].late \in Nat /\ OOM_RECHECKS \in Nat
          /\ MaxOomDelay \in Nat /\ box[c].late <= MaxOomDelay
      BY <1>0, ConstantsAssumption DEF Box, Locals
    <3> QED
      BY <2>1, <2>2, <3>1
  <2> HIDE DEF late, n
  <2>4. /\ b \in Box /\ b.late = late /\ b.st = box[c].st /\ b.exit = box[c].exit
        /\ b.hit = box[c].hit
    BY <1>0, <2>3 DEF Box
  <2> HIDE DEF b
  <2>5. /\ f \in BOOLEAN /\ f = (b.hit /\ b.late = 0)
        /\ p \in PCs /\ p \in {"remove", "recheck"}
        /\ p = "remove" /\ b.hit => f
    BY <2>3, <2>4 DEF Flag, Box, PCs
  <2> HIDE DEF p, f
  <2>6. l \in Locals /\ loc' = [loc EXCEPT ![c] = l]
    <3>1. loc' = [loc EXCEPT ![c] = l]
      BY <1>0, <2>1 DEF Typed
    <3>2. l \in Locals
      BY <1>0, <2>3, <2>5, LocalsType
    <3> QED
      BY <3>1, <3>2
  <2>7. Typed' /\ OthersStay(c) /\ ErrorsStay
    BY <1>0, <2>1, <2>4, <2>5, <2>6, CallTyped
  <2>8. pc'[c] = p /\ loc'[c] = l /\ box'[c] = b
    BY <1>0, <2>1, <2>6 DEF Typed
  <2>9. /\ l.oom = f /\ l.exit = loc[c].exit /\ l.reads = n
        /\ l.timedOut = loc[c].timedOut /\ l.log = loc[c].log /\ l.kept = loc[c].kept
        /\ l.truncated = loc[c].truncated /\ l.failing = loc[c].failing
    BY <1>0 DEF Locals
  <2>10. OutputTrue(l)
    BY <2>2, <2>9, OutputSame
  <2> HIDE DEF l
  <2> QED
    BY <2>2, <2>3, <2>4, <2>5, <2>7, <2>8, <2>9, <2>10
    DEF CallOK, Knows, HasOutput, HasVerdict, Stopped
<1> QED
  BY <1>1, <1>2

\* A removed container ends as a killed one, unless it had ended already.
LEMMA RemovedType ==
  ASSUME Typed, NEW c \in Calls, box' = Removed(c)
  PROVE  \E b \in Box : /\ box' = [box EXCEPT ![c] = b]
                        /\ b.st = "gone" /\ b.hit = box[c].hit /\ b.late = box[c].late
                        /\ box[c].st # "running" => b.exit = box[c].exit
<1>0. box[c] \in Box
  BY DEF Typed
<1>1. CASE box[c].st = "running"
  <2> DEFINE b == [box[c] EXCEPT !.st = "gone", !.exit = 137]
  <2>1. box' = [box EXCEPT ![c] = b]
    BY <1>1 DEF Removed, Typed
  <2>2. b \in Box /\ b.st = "gone" /\ b.hit = box[c].hit /\ b.late = box[c].late
    BY <1>0 DEF Box
  <2> HIDE DEF b
  <2> QED
    BY <1>1, <2>1, <2>2
<1>2. CASE box[c].st # "running"
  <2> DEFINE b == [box[c] EXCEPT !.st = "gone"]
  <2>1. box' = [box EXCEPT ![c] = b]
    BY <1>2 DEF Removed
  <2>2. /\ b \in Box /\ b.st = "gone" /\ b.hit = box[c].hit /\ b.late = box[c].late
        /\ b.exit = box[c].exit
    BY <1>0 DEF Box
  <2> HIDE DEF b
  <2> QED
    BY <2>1, <2>2
<1> QED
  BY <1>1, <1>2

\* run()'s finally.
LEMMA RemoveOK ==
  ASSUME SandboxInv, NEW c \in Calls, RemoveBox(c)
  PROVE  Typed' /\ OthersStay(c) /\ ErrorsStay /\ CallOK(c)'
<1>0. Typed /\ CallOK(c) /\ loc[c] \in Locals /\ box[c] \in Box /\ pc[c] \in PCs
  BY DEF SandboxInv, Typed
<1>1. Leave /\ "returned" \in PCs /\ "raised" \in PCs
  BY DEF RemoveBox, PCs, Over
<1>2. CASE /\ ~loc[c].failing /\ Goto(c, "remove", "returned")
           /\ box' = Removed(c) /\ UNCHANGED loc /\ NoError
  <2>1. PICK b \in Box : /\ box' = [box EXCEPT ![c] = b]
                         /\ b.st = "gone" /\ b.hit = box[c].hit /\ b.late = box[c].late
                         /\ box[c].st # "running" => b.exit = box[c].exit
    BY <1>0, <1>2, RemovedType
  <2>2. pc[c] = "remove" /\ pc' = [pc EXCEPT ![c] = "returned"] /\ loc' = loc /\ ~loc[c].failing
    BY <1>2 DEF Goto
  <2>3. Typed' /\ OthersStay(c) /\ ErrorsStay
    BY <1>0, <1>1, <1>2, <2>1, <2>2, CallTyped
  <2>4. pc'[c] = "returned" /\ box'[c] = b
    BY <1>0, <2>1, <2>2 DEF Typed
  <2> QED
    BY <1>0, <2>1, <2>2, <2>3, <2>4 DEF CallOK, Knows, HasOutput, HasVerdict, Stopped
<1>3. CASE /\ Goto(c, "remove", "raised") /\ Forget(c)
           /\ \/ loc[c].failing /\ box' = Removed(c) /\ NoError
              \/ DaemonError(c) /\ UNCHANGED box
  <2>1. pc[c] = "remove" /\ pc' = [pc EXCEPT ![c] = "raised"]
    BY <1>3 DEF Goto
  <2>2. /\ \E l \in Locals : loc' = [loc EXCEPT ![c] = l]
        /\ loc'[c].oom = FALSE /\ loc'[c].reads = 0
    BY <1>0, <1>3, ForgetType
  <2>3. CASE box' = Removed(c) /\ NoError
    <3>1. PICK b \in Box : box' = [box EXCEPT ![c] = b] /\ b.st = "gone"
      BY <1>0, <2>3, RemovedType
    <3>2. Typed' /\ OthersStay(c) /\ ErrorsStay
      BY <1>0, <1>1, <2>1, <2>2, <2>3, <3>1, CallTyped
    <3>3. pc'[c] = "raised" /\ box'[c] = b
      BY <1>0, <2>1, <3>1 DEF Typed
    <3> QED
      BY <2>2, <3>1, <3>2, <3>3 DEF CallOK, Knows, HasOutput, HasVerdict, Stopped
  <2>4. CASE DaemonError(c) /\ UNCHANGED box
    <3>1. {"create", "remove"} \in SUBSET PCs
      BY DEF PCs
    <3>2. ErredAt(c, {"create", "remove"})'
      BY <1>0, <2>1, <2>4, <3>1, ErrorLogged
    <3>3. Typed' /\ OthersStay(c) /\ ErrorsStay
      BY <1>0, <1>1, <2>1, <2>2, <2>4, CallTyped
    <3>4. pc'[c] = "raised"
      BY <1>0, <2>1 DEF Typed
    <3> QED
      BY <2>2, <3>2, <3>3, <3>4 DEF CallOK, Knows, HasOutput, HasVerdict, Stopped
  <2> QED
    BY <1>3, <2>3, <2>4
<1> QED
  BY <1>2, <1>3 DEF RemoveBox

\* The container's own end, and `docker kill`.
LEMMA EndOK ==
  ASSUME SandboxInv, NEW c \in Calls, ProgramEnds(c) \/ DockerKill(c)
  PROVE  /\ Typed' /\ OthersStay(c) /\ ErrorsStay /\ CallOK(c)'
         /\ pc' = pc /\ box'[c].st # "running"
<1>0. Typed /\ CallOK(c) /\ loc[c] \in Locals /\ box[c] \in Box /\ pc[c] \in PCs
  BY DEF SandboxInv, Typed
<1>1. PICK exit \in {0, 137}, hit \in BOOLEAN, late \in 0..MaxOomDelay : Ends(c, exit, hit, late)
  <2>1. 0 \in 0..MaxOomDelay /\ 0..0 \subseteq 0..MaxOomDelay
    BY ConstantsAssumption
  <2>2. CASE ProgramEnds(c)
    <3>1. PICK exit \in {0, 137}, hit \in BOOLEAN :
            \E late \in 0..(IF hit THEN MaxOomDelay ELSE 0) : Ends(c, exit, hit, late)
      BY <2>2 DEF ProgramEnds
    <3>2. 0..(IF hit THEN MaxOomDelay ELSE 0) \subseteq 0..MaxOomDelay
      BY <2>1
    <3> QED
      BY <3>1, <3>2, Zenon
  <2>3. CASE DockerKill(c)
    BY <2>1, <2>3, Zenon DEF DockerKill, Killed
  <2> QED
    BY <2>2, <2>3
<1> DEFINE b == [st |-> "exited", exit |-> exit, hit |-> hit, late |-> late]
<1>2. box' = [box EXCEPT ![c] = b]
  BY <1>1 DEF Ends
<1>3. b \in Box /\ b.st = "exited"
  <2>1. /\ [st |-> "exited", exit |-> exit, hit |-> TRUE, late |-> late] \in Box
        /\ [st |-> "exited", exit |-> exit, hit |-> FALSE, late |-> late] \in Box
    BY DEF Box
  <2>2. b \in Box
    BY <2>1, Zenon
  <2> QED
    BY <2>2
<1> HIDE DEF b
<1>4. box[c].st = "running" /\ pc' = pc /\ loc' = loc /\ Leave /\ NoError
  BY DEF ProgramEnds, DockerKill
<1>5. Typed' /\ OthersStay(c) /\ ErrorsStay
  BY <1>0, <1>2, <1>3, <1>4, CallTyped
<1>6. box'[c] = b
  BY <1>0, <1>2 DEF Typed
<1>7. {"create", "remove"} \in SUBSET PCs
  BY DEF PCs
<1>8. ErredAt(c, {"create", "remove"}) => ErredAt(c, {"create", "remove"})'
  BY <1>5, <1>7 DEF ErrorsStay
<1> QED
  BY <1>0, <1>3, <1>4, <1>5, <1>6, <1>8 DEF CallOK, Knows, HasOutput, HasVerdict, Stopped

\* A worker's death.
LEMMA DiesOK ==
  ASSUME SandboxInv, NEW c \in Calls, Dies(c), Leave
  PROVE  Typed' /\ OthersStay(c) /\ ErrorsStay /\ CallOK(c)'
<1>0. Typed /\ CallOK(c) /\ loc[c] \in Locals /\ box[c] \in Box /\ pc[c] \in PCs
  BY DEF SandboxInv, Typed
<1>1. /\ pc' = [pc EXCEPT ![c] = "crashed"] /\ Forget(c) /\ box' = box /\ NoError
      /\ "crashed" \in PCs
  BY DEF Dies, PCs, Over
<1>2. /\ \E l \in Locals : loc' = [loc EXCEPT ![c] = l]
      /\ loc'[c].oom = FALSE /\ loc'[c].reads = 0
  BY <1>0, <1>1, ForgetType
<1>3. Typed' /\ OthersStay(c) /\ ErrorsStay
  BY <1>0, <1>1, <1>2, CallTyped
<1>4. pc'[c] = "crashed"
  BY <1>0, <1>1 DEF Typed
<1> QED
  BY <1>2, <1>3, <1>4 DEF CallOK, Knows, HasOutput, HasVerdict, Stopped

\* Whatever call c does next keeps the types and what is true of every call.
LEMMA CallStepOK ==
  ASSUME SandboxInv, NEW c \in Calls, CallStep(c)
  PROVE  Typed' /\ OthersStay(c) /\ \A d \in Calls : CallOK(d)'
<1>1. Typed' /\ OthersStay(c) /\ ErrorsStay /\ CallOK(c)'
  <2>1. CASE Request(c) \/ DaemonCreates(c) \/ Created(c) \/ CreateRaises(c)
    BY <2>1, CreateOK
  <2>2. CASE Start(c) \/ Wait(c, "wait") \/ WaitTimesOut(c) \/ Kill(c) \/ Wait(c, "wait2")
    BY <2>2, WaitOK
  <2>3. CASE Collect(c) \/ Drain(c)
    BY <2>3, CollectOK, DrainOK
  <2>4. CASE Reload(c) \/ Recheck(c)
    BY <2>4, ReloadOK, RecheckOK
  <2>5. CASE RemoveBox(c)
    BY <2>5, RemoveOK
  <2>6. CASE ProgramEnds(c) \/ DockerKill(c)
    BY <2>6, EndOK
  <2>7. CASE WorkerDies(c) \/ ShutdownKills(c)
    BY <2>7, DiesOK DEF WorkerDies, ShutdownKills
  <2> QED
    BY <2>1, <2>2, <2>3, <2>4, <2>5, <2>6, <2>7 DEF CallStep, Thread
<1>2. ASSUME NEW d \in Calls, d # c PROVE CallOK(d)'
  <2>1. CallOK(d) /\ pc'[d] = pc[d] /\ loc'[d] = loc[d] /\ box'[d] = box[d]
    BY <1>1, <1>2 DEF SandboxInv, OthersStay
  <2> QED
    BY <1>1, <2>1, OtherCallOK
<1> QED
  BY <1>1, <1>2

\* A thread that is over takes no step.
LEMMA OverIsOver ==
  ASSUME NEW c \in Calls, Thread(c)
  PROVE  pc[c] \notin Over /\ Leave
  BY DEF Thread, Over, Goto, Request, Created, CreateRaises, Start, Raise, Wait, RaiseInPool,
         WaitTimesOut, Kill, Collect, Drain, Reload, Recheck, RemoveBox

\* Once shutdown has killed its workers, none of their containers starts.
LEMMA CallStepShutdown ==
  ASSUME SandboxInv, NEW c \in Calls, CallStep(c)
  PROVE  ShutdownOK'
<1>0. ShutdownOK /\ Typed /\ Owned \subseteq Calls
  BY ConstantsAssumption DEF SandboxInv
<1>1. Leave
  BY OverIsOver DEF CallStep, DaemonCreates, ProgramEnds, DockerKill, WorkerDies, ShutdownKills
<1>2. harness' = harness /\ listed' = listed /\ aborted' = aborted
  BY <1>1 DEF Leave
<1>3. OthersStay(c)
  BY CallStepOK
<1>4. ASSUME harness \in {"removing", "off"}, c \in Owned
      PROVE  pc'[c] = pc[c] /\ box'[c].st # "running"
  <2>1. pc[c] \in Over
    BY <1>0, <1>4 DEF ShutdownOK
  <2>2. DaemonCreates(c) \/ ProgramEnds(c)
    BY <1>4, <2>1, OverIsOver DEF CallStep, DockerKill, WorkerDies, ShutdownKills
  <2>3. CASE DaemonCreates(c)
    <3>1. pc' = pc /\ box' = [box EXCEPT ![c] = [box[c] EXCEPT !.st = "created"]]
      BY <2>3 DEF DaemonCreates
    <3>2. [box[c] EXCEPT !.st = "created"].st = "created"
      BY <1>0 DEF Typed, Box
    <3> QED
      BY <1>0, <3>1, <3>2 DEF Typed
  <2>4. CASE ProgramEnds(c)
    BY <2>4, EndOK
  <2> QED
    BY <2>2, <2>3, <2>4
<1>5. ASSUME harness \in {"removing", "off"}, NEW d \in Owned
      PROVE  pc'[d] \in Over /\ (box'[d].st = "running" => aborted \/ d \in listed)
  <2>1. CASE d = c
    BY <1>0, <1>4, <1>5, <2>1 DEF ShutdownOK
  <2>2. CASE d # c
    BY <1>0, <1>3, <1>5, <2>2 DEF ShutdownOK, OthersStay
  <2> QED
    BY <2>1, <2>2
<1> QED
  BY <1>0, <1>2, <1>5 DEF ShutdownOK

\* Shutdown's own steps.
LEMMA ShutdownStepOK ==
  ASSUME SandboxInv, Shutdown \/ List \/ RemoveListed
  PROVE  SandboxInv'
<1>0. Typed /\ ShutdownOK /\ (\A c \in Calls : CallOK(c)) /\ Owned \subseteq Calls
  BY ConstantsAssumption DEF SandboxInv
<1>1. CASE Shutdown \/ List
  <2>1. pc' = pc /\ loc' = loc /\ box' = box /\ erred' = erred /\ aborted' = aborted
    BY <1>1 DEF Shutdown, List, NoError
  <2>2. Typed'
    BY <1>0, <1>1, <2>1 DEF Typed, Shutdown, List
  <2>3. ErrorsStay
    BY <2>1 DEF ErrorsStay, ErredAt
  <2>4. \A d \in Calls : CallOK(d)'
    BY <1>0, <2>1, <2>3, OtherCallOK
  <2>5. ShutdownOK'
    BY <1>0, <1>1, <2>1 DEF Shutdown, List, ShutdownOK, Exists
  <2> QED
    BY <2>2, <2>4, <2>5 DEF SandboxInv
<1>2. CASE RemoveListed
  <2>1. pc' = pc /\ loc' = loc /\ harness = "removing"
    BY <1>2 DEF RemoveListed
  <2>2. ASSUME NEW c \in listed, Exists(c), box' = Removed(c), listed' = listed \ {c},
               UNCHANGED <<harness, aborted>>, NoError
        PROVE  SandboxInv'
    <3>0. c \in Calls
      BY <1>0 DEF Typed
    <3>1. PICK b \in Box : /\ box' = [box EXCEPT ![c] = b]
                           /\ b.st = "gone" /\ b.hit = box[c].hit /\ b.late = box[c].late
                           /\ box[c].st # "running" => b.exit = box[c].exit
      BY <1>0, <2>2, <3>0, RemovedType
    <3>2. ErrorsStay /\ erred' \in Seq(Calls \X PCs)
      BY <1>0, <2>2, <3>0, ErrorLogged
    <3>3. box' \in [Calls -> Box] /\ box'[c] = b /\ \A d \in Calls \ {c} : box'[d] = box[d]
      BY <1>0, <3>0, <3>1 DEF Typed
    <3>4. Typed'
      BY <1>0, <2>1, <2>2, <3>2, <3>3 DEF Typed
    <3>5. ASSUME NEW d \in Calls, d # c PROVE CallOK(d)'
      BY <1>0, <2>1, <3>2, <3>3, <3>5, OtherCallOK
    <3>6. CallOK(c)'
      <4>1. Knows(c)' = Knows(c)
        BY <2>1 DEF Knows
      <4>2. HasOutput(c)' = HasOutput(c) /\ HasVerdict(c)' = HasVerdict(c)
        BY <2>1, <4>1 DEF HasOutput, HasVerdict
      <4>3. CallOK(c) /\ box'[c] = b /\ loc'[c] = loc[c] /\ pc'[c] = pc[c]
        BY <1>0, <2>1, <3>0, <3>3
      <4> QED
        BY <3>1, <4>1, <4>2, <4>3 DEF CallOK, Stopped
    <3>7. ShutdownOK'
      BY <1>0, <2>1, <2>2, <3>1, <3>3 DEF ShutdownOK
    <3> QED
      BY <3>4, <3>5, <3>6, <3>7 DEF SandboxInv
  <2>3. ASSUME NEW c \in listed, NoError \/ DaemonError(c), harness' = "off", aborted' = TRUE,
               UNCHANGED <<box, listed>>
        PROVE  SandboxInv'
    <3>0. c \in Calls
      BY <1>0 DEF Typed
    <3>1. ErrorsStay /\ erred' \in Seq(Calls \X PCs)
      BY <1>0, <2>3, <3>0, ErrorLogged
    <3>2. \A d \in Calls : CallOK(d)'
      BY <1>0, <2>1, <2>3, <3>1, OtherCallOK
    <3>3. Typed'
      BY <1>0, <2>1, <2>3, <3>1 DEF Typed
    <3>4. ShutdownOK'
      BY <1>0, <2>1, <2>3 DEF ShutdownOK
    <3> QED
      BY <3>2, <3>3, <3>4 DEF SandboxInv
  <2>4. CASE listed = {} /\ harness' = "off" /\ UNCHANGED <<box, listed, aborted>> /\ NoError
    <3>1. ErrorsStay
      BY <2>4 DEF NoError, ErrorsStay, ErredAt
    <3>2. \A d \in Calls : CallOK(d)'
      BY <1>0, <2>1, <2>4, <3>1, OtherCallOK
    <3>3. Typed' /\ ShutdownOK'
      BY <1>0, <2>1, <2>4 DEF Typed, ShutdownOK, NoError
    <3> QED
      BY <3>2, <3>3 DEF SandboxInv
  <2> QED
    BY <1>2, <2>2, <2>3, <2>4 DEF RemoveListed
<1> QED
  BY <1>1, <1>2
-----------------------------------------------------------------------------
LEMMA InvInit == Init => SandboxInv
<1> SUFFICES ASSUME Init PROVE SandboxInv
  OBVIOUS
<1>2. NoBox \in Box
  BY ConstantsAssumption DEF NoBox, Box
<1>3. Typed
  <2>1. erred = <<>> /\ <<>> \in Seq(Calls \X PCs) /\ "idle" \in PCs
    BY DEF Init, PCs
  <2>2. pc \in [Calls -> PCs] /\ loc \in [Calls -> Locals] /\ box \in [Calls -> Box]
    BY <1>2, <2>1, NoLocalsType DEF Init
  <2> QED
    BY <2>1, <2>2 DEF Init, Typed
<1>4. \A c \in Calls : CallOK(c)
  BY NoLocalsType DEF Init, CallOK, Knows, HasOutput, HasVerdict
<1>5. ShutdownOK
  BY DEF Init, ShutdownOK
<1> QED
  BY <1>3, <1>4, <1>5 DEF SandboxInv

\* The invariant: whatever the threads, the daemon, the programs, the faults and
\* the shutdown do, in whatever order.
THEOREM SandboxInvariant == Spec => []SandboxInv
<1>1. ASSUME SandboxInv, [Next]_vars PROVE SandboxInv'
  <2>1. ASSUME NEW c \in Calls, CallStep(c) PROVE SandboxInv'
    BY <1>1, <2>1, CallStepOK, CallStepShutdown DEF SandboxInv
  <2>2. CASE Shutdown \/ List \/ RemoveListed
    BY <1>1, <2>2, ShutdownStepOK
  <2>3. CASE UNCHANGED vars
    <3>1. ErrorsStay
      BY <2>3 DEF vars, ErrorsStay, ErredAt
    <3>2. \A d \in Calls : CallOK(d)'
      BY <1>1, <2>3, <3>1, OtherCallOK DEF SandboxInv, vars
    <3>3. Typed' /\ ShutdownOK'
      BY <1>1, <2>3 DEF SandboxInv, Typed, ShutdownOK, vars
    <3> QED
      BY <3>2, <3>3 DEF SandboxInv
  <2> QED
    BY <1>1, <2>1, <2>2, <2>3 DEF Next, CallStep
<1> QED
  BY InvInit, <1>1, PTL DEF Spec

\* Every variable keeps its type: _oom_killed reads the flag OOM_RECHECKS times at
\* most after the first read, and a call is always somewhere in run().
THEOREM TypeCorrect == Spec => []TypeOK
<1>1. SandboxInv => TypeOK
  <2> SUFFICES ASSUME SandboxInv PROVE TypeOK
    OBVIOUS
  <2>1. Typed
    BY DEF SandboxInv
  <2>2. ASSUME NEW c \in Calls
        PROVE  /\ loc[c].timedOut \in BOOLEAN /\ loc[c].oom \in BOOLEAN
               /\ loc[c].failing \in BOOLEAN
               /\ loc[c].reads \in 0..OOM_RECHECKS /\ loc[c].exit \in {0, 137}
               /\ box[c].st \in {"none", "created", "running", "exited", "gone"}
               /\ box[c].late \in 0..MaxOomDelay
    <3>1. loc[c] \in Locals /\ box[c] \in Box
      BY <2>1 DEF Typed
    <3> QED
      BY <3>1 DEF Locals, Box
  <2> QED
    BY <2>1, <2>2 DEF Typed, TypeOK
<1> QED
  BY SandboxInvariant, <1>1, PTL

\* run()'s finally and Injector.shutdown: a call that ended removed its container
\* unless the request to create or to remove it failed, and after a shutdown that
\* got through no container of the injector's own workers runs.
THEOREM ContainersRemoved == Spec => []NoContainerLeaks
<1>1. SandboxInv => NoContainerLeaks
  <2> SUFFICES ASSUME SandboxInv, NEW c \in Calls
               PROVE  /\ pc[c] \in {"returned", "raised"} /\ ~ErredAt(c, {"create", "remove"})
                           => ~Exists(c)
                      /\ harness = "off" /\ ~aborted /\ c \in Owned => box[c].st # "running"
    BY DEF NoContainerLeaks
  <2>1. pc[c] \in {"returned", "raised"} /\ ~ErredAt(c, {"create", "remove"}) => ~Exists(c)
    BY DEF SandboxInv, CallOK, Exists
  <2>2. harness = "off" /\ ~aborted /\ c \in Owned => box[c].st # "running"
    BY DEF SandboxInv, ShutdownOK
  <2> QED
    BY <2>1, <2>2
<1> QED
  BY SandboxInvariant, <1>1, PTL

\* The SandboxResult: the exit code is the container's, oom_killed is neither made
\* up nor missed for a SIGKILL without a timeout, whenever the kernel's event shows
\* within the rechecks, and the output is the head of what the program printed.
THEOREM ResultsTrue == Spec => []VerdictTrue
<1>1. SandboxInv => VerdictTrue
  <2> SUFFICES ASSUME SandboxInv, NEW c \in Calls, pc[c] = "returned"
               PROVE  LET l == loc[c]
                          b == box[c]
                          printed == [i \in 1..2 |-> FoldLeft(LAMBDA a, n : a + n, 0, l.log[i])]
                      IN /\ l.exit = b.exit
                         /\ l.oom => b.hit
                         /\ b.hit /\ l.exit = 137 /\ ~l.timedOut => l.oom
                         /\ \A i \in 1..2 : l.kept[i] = IF printed[i] < Limit
                                                        THEN printed[i] ELSE Limit
                         /\ l.truncated = (\E i \in 1..2 : l.kept[i] < printed[i])
    BY DEF VerdictTrue
  <2>1. /\ loc[c].exit = box[c].exit /\ (loc[c].oom => box[c].hit)
        /\ box[c].hit /\ loc[c].exit = 137 /\ ~loc[c].timedOut => loc[c].oom
        /\ OutputTrue(loc[c])
    BY DEF SandboxInv, CallOK, Knows, HasOutput, HasVerdict
  <2> DEFINE printed == [i \in 1..2 |-> Printed(loc[c].log[i])]
  <2>2. \A i \in 1..2 : loc[c].kept[i] = IF printed[i] < Limit THEN printed[i] ELSE Limit
    BY <2>1 DEF OutputTrue
  <2>3. loc[c].truncated = (\E i \in 1..2 : loc[c].kept[i] < printed[i])
    BY <2>1 DEF OutputTrue
  <2> QED
    BY <2>1, <2>2, <2>3 DEF Printed
<1> QED
  BY SandboxInvariant, <1>1, PTL
=============================================================================
