-------------------------- MODULE AgentRunProofs --------------------------
(***************************************************************************)
(* Proofs about AgentRun, for any number of attempts, any answers of the   *)
(* model and any limits: the call ledger, the budget, the limits, the      *)
(* reuse of answers, the workspace, and the use of the engine's log.       *)
(***************************************************************************)
EXTENDS AgentRun, InductionFacts, FiniteSetTheorems

Event == [action: Actions \cup {NULL}, obs: Observations, cost: Nat, final: BOOLEAN,
          attempt: Sessions]

\* One turn of spent_from_events, and of the filter on the events that acted.
AddCost(s) == [p \in Nat \X (1..Len(s)) |-> p[1] + s[p[2]].cost]
KeepActed(s) == [p \in Seq(Event) \X (1..Len(s)) |->
              IF s[p[2]].action = NULL THEN p[1] ELSE Append(p[1], s[p[2]])]

LEMMA AddCostType ==
  ASSUME NEW s \in Seq(Event)
  PROVE  AddCost(s) \in [Nat \X (1..Len(s)) -> Nat]
<1>1. \A k \in 1..Len(s) : s[k] \in Event
  OBVIOUS
<1>2. \A e \in Event : e.cost \in Nat
  BY DEF Event
<1>3. \A k \in 1..Len(s) : s[k].cost \in Nat
  BY <1>1, <1>2
<1> QED
  BY <1>3 DEF AddCost

LEMMA SpentReaches ==
  ASSUME NEW s \in Seq(Event)
  PROVE  Reaches(SpentFrom(s), Nat, 0, AddCost(s), Len(s))
<1> DEFINE N == Len(s)
           F(g) == [k \in 0..Len(s) |-> IF k = 0 THEN 0 ELSE g[k - 1] + s[k].cost]
           sum == CHOOSE g : g = F(g)
<1>1. SpentFrom(s) = sum[N]
  BY DEF SpentFrom
<1>2. N \in Nat /\ 0 \in Nat /\ AddCost(s) \in [Nat \X (1..N) -> Nat]
  <2>1. N \in Nat /\ 0 \in Nat
    OBVIOUS
  <2> QED
    BY <2>1, AddCostType
<1>3. \A x \in Nat, k \in 1..N : AddCost(s)[<<x, k>>] = x + s[k].cost
  BY DEF AddCost
<1>4. PICK h \in [0..N -> Nat] : Iterates(h, 0, AddCost(s), N)
  <2> HIDE DEF N
  <2> QED
    BY <1>2, PrefixRecursion
<1>5. h = F(h)
  <2>1. ASSUME NEW k \in 0..N PROVE h[k] = IF k = 0 THEN 0 ELSE h[k - 1] + s[k].cost
    <3>1. CASE k = 0
      BY <1>4, <3>1 DEF Iterates
    <3>2. CASE k # 0
      <4>1. k \in 1..N /\ k - 1 \in 0..N
        BY <1>2, <3>2
      <4>2. h[k - 1] \in Nat /\ h[k] = AddCost(s)[<<h[k - 1], k>>]
        BY <1>4, <4>1 DEF Iterates
      <4> QED
        BY <1>3, <3>2, <4>1, <4>2
    <3> QED
      BY <3>1, <3>2
  <2> QED
    BY <2>1
<1> HIDE DEF F
<1>6. sum = F(sum)
  BY <1>5
<1> HIDE DEF sum, N
<1>7. sum[0] = 0 /\ \A k \in 1..N : sum[k] = sum[k - 1] + s[k].cost
  BY <1>2, <1>6 DEF F, N
<1> DEFINE P == {k \in Nat : k <= N => sum[k] = h[k]}
<1>8. 0 \in P
  BY <1>4, <1>7 DEF Iterates
<1>9. ASSUME NEW k \in Nat, k \in P PROVE k + 1 \in P
  <2> SUFFICES ASSUME k + 1 <= N PROVE sum[k + 1] = h[k + 1]
    OBVIOUS
  <2>1. PICK m \in 1..N : m = k + 1 /\ m - 1 = k
    BY <1>2
  <2>2. h[m - 1] \in Nat /\ h[m] = h[m - 1] + s[m].cost
    <3>1. m - 1 \in 0..N
      BY <1>2
    <3>2. h[m - 1] \in Nat /\ h[m] = AddCost(s)[<<h[m - 1], m>>]
      BY <1>4, <3>1 DEF Iterates
    <3> QED
      BY <1>3, <3>2
  <2> QED
    BY <1>2, <1>7, <1>9, <2>1, <2>2
<1> HIDE DEF P
<1>10. N \in P
  BY <1>2, <1>8, <1>9, SetInduction
<1>11. sum[N] = h[N]
  BY <1>2, <1>10 DEF P
<1> QED
  BY <1>1, <1>4, <1>11 DEF Reaches, N

\* spent_from_events adds the costs up, event by event.
LEMMA SpentAppend ==
  ASSUME NEW s \in Seq(Event), NEW e \in Event
  PROVE  SpentFrom(s) \in Nat /\ SpentFrom(Append(s, e)) = SpentFrom(s) + e.cost
<1> DEFINE t == Append(s, e)
           N == Len(s)
<1>1. t \in Seq(Event) /\ Len(t) = N + 1 /\ N \in Nat /\ t[N + 1] = e /\ \A k \in 1..N : t[k] = s[k]
  OBVIOUS
<1>2. Reaches(SpentFrom(s), Nat, 0, AddCost(s), N) /\ Reaches(SpentFrom(t), Nat, 0, AddCost(t), N + 1)
  BY <1>1, SpentReaches
<1>3. AddCost(s) \in [Nat \X (1..N) -> Nat] /\ AddCost(t) \in [Nat \X (1..(N + 1)) -> Nat]
  BY <1>1, AddCostType
<1>4. \A k \in 1..N, z \in Nat : AddCost(t)[<<z, k>>] = AddCost(s)[<<z, k>>]
  BY <1>1 DEF AddCost
<1>5. \A z \in Nat : AddCost(t)[<<z, N + 1>>] = z + e.cost
  BY <1>1 DEF AddCost
<1> HIDE DEF t, N
<1>6. SpentFrom(s) \in Nat /\ SpentFrom(t) = AddCost(t)[<<SpentFrom(s), N + 1>>]
  <2>1. N \in Nat /\ 0 \in Nat
    BY <1>1
  <2>2. Prolongs(AddCost(t), Nat, 0, AddCost(s), N)
    BY <1>3, <1>4, <2>1 DEF Prolongs
  <2> QED
    BY <1>2, <2>2, ReachesStep
<1> QED
  BY <1>5, <1>6 DEF t

LEMMA SpentEmpty == SpentFrom(<<>>) = 0
<1>1. <<>> \in Seq(Event) /\ Len(<<>>) = 0
  OBVIOUS
<1>2. Reaches(SpentFrom(<<>>), Nat, 0, AddCost(<<>>), 0)
  BY <1>1, SpentReaches
<1> QED
  BY <1>2 DEF Reaches, Iterates

LEMMA KeepActedType ==
  ASSUME NEW s \in Seq(Event)
  PROVE  KeepActed(s) \in [Seq(Event) \X (1..Len(s)) -> Seq(Event)]
<1>1. \A k \in 1..Len(s), x \in Seq(Event) : Append(x, s[k]) \in Seq(Event)
  OBVIOUS
<1> HIDE DEF Event
<1> QED
  BY <1>1 DEF KeepActed

LEMMA ActedReaches ==
  ASSUME NEW s \in Seq(Event)
  PROVE  Reaches(Acted(s), Seq(Event), <<>>, KeepActed(s), Len(s))
<1> DEFINE N == Len(s)
           none == <<>>
           F(g) == [t \in SUBSET DOMAIN s |->
                      IF t = {} THEN none
                      ELSE IF s[Max(t)].action = NULL THEN g[t \ {Max(t)}]
                           ELSE Append(g[t \ {Max(t)}], s[Max(t)])]
           iter == CHOOSE g : g = F(g)
<1>1. Acted(s) = iter[DOMAIN s]
  BY DEF Acted, FoldLeft, MapThenFoldSet
<1>2. N \in Nat /\ DOMAIN s = 1..N /\ none \in Seq(Event)
  OBVIOUS
<1>3. KeepActed(s) \in [Seq(Event) \X (1..N) -> Seq(Event)]
  BY KeepActedType
<1>4. \A x \in Seq(Event), k \in 1..N :
        KeepActed(s)[<<x, k>>] = IF s[k].action = NULL THEN x ELSE Append(x, s[k])
  BY DEF KeepActed
<1> HIDE DEF N, none
<1>5. PICK g \in [SUBSET (1..N) -> Seq(Event)] : FoldsOver(g, none, KeepActed(s), N)
  BY <1>2, <1>3, SubsetRecursion, Zenon
<1>6. \A t \in SUBSET (1..N) : t # {} => Max(t) \in 1..N /\ t \ {Max(t)} \in SUBSET (1..N)
  BY <1>2, MaxOfSubset
<1>7. g = F(g)
  BY <1>2, <1>4, <1>5, <1>6 DEF FoldsOver
<1> HIDE DEF F
<1>8. iter = F(iter)
  BY <1>7
<1> HIDE DEF iter
<1>9. Folding(iter, Seq(Event), none, KeepActed(s), N)
  BY <1>2, <1>3, <1>4, <1>6, <1>8 DEF F, Folding
<1>10. Reaches(iter[1..N], Seq(Event), none, KeepActed(s), N)
  BY <1>9, FoldPrefixes, Zenon
<1> QED
  BY <1>1, <1>2, <1>10 DEF none, N

\* The history is extended by each step that asked the model, and by no other.
LEMMA ActedAppend ==
  ASSUME NEW s \in Seq(Event), NEW e \in Event
  PROVE  /\ Acted(s) \in Seq(Event)
         /\ Acted(Append(s, e)) = IF e.action = NULL THEN Acted(s) ELSE Append(Acted(s), e)
<1> DEFINE t == Append(s, e)
           N == Len(s)
           none == <<>>
<1>1. /\ t \in Seq(Event) /\ Len(t) = N + 1 /\ N \in Nat /\ t[N + 1] = e
      /\ (\A k \in 1..N : t[k] = s[k]) /\ none \in Seq(Event)
  OBVIOUS
<1>2. /\ Reaches(Acted(s), Seq(Event), none, KeepActed(s), N)
      /\ Reaches(Acted(t), Seq(Event), none, KeepActed(t), N + 1)
  BY <1>1, ActedReaches
<1>3. /\ KeepActed(s) \in [Seq(Event) \X (1..N) -> Seq(Event)]
      /\ KeepActed(t) \in [Seq(Event) \X (1..(N + 1)) -> Seq(Event)]
  BY <1>1, KeepActedType
<1>4. \A k \in 1..N, z \in Seq(Event) : KeepActed(t)[<<z, k>>] = KeepActed(s)[<<z, k>>]
  BY <1>1 DEF KeepActed
<1>5. \A z \in Seq(Event) : KeepActed(t)[<<z, N + 1>>] = IF e.action = NULL THEN z ELSE Append(z, e)
  BY <1>1 DEF KeepActed
<1> HIDE DEF t, N, none
<1>6. Acted(s) \in Seq(Event) /\ Acted(t) = KeepActed(t)[<<Acted(s), N + 1>>]
  <2>1. Prolongs(KeepActed(t), Seq(Event), none, KeepActed(s), N)
    BY <1>1, <1>3, <1>4 DEF Prolongs
  <2> QED
    BY <1>2, <2>1, ReachesStep
<1> QED
  BY <1>5, <1>6 DEF t

LEMMA ActedEmpty == Acted(<<>>) = <<>>
<1>1. <<>> \in Seq(Event) /\ Len(<<>>) = 0
  OBVIOUS
<1>2. Reaches(Acted(<<>>), Seq(Event), <<>>, KeepActed(<<>>), 0)
  BY <1>1, ActedReaches
<1> QED
  BY <1>2 DEF Reaches, Iterates
-----------------------------------------------------------------------------
Contents == {a.content : a \in Actions} \cup {"data", NULL}
Files == [Paths -> Contents]

\* The successful writes of one path.
Writes(s, p) == {k \in DOMAIN s : Wrote(s[k]) /\ s[k].action.path = p}

LEMMA LastWrite ==
  ASSUME NEW s \in Seq(Event), NEW p, Writes(s, p) # {}
  PROVE  (CHOOSE k \in Writes(s, p) : \A j \in Writes(s, p) : j <= k) \in Writes(s, p)
<1> DEFINE W == Writes(s, p)
<1>1. W \in SUBSET (1..Len(s)) /\ Len(s) \in Nat
  BY DEF Writes
<1>2. Max(W) \in W /\ \A y \in W : y <= Max(W)
  BY <1>1, MaxOfSubset
<1> HIDE DEF W
<1>3. (CHOOSE k \in W : \A j \in W : j <= k) \in W
  BY <1>2
<1> QED
  BY <1>3 DEF W

LEMMA RebuiltAt ==
  ASSUME NEW s \in Seq(Event), NEW p \in Paths
  PROVE  Rebuilt(s)[p] = IF Writes(s, p) = {} THEN NULL
                         ELSE s[CHOOSE k \in Writes(s, p) : \A j \in Writes(s, p) : j <= k].action.content
  BY DEF Rebuilt, Writes

LEMMA RebuiltType ==
  ASSUME NEW s \in Seq(Event)
  PROVE  Rebuilt(s) \in Files
<1>1. ASSUME NEW p \in Paths PROVE Rebuilt(s)[p] \in Contents
  <2>1. CASE Writes(s, p) = {}
    BY <2>1, RebuiltAt DEF Contents
  <2>2. CASE Writes(s, p) # {}
    <3>1. PICK k \in Writes(s, p) : Rebuilt(s)[p] = s[k].action.content
      BY <2>2, LastWrite, RebuiltAt
    <3>2. k \in DOMAIN s /\ s[k].action # NULL
      BY <3>1 DEF Writes, Wrote
    <3>3. s[k] \in Event
      BY <3>2
    <3>4. s[k].action \in Actions
      BY <3>2, <3>3 DEF Event
    <3> QED
      BY <3>1, <3>4 DEF Contents
  <2> QED
    BY <2>1, <2>2
<1>2. Rebuilt(s) = [p \in Paths |-> Rebuilt(s)[p]]
  BY DEF Rebuilt
<1> QED
  BY <1>1, <1>2 DEF Files

\* materialize_workspace after one more event: its write, if it made one, on top of
\* what was there.
LEMMA RebuiltAppend ==
  ASSUME NEW s \in Seq(Event), NEW e \in Event
  PROVE  Rebuilt(Append(s, e)) =
           [p \in Paths |-> IF Wrote(e) /\ e.action.path = p THEN e.action.content
                            ELSE Rebuilt(s)[p]]
<1> DEFINE t == Append(s, e)
           n == Len(s) + 1
<1>1. /\ t \in Seq(Event) /\ n \in Nat \ {0} /\ t[n] = e /\ DOMAIN t = 1..n /\ DOMAIN s = 1..(n - 1)
      /\ \A k \in 1..(n - 1) : t[k] = s[k]
  OBVIOUS
<1> HIDE DEF t, n
<1>2. ASSUME NEW p \in Paths
      PROVE  Rebuilt(t)[p] = IF Wrote(e) /\ e.action.path = p THEN e.action.content
                             ELSE Rebuilt(s)[p]
  <2>1. CASE Wrote(e) /\ e.action.path = p
    <3>1. n \in Writes(t, p) /\ \A j \in Writes(t, p) : j \in Nat /\ j <= n
      <4>1. n \in DOMAIN t /\ \A j \in DOMAIN t : j \in Nat /\ j <= n
        BY <1>1
      <4> QED
        BY <1>1, <2>1, <4>1 DEF Writes
    <3> DEFINE W == Writes(t, p)
    <3>2. (CHOOSE k \in W : \A j \in W : j <= k) = n
      <4> DEFINE c == CHOOSE k \in W : \A j \in W : j <= k
      <4>1. c \in W /\ \A j \in W : j <= c
        BY <3>1
      <4> HIDE DEF c, W
      <4>2. n <= c /\ c <= n /\ c \in Nat /\ n \in Nat
        BY <1>1, <3>1, <4>1 DEF W
      <4>3. c = n
        BY <4>2
      <4> QED
        BY <4>3 DEF c
    <3> HIDE DEF W
    <3>3. W # {} /\ Rebuilt(t)[p] = IF W = {} THEN NULL
                      ELSE t[CHOOSE k \in W : \A j \in W : j <= k].action.content
      BY <1>1, <3>1, RebuiltAt DEF W
    <3>4. Rebuilt(t)[p] = t[n].action.content
      BY <3>2, <3>3
    <3> QED
      BY <1>1, <2>1, <3>4
  <2>2. CASE ~(Wrote(e) /\ e.action.path = p)
    <3>1. Writes(t, p) = Writes(s, p)
      <4>1. \A k \in DOMAIN t : k = n \/ (k \in DOMAIN s /\ t[k] = s[k])
        BY <1>1
      <4>2. \A k \in DOMAIN s : k \in DOMAIN t /\ t[k] = s[k]
        BY <1>1
      <4> QED
        BY <1>1, <2>2, <4>1, <4>2 DEF Writes
    <3>2. CASE Writes(s, p) = {}
      BY <1>1, <2>2, <3>1, <3>2, RebuiltAt
    <3>3. CASE Writes(s, p) # {}
      <4> DEFINE c == CHOOSE k \in Writes(s, p) : \A j \in Writes(s, p) : j <= k
      <4>1. c \in Writes(s, p) /\ Rebuilt(s)[p] = s[c].action.content
        BY <3>3, LastWrite, RebuiltAt
      <4>2. Rebuilt(t)[p] = t[c].action.content
        <5>1. Rebuilt(t)[p] = IF Writes(t, p) = {} THEN NULL ELSE
                t[CHOOSE k \in Writes(t, p) : \A j \in Writes(t, p) : j <= k].action.content
          BY <1>1, RebuiltAt
        <5> QED
          BY <3>1, <3>3, <5>1, Zenon
      <4> HIDE DEF c
      <4>3. t[c] = s[c]
        <5>1. c \in DOMAIN s
          BY <4>1 DEF Writes
        <5> QED
          BY <1>1, <5>1
      <4> QED
        BY <2>2, <4>1, <4>2, <4>3
    <3> QED
      BY <3>2, <3>3
  <2> QED
    BY <2>1, <2>2
<1>3. Rebuilt(t) = [p \in Paths |-> Rebuilt(t)[p]]
  BY DEF Rebuilt
<1> QED
  BY <1>2, <1>3 DEF t

\* _execute: the tool's answer, and the workspace: what the answer says was written,
\* or what a program left there.
LEMMA ExecutedFiles ==
  ASSUME NEW action \in Actions, NEW files \in Files, NEW x \in Executed(action, files)
  PROVE  /\ x.obs \in Observations /\ x.files \in Files
         /\ \A p \in Paths :
              \/ x.files[p] = IF action.tool = "write_file" /\ x.obs # "error" /\ action.path = p
                              THEN action.content ELSE files[p]
              \/ x.files[p] = "data"
<1>0. action.content \in Contents /\ "data" \in Contents
  BY DEF Contents
<1>1. CASE action.tool = "write_file" /\ SafeJoin(action.path)
  <2> DEFINE f == [files EXCEPT ![action.path] = action.content]
  <2>1. x = [obs |-> "ok", files |-> f] /\ action.path \in Paths
    BY <1>1 DEF Executed, SafeJoin
  <2>2. f \in Files
    BY <1>0 DEF Files
  <2>3. \A p \in Paths : f[p] = IF action.path = p THEN action.content ELSE files[p]
    BY DEF Files
  <2> HIDE DEF f
  <2>4. x.obs = "ok" /\ x.files = f
    BY <2>1
  <2> QED
    BY <1>1, <2>2, <2>3, <2>4 DEF Observations
<1>2. CASE action.tool = "run_code" /\ SafeJoin(action.path)
  <2>1. PICK f \in {files} \cup IF ProgramsWrite
                                THEN {[files EXCEPT ![p] = "data"] : p \in Paths} ELSE {} :
          x = [obs |-> "ran", files |-> f]
    BY <1>2 DEF Executed
  <2>2. x.obs = "ran" /\ x.files = f
    BY <2>1
  <2>3. f \in Files
    BY <1>0, <2>1 DEF Files
  <2>4. \A p \in Paths : f[p] = files[p] \/ f[p] = "data"
    BY <2>1 DEF Files
  <2> QED
    BY <1>2, <2>2, <2>3, <2>4 DEF Observations
<1>3. CASE ~(action.tool \in {"write_file", "run_code"} /\ SafeJoin(action.path))
  <2>1. PICK o \in {"ok", "error"} : /\ x = [obs |-> o, files |-> files]
                                     /\ action.tool = "write_file" => o = "error"
    BY <1>3 DEF Executed
  <2>2. x.obs = o /\ x.files = files
    BY <2>1
  <2> QED
    BY <2>1, <2>2 DEF Observations
<1> QED
  BY <1>1, <1>2, <1>3
-----------------------------------------------------------------------------
CallRow == [step: Nat, attempt: Sessions]
PCs == {"none", "replay", "lookup", "record", "ask", "store", "tool", "commit", "ended"}

\* Between the limits and the outcome.
Asking == {"lookup", "record", "ask", "store", "tool"}

\* The types of all the variables.
Typed ==
  /\ status \in {"absent", "pending", "running"} \cup Terminal
  /\ log \in Seq(Event)
  /\ token \in 0..MaxSessions /\ held \in BOOLEAN
  /\ pc \in [Sessions -> PCs] /\ idx \in [Sessions -> Nat]
  /\ ws \in [Sessions -> Files \cup {NULL}]
  /\ resp \in [Sessions -> Response \cup {NULL}]
  /\ out \in [Sessions -> Outcome \cup {NULL}]
  /\ \A c \in cache : c.resp \in Response
  /\ calls \in Seq(CallRow)
  /\ billed \in Nat /\ lastWs \in Files

\* What a session has where it is.
SessionOK(a) ==
  /\ idx[a] <= Len(log)
  /\ pc[a] = "none" <=> a > token
  /\ pc[a] = "none" => ws[a] = NULL
  /\ pc[a] \in Asking \cup {"commit"} => ws[a] \in Files
  /\ pc[a] \in {"store", "tool"} => resp[a] \in Response
  /\ pc[a] = "commit" <=> out[a] # NULL

Base == Typed /\ (\A a \in Sessions : SessionOK(a)) /\ (held => status = "running")

\* A step of one session leaves the others where they are.
OthersStay(a) ==
  \A d \in Sessions \ {a} : /\ pc'[d] = pc[d] /\ idx'[d] = idx[d] /\ ws'[d] = ws[d]
                            /\ resp'[d] = resp[d] /\ out'[d] = out[d]

\* The log as it was, or with one more event of the session that owns the run.
LogGrows(a) ==
  \/ log' = log
  \/ Current(a) /\ \E e \in Event : e.attempt = a /\ log' = Append(log, e)

LEMMA LogGrowsType ==
  ASSUME NEW a, log \in Seq(Event), LogGrows(a)
  PROVE  log' \in Seq(Event) /\ Len(log) <= Len(log') /\ Len(log) \in Nat
  BY DEF LogGrows

LEMMA OthersOK ==
  ASSUME Base, NEW a \in Sessions, OthersStay(a), LogGrows(a), token' = token,
         NEW d \in Sessions \ {a}
  PROVE  SessionOK(d)'
<1>1. idx[d] \in Nat /\ SessionOK(d) /\ log \in Seq(Event)
  BY DEF Base, Typed
<1>2. Len(log) <= Len(log') /\ Len(log) \in Nat /\ Len(log') \in Nat
  BY <1>1, LogGrowsType
<1>3. /\ pc'[d] = pc[d] /\ idx'[d] = idx[d] /\ ws'[d] = ws[d]
      /\ resp'[d] = resp[d] /\ out'[d] = out[d]
  BY DEF OthersStay
<1>4. idx'[d] <= Len(log')
  BY <1>1, <1>2, <1>3 DEF SessionOK
<1> QED
  BY <1>1, <1>3, <1>4 DEF SessionOK

\* The end of a session.
LEMMA EndShape ==
  ASSUME Base, NEW a \in Sessions, End(a), ws' = ws
  PROVE  /\ OthersStay(a)
         /\ pc' \in [Sessions -> PCs] /\ idx' \in [Sessions -> Nat]
         /\ resp' \in [Sessions -> Response \cup {NULL}]
         /\ out' \in [Sessions -> Outcome \cup {NULL}]
         /\ pc'[a] = "ended" /\ idx'[a] = 0 /\ out'[a] = NULL
<1>1. "ended" \in PCs
  BY DEF PCs
<1>2. pc' = [pc EXCEPT ![a] = "ended"] /\ idx' = [idx EXCEPT ![a] = 0]
  BY DEF End, Goto
<1>3. resp' = [resp EXCEPT ![a] = NULL] /\ out' = [out EXCEPT ![a] = NULL]
  BY DEF End
<1>4. /\ pc \in [Sessions -> PCs] /\ idx \in [Sessions -> Nat]
      /\ resp \in [Sessions -> Response \cup {NULL}]
      /\ out \in [Sessions -> Outcome \cup {NULL}]
  BY DEF Base, Typed
<1>5. pc' \in [Sessions -> PCs] /\ pc'[a] = "ended" /\ \A d \in Sessions \ {a} : pc'[d] = pc[d]
  BY <1>1, <1>2, <1>4
<1>6. idx' \in [Sessions -> Nat] /\ idx'[a] = 0 /\ \A d \in Sessions \ {a} : idx'[d] = idx[d]
  BY <1>2, <1>4
<1>7. /\ resp' \in [Sessions -> Response \cup {NULL}]
      /\ \A d \in Sessions \ {a} : resp'[d] = resp[d]
  BY <1>3, <1>4
<1>8. /\ out' \in [Sessions -> Outcome \cup {NULL}] /\ out'[a] = NULL
      /\ \A d \in Sessions \ {a} : out'[d] = out[d]
  BY <1>3, <1>4
<1> QED
  BY <1>5, <1>6, <1>7, <1>8 DEF OthersStay

LEMMA EndOK ==
  ASSUME Base, NEW a \in Sessions, End(a), ws' = ws, token' = token, LogGrows(a),
         pc[a] # "none"
  PROVE  \A d \in Sessions : SessionOK(d)'
<1>1. SessionOK(a) /\ log \in Seq(Event)
  BY DEF Base, Typed
<1>2. /\ OthersStay(a) /\ pc'[a] = "ended" /\ idx'[a] = 0 /\ out'[a] = NULL
  BY EndShape
<1>3. 0 <= Len(log')
  BY <1>1, LogGrowsType
<1>4. SessionOK(a)'
  BY <1>1, <1>2, <1>3 DEF SessionOK, Asking
<1> QED
  BY <1>2, <1>4, OthersOK

NullEvent(a) == [action |-> NULL, obs |-> "none", cost |-> 0, final |-> TRUE, attempt |-> a]

LEMMA NullEventType ==
  ASSUME NEW a \in Sessions
  PROVE  /\ NullEvent(a) \in Event
         /\ NullEvent(a).action = NULL /\ NullEvent(a).cost = 0 /\ NullEvent(a).final = TRUE
         /\ NullEvent(a).attempt = a
  BY DEF NullEvent, Event, Observations

Raised(a) == \E fatal \in BOOLEAN : Raise(a, fatal)

\* _handle_error and crashes: the session ends; the task is given back, or the run
\* failed with an event that asked nothing.
LEMMA RaiseShape ==
  ASSUME Base, NEW a \in Sessions, Raised(a), pc[a] # "none"
  PROVE  /\ Base'
         /\ \/ log' = log /\ status' = status /\ (held' = held \/ held' = FALSE)
            \/ /\ Current(a) /\ log' = Append(log, NullEvent(a))
               /\ status' = "failed" /\ held' = FALSE
<1>0. Typed /\ (held => status = "running")
  BY DEF Base
<1>1. /\ End(a) /\ ws' = ws /\ token' = token /\ cache' = cache /\ calls' = calls
      /\ billed' = billed /\ lastWs' = lastWs
  BY DEF Raised, Raise, tables
<1>2. \/ log' = log /\ status' = status /\ (held' = held \/ held' = FALSE)
      \/ /\ Current(a) /\ log' = Append(log, NullEvent(a))
         /\ status' = "failed" /\ held' = FALSE
  BY DEF Raised, Raise, NullEvent
<1>3. LogGrows(a)
  BY <1>2, NullEventType DEF LogGrows
<1>4. \A d \in Sessions : SessionOK(d)'
  BY <1>1, <1>3, EndOK
<1>5. /\ pc' \in [Sessions -> PCs] /\ idx' \in [Sessions -> Nat]
      /\ resp' \in [Sessions -> Response \cup {NULL}]
      /\ out' \in [Sessions -> Outcome \cup {NULL}]
  BY <1>1, EndShape
<1>6. log' \in Seq(Event)
  BY <1>0, <1>3, LogGrowsType DEF Typed
<1>7. held' \in BOOLEAN /\ status' \in {"absent", "pending", "running"} \cup Terminal
  BY <1>0, <1>2 DEF Typed, Terminal
<1>8. Typed'
  BY <1>0, <1>1, <1>5, <1>6, <1>7 DEF Typed
<1>9. held' => status' = "running"
  BY <1>0, <1>2
<1> QED
  BY <1>2, <1>4, <1>8, <1>9 DEF Base

LEMMA CrashBase ==
  ASSUME Base, NEW a \in Sessions, Crash(a)
  PROVE  Base'
<1>0. Typed /\ (held => status = "running")
  BY DEF Base
<1>1. /\ End(a) /\ ws' = ws /\ token' = token /\ cache' = cache /\ calls' = calls
      /\ billed' = billed /\ lastWs' = lastWs /\ log' = log /\ status' = status /\ held' = held
      /\ pc[a] # "none"
  BY DEF Crash, tables, logVars
<1>2. \A d \in Sessions : SessionOK(d)'
  BY <1>1, EndOK DEF LogGrows
<1>3. /\ pc' \in [Sessions -> PCs] /\ idx' \in [Sessions -> Nat]
      /\ resp' \in [Sessions -> Response \cup {NULL}]
      /\ out' \in [Sessions -> Outcome \cup {NULL}]
  BY <1>1, EndShape
<1>4. Typed'
  BY <1>0, <1>1, <1>3 DEF Typed
<1> QED
  BY <1>0, <1>1, <1>2, <1>4 DEF Base

\* A step that only moves session a on, with its new place, locals and files.
Moves(a, p, i, w, r, o) ==
  /\ pc' = [pc EXCEPT ![a] = p] /\ idx' = [idx EXCEPT ![a] = i] /\ ws' = [ws EXCEPT ![a] = w]
  /\ resp' = [resp EXCEPT ![a] = r] /\ out' = [out EXCEPT ![a] = o]

LEMMA MovesTyped ==
  ASSUME Base, NEW a \in Sessions, NEW p \in PCs, NEW i \in Nat, NEW w \in Files \cup {NULL},
         NEW r \in Response \cup {NULL}, NEW o \in Outcome \cup {NULL}, Moves(a, p, i, w, r, o)
  PROVE  /\ pc' \in [Sessions -> PCs] /\ idx' \in [Sessions -> Nat]
         /\ ws' \in [Sessions -> Files \cup {NULL}]
         /\ resp' \in [Sessions -> Response \cup {NULL}]
         /\ out' \in [Sessions -> Outcome \cup {NULL}]
         /\ OthersStay(a)
         /\ pc'[a] = p /\ idx'[a] = i /\ ws'[a] = w /\ resp'[a] = r /\ out'[a] = o
<1>0. /\ pc \in [Sessions -> PCs] /\ idx \in [Sessions -> Nat]
      /\ ws \in [Sessions -> Files \cup {NULL}]
      /\ resp \in [Sessions -> Response \cup {NULL}]
      /\ out \in [Sessions -> Outcome \cup {NULL}]
  BY DEF Base, Typed
<1>1. pc' \in [Sessions -> PCs] /\ pc'[a] = p /\ \A d \in Sessions \ {a} : pc'[d] = pc[d]
  BY <1>0 DEF Moves
<1>2. idx' \in [Sessions -> Nat] /\ idx'[a] = i /\ \A d \in Sessions \ {a} : idx'[d] = idx[d]
  BY <1>0 DEF Moves
<1>3. /\ ws' \in [Sessions -> Files \cup {NULL}] /\ ws'[a] = w
      /\ \A d \in Sessions \ {a} : ws'[d] = ws[d]
  BY <1>0 DEF Moves
<1>4. /\ resp' \in [Sessions -> Response \cup {NULL}] /\ resp'[a] = r
      /\ \A d \in Sessions \ {a} : resp'[d] = resp[d]
  BY <1>0 DEF Moves
<1>5. /\ out' \in [Sessions -> Outcome \cup {NULL}] /\ out'[a] = o
      /\ \A d \in Sessions \ {a} : out'[d] = out[d]
  BY <1>0 DEF Moves
<1> QED
  BY <1>1, <1>2, <1>3, <1>4, <1>5 DEF OthersStay

\* What is not assigned stays.
LEMMA Unassigned ==
  ASSUME Base, NEW a \in Sessions
  PROVE  /\ idx = [idx EXCEPT ![a] = idx[a]] /\ ws = [ws EXCEPT ![a] = ws[a]]
         /\ resp = [resp EXCEPT ![a] = resp[a]] /\ out = [out EXCEPT ![a] = out[a]]
         /\ pc[a] \in PCs /\ idx[a] \in Nat /\ ws[a] \in Files \cup {NULL}
         /\ resp[a] \in Response \cup {NULL} /\ out[a] \in Outcome \cup {NULL}
         /\ SessionOK(a)
<1>0. /\ pc \in [Sessions -> PCs] /\ idx \in [Sessions -> Nat]
      /\ ws \in [Sessions -> Files \cup {NULL}]
      /\ resp \in [Sessions -> Response \cup {NULL}]
      /\ out \in [Sessions -> Outcome \cup {NULL}]
  BY DEF Base, Typed
<1>1. idx = [idx EXCEPT ![a] = idx[a]] /\ ws = [ws EXCEPT ![a] = ws[a]]
  BY <1>0
<1>2. resp = [resp EXCEPT ![a] = resp[a]] /\ out = [out EXCEPT ![a] = out[a]]
  BY <1>0
<1> QED
  BY <1>0, <1>1, <1>2 DEF Base

\* The session's new place fits what it has: then the invariant is kept.
LEMMA MovesBase ==
  ASSUME Base, NEW a \in Sessions, NEW p \in PCs \ {"none"}, NEW i \in 0..Len(log),
         NEW w \in Files \cup {NULL},
         NEW r \in Response \cup {NULL}, NEW o \in Outcome \cup {NULL}, Moves(a, p, i, w, r, o),
         p \in Asking \cup {"commit"} => w \in Files,
         p \in {"store", "tool"} => r \in Response,
         p = "commit" <=> o # NULL,
         pc[a] # "none", token' = token, LogGrows(a)
  PROVE  /\ \A d \in Sessions : SessionOK(d)'
         /\ pc' \in [Sessions -> PCs] /\ idx' \in [Sessions -> Nat]
         /\ ws' \in [Sessions -> Files \cup {NULL}]
         /\ resp' \in [Sessions -> Response \cup {NULL}]
         /\ out' \in [Sessions -> Outcome \cup {NULL}]
         /\ log' \in Seq(Event)
<1>0. log \in Seq(Event) /\ SessionOK(a)
  BY DEF Base, Typed
<1>1. i \in Nat /\ i <= Len(log) /\ Len(log) \in Nat
  BY <1>0
<1>2. log' \in Seq(Event) /\ Len(log) <= Len(log') /\ Len(log') \in Nat
  BY <1>0, LogGrowsType
<1>3. /\ pc' \in [Sessions -> PCs] /\ idx' \in [Sessions -> Nat]
      /\ ws' \in [Sessions -> Files \cup {NULL}]
      /\ resp' \in [Sessions -> Response \cup {NULL}]
      /\ out' \in [Sessions -> Outcome \cup {NULL}]
      /\ OthersStay(a)
      /\ pc'[a] = p /\ idx'[a] = i /\ ws'[a] = w /\ resp'[a] = r /\ out'[a] = o
  BY <1>1, MovesTyped
<1>4. idx'[a] <= Len(log')
  BY <1>1, <1>2, <1>3
<1>5. SessionOK(a)'
  BY <1>0, <1>3, <1>4 DEF SessionOK
<1> QED
  BY <1>2, <1>3, <1>5, OthersOK

LEMMA StopType ==
  ASSUME NEW end \in Terminal
  PROVE  /\ StopOutcome(end) \in Outcome /\ StopOutcome(end) # NULL
         /\ StopOutcome(end).action = NULL /\ StopOutcome(end).final = TRUE
         /\ StopOutcome(end).cost = 0 /\ StopOutcome(end).obs = "none"
         /\ StopOutcome(end).status = end
<1>1. StopOutcome(end) \in Outcome
  BY DEF StopOutcome, Outcome, Observations
<1>2. StopOutcome(end) # NULL
  BY <1>1, ConstantsAssumption
<1> QED
  BY <1>1, <1>2 DEF StopOutcome

\* check_limits lets the run go on exactly if no limit is reached.
LEMMA LimitsFree ==
  ASSUME NEW s
  PROVE  /\ CheckLimits(s) = NULL \/ CheckLimits(s) \in Terminal
         /\ CheckLimits(s) = NULL =>
              ~(SpentFrom(s) >= Budget) /\ ~(Len(s) >= MaxSteps) /\ ~DetectLoop(s)
<1>1. NULL \notin Terminal
  BY ConstantsAssumption
<1> QED
  BY <1>1 DEF CheckLimits, Terminal

\* Replay: the session has replayed the log as it is and has its files.
LEMMA ReplayShape ==
  ASSUME Base, NEW a \in Sessions, Replay(a)
  PROVE  /\ Base' /\ OthersStay(a)
         /\ UNCHANGED <<status, log, token, held, resp, cache, calls, billed, lastWs>>
         /\ pc[a] = "replay" /\ idx'[a] = Len(log)
         /\ ws'[a] = (IF ws[a] = NULL THEN Rebuilt(log) ELSE ws[a])
         /\ \/ pc'[a] = "lookup" /\ CheckLimits(log) = NULL
            \/ pc'[a] = "commit" /\ out'[a] = StopOutcome(CheckLimits(log))
               /\ CheckLimits(log) \in Terminal
<1>0. Typed /\ (held => status = "running") /\ SessionOK(a) /\ log \in Seq(Event)
  BY DEF Base, Typed
<1> DEFINE stop == CheckLimits(log)
           p == IF stop = NULL THEN "lookup" ELSE "commit"
           o == IF stop = NULL THEN out[a] ELSE StopOutcome(stop)
           w == IF ws[a] = NULL THEN Rebuilt(log) ELSE ws[a]
           n == Len(log)
<1>1. /\ pc[a] = "replay" /\ resp' = resp /\ status' = status /\ log' = log /\ token' = token
      /\ held' = held /\ cache' = cache /\ calls' = calls /\ billed' = billed /\ lastWs' = lastWs
  BY DEF Replay, logVars, tables
<1>2. /\ idx = [idx EXCEPT ![a] = idx[a]] /\ ws = [ws EXCEPT ![a] = ws[a]]
      /\ resp = [resp EXCEPT ![a] = resp[a]] /\ out = [out EXCEPT ![a] = out[a]]
      /\ ws[a] \in Files \cup {NULL} /\ resp[a] \in Response \cup {NULL}
      /\ out[a] \in Outcome \cup {NULL}
  BY Unassigned
<1>3. ws' = [ws EXCEPT ![a] = w]
  BY DEF Replay, Workspace
<1>4. pc' = [pc EXCEPT ![a] = p]
  BY DEF Replay, Goto
<1>5. out' = [out EXCEPT ![a] = o]
  <2>1. CASE stop = NULL
    BY <1>2, <2>1 DEF Replay
  <2>2. CASE stop # NULL
    BY <2>2 DEF Replay
  <2> QED
    BY <2>1, <2>2
<1>6. idx' = [idx EXCEPT ![a] = n]
  BY DEF Replay
<1>7. w \in Files
  BY <1>0, <1>2, RebuiltType
<1>8. out[a] = NULL
  BY <1>0, <1>1 DEF SessionOK
<1>9. stop = NULL \/ stop \in Terminal
  BY LimitsFree
<1>10. o \in Outcome \cup {NULL} /\ (p = "commit" <=> o # NULL)
  BY <1>8, <1>9, StopType
<1>11. p \in PCs \ {"none"} /\ p \notin {"store", "tool"} /\ n \in 0..Len(log) /\ n \in Nat
  BY <1>0 DEF PCs
<1>12. \/ p = "lookup" /\ stop = NULL
       \/ p = "commit" /\ o = StopOutcome(stop) /\ stop \in Terminal
  BY <1>9
<1> HIDE DEF p, o, w, n
<1>13. Moves(a, p, n, w, resp[a], o)
  BY <1>1, <1>2, <1>3, <1>4, <1>5, <1>6 DEF Moves
<1>14. LogGrows(a)
  BY <1>1 DEF LogGrows
<1>15. /\ \A d \in Sessions : SessionOK(d)'
       /\ pc' \in [Sessions -> PCs] /\ idx' \in [Sessions -> Nat]
       /\ ws' \in [Sessions -> Files \cup {NULL}]
       /\ resp' \in [Sessions -> Response \cup {NULL}]
       /\ out' \in [Sessions -> Outcome \cup {NULL}]
  BY <1>1, <1>2, <1>7, <1>10, <1>11, <1>13, <1>14, MovesBase
<1>16. Typed'
  BY <1>0, <1>1, <1>15 DEF Typed
<1>17. Base'
  BY <1>0, <1>1, <1>15, <1>16 DEF Base
<1>18. OthersStay(a) /\ pc'[a] = p /\ idx'[a] = n /\ ws'[a] = w /\ out'[a] = o
  BY <1>2, <1>7, <1>10, <1>11, <1>13, MovesTyped
<1> QED
  BY <1>1, <1>12, <1>17, <1>18 DEF w, n

\* The look-up, the ledger's row, the call and the answer's way into the cache: the
\* session goes on with its files, at the same step.
LEMMA AskShape ==
  ASSUME Base, NEW a \in Sessions, Lookup(a) \/ RecordCall(a) \/ Ask(a) \/ Store(a)
  PROVE  /\ Base' /\ OthersStay(a)
         /\ UNCHANGED <<status, log, token, held, idx, ws, out, lastWs>>
         /\ pc[a] \in Asking /\ pc'[a] \in Asking
         /\ pc'[a] \in {"lookup", "record"} => pc[a] = "lookup" /\ pc'[a] = "record"
<1>0. Typed /\ (held => status = "running") /\ SessionOK(a) /\ log \in Seq(Event)
  BY DEF Base, Typed
<1>1. /\ idx' = idx /\ out' = out /\ status' = status /\ log' = log /\ token' = token
      /\ held' = held /\ ws' = ws /\ lastWs' = lastWs /\ pc[a] \in Asking /\ pc[a] # "none"
  BY DEF Lookup, RecordCall, Ask, Store, logVars, Asking
<1>2. /\ idx = [idx EXCEPT ![a] = idx[a]] /\ ws = [ws EXCEPT ![a] = ws[a]]
      /\ resp = [resp EXCEPT ![a] = resp[a]] /\ out = [out EXCEPT ![a] = out[a]]
      /\ idx[a] \in Nat /\ resp[a] \in Response \cup {NULL} /\ out[a] \in Outcome \cup {NULL}
  BY Unassigned
<1>3. ws[a] \in Files /\ out[a] = NULL /\ idx[a] \in 0..Len(log)
  BY <1>0, <1>1, <1>2 DEF SessionOK, Asking
<1>4. PICK p \in Asking, r \in Response \cup {NULL} :
        /\ pc' = [pc EXCEPT ![a] = p] /\ resp' = [resp EXCEPT ![a] = r]
        /\ p \in {"store", "tool"} => r \in Response
        /\ p # "lookup" /\ (p = "record" => pc[a] = "lookup")
        /\ \A c \in cache' : c.resp \in Response
        /\ calls' \in Seq(CallRow) /\ billed' \in Nat
  <2>1. CASE Lookup(a)
    <3>1. /\ cache' = cache /\ calls' = calls /\ billed' = billed /\ pc[a] = "lookup"
          /\ \A c \in cache : c.resp \in Response
          /\ calls \in Seq(CallRow) /\ billed \in Nat
      BY <1>0, <2>1 DEF Lookup, tables, Typed
    <3>2. CASE \E c \in cache : resp' = [resp EXCEPT ![a] = c.resp] /\ Goto(a, "tool")
      <4>1. PICK c \in cache : resp' = [resp EXCEPT ![a] = c.resp] /\ Goto(a, "tool")
        BY <3>2
      <4>2. c.resp \in Response /\ "tool" \in Asking
        BY <3>1 DEF Asking
      <4> QED
        BY <3>1, <4>1, <4>2 DEF Goto
    <3>3. CASE Goto(a, "record") /\ resp' = resp
      <4>1. "record" \in Asking
        BY DEF Asking
      <4> QED
        BY <1>2, <3>1, <3>3, <4>1 DEF Goto
    <3> QED
      BY <2>1, <3>2, <3>3 DEF Lookup
  <2>2. CASE RecordCall(a)
    <3> DEFINE row == [step |-> idx[a], attempt |-> a]
    <3>1. /\ cache' = cache /\ billed' = billed /\ resp' = resp /\ Goto(a, "ask")
          /\ \A c \in cache : c.resp \in Response
          /\ calls' = Append(calls, row)
          /\ calls \in Seq(CallRow) /\ billed \in Nat
      BY <1>0, <2>2 DEF RecordCall, Typed
    <3>2. row \in CallRow /\ "ask" \in Asking
      BY <1>2 DEF Asking, CallRow
    <3> HIDE DEF row
    <3>3. calls' \in Seq(CallRow)
      BY <3>1, <3>2
    <3> QED
      BY <1>2, <3>1, <3>2, <3>3 DEF Goto
  <2>3. CASE Ask(a)
    <3>1. PICK act \in Actions, c \in Costs :
            /\ resp' = [resp EXCEPT ![a] = [action |-> act, cost |-> c]]
            /\ billed' = billed + c
      BY <2>3 DEF Ask
    <3>2. [action |-> act, cost |-> c] \in Response /\ c \in Nat /\ "store" \in Asking
      BY ConstantsAssumption DEF Response, Asking
    <3>3. /\ cache' = cache /\ calls' = calls /\ Goto(a, "store")
          /\ \A e \in cache : e.resp \in Response
          /\ calls \in Seq(CallRow) /\ billed \in Nat
      BY <1>0, <2>3 DEF Ask, Typed
    <3>4. billed' \in Nat
      BY <3>1, <3>2, <3>3
    <3> QED
      BY <3>1, <3>2, <3>3, <3>4 DEF Goto
  <2>4. CASE Store(a)
    <3> DEFINE e == [key |-> CacheKey(a), resp |-> [resp[a] EXCEPT !.cost = Numeric6(@)]]
               n == Numeric6(resp[a].cost)
    <3>1. /\ calls' = calls /\ billed' = billed /\ resp' = resp /\ Goto(a, "tool")
          /\ \A c \in cache : c.resp \in Response
          /\ calls \in Seq(CallRow) /\ billed \in Nat
          /\ cache' = cache \/ cache' = cache \cup {e}
          /\ pc[a] = "store"
      BY <1>0, <2>4 DEF Store, Typed
    <3>2. resp[a] \in Response /\ "tool" \in Asking
      BY <1>0, <3>1 DEF SessionOK, Asking
    <3>3. n \in Nat
      <4>1. resp[a].cost \in Nat
        BY <3>2 DEF Response
      <4> QED
        BY <4>1 DEF Numeric6
    <3>4. e.resp = [resp[a] EXCEPT !.cost = n]
      OBVIOUS
    <3> HIDE DEF n, e
    <3>5. e.resp \in Response
      BY <3>2, <3>3, <3>4 DEF Response
    <3>6. \A c \in cache' : c.resp \in Response
      BY <3>1, <3>5
    <3> QED
      BY <1>2, <3>1, <3>2, <3>6 DEF Goto
  <2> QED
    BY <2>1, <2>2, <2>3, <2>4
<1>5. Moves(a, p, idx[a], ws[a], r, out[a])
  BY <1>1, <1>2, <1>4 DEF Moves
<1>6. LogGrows(a)
  BY <1>1 DEF LogGrows
<1>7. p \in PCs \ {"none"} /\ p # "commit"
  BY DEF Asking, PCs
<1>8. /\ \A d \in Sessions : SessionOK(d)'
      /\ pc' \in [Sessions -> PCs] /\ resp' \in [Sessions -> Response \cup {NULL}]
  BY <1>1, <1>2, <1>3, <1>4, <1>5, <1>6, <1>7, MovesBase
<1>9. Typed'
  BY <1>0, <1>1, <1>4, <1>8 DEF Typed
<1>10. Base'
  BY <1>0, <1>1, <1>8, <1>9 DEF Base
<1>11. OthersStay(a) /\ pc'[a] = p
  BY <1>2, <1>3, <1>4, <1>5, <1>7, MovesTyped
<1> QED
  BY <1>1, <1>4, <1>10, <1>11

\* The tool: the outcome holds the answer, its cost and what the tool said.
LEMMA ExecuteShape ==
  ASSUME Base, NEW a \in Sessions, Execute(a)
  PROVE  /\ Base' /\ OthersStay(a)
         /\ UNCHANGED <<status, log, token, held, idx, cache, calls, billed, lastWs>>
         /\ pc[a] = "tool" /\ pc'[a] = "commit" /\ resp[a] \in Response
         /\ \E x \in Executed(resp[a].action, ws[a]) : ws'[a] = x.files /\ out'[a].obs = x.obs
         /\ out'[a].action = resp[a].action /\ out'[a].cost = resp[a].cost
         /\ out'[a] \in Outcome
<1>0. Typed /\ (held => status = "running") /\ SessionOK(a) /\ log \in Seq(Event)
  BY DEF Base, Typed
<1>1. /\ idx' = idx /\ status' = status /\ log' = log /\ token' = token
      /\ held' = held /\ lastWs' = lastWs /\ pc[a] = "tool" /\ pc[a] # "none"
      /\ cache' = cache /\ calls' = calls /\ billed' = billed
      /\ resp' = [resp EXCEPT ![a] = NULL] /\ pc' = [pc EXCEPT ![a] = "commit"]
  BY DEF Execute, logVars, tables, Goto
<1>2. idx = [idx EXCEPT ![a] = idx[a]] /\ idx[a] \in Nat
  BY Unassigned
<1>3. resp[a] \in Response /\ ws[a] \in Files /\ idx[a] \in 0..Len(log)
  BY <1>0, <1>1, <1>2 DEF SessionOK, Asking
<1> DEFINE act == resp[a].action
           cost == resp[a].cost
           done == act.tool = "finish"
<1>4. act \in Actions /\ cost \in Nat
  BY <1>3 DEF Response
<1>5. PICK x \in Executed(act, ws[a]) :
        /\ ws' = [ws EXCEPT ![a] = x.files]
        /\ out' = [out EXCEPT ![a] = [action |-> act, obs |-> x.obs, cost |-> cost,
                                      final |-> done, status |-> "succeeded"]]
  BY DEF Execute, Workspace
<1>6. x.obs \in Observations /\ x.files \in Files
  BY <1>3, <1>4, ExecutedFiles
<1> DEFINE obs == x.obs
           o == [action |-> act, obs |-> obs, cost |-> cost, final |-> done,
                 status |-> "succeeded"]
<1>7. done \in BOOLEAN /\ out' = [out EXCEPT ![a] = o] /\ obs \in Observations
  BY <1>5, <1>6
<1> HIDE DEF act, cost, done, obs
<1>8. o \in Outcome
  <2>1. /\ [action |-> act, obs |-> obs, cost |-> cost, final |-> TRUE,
            status |-> "succeeded"] \in Outcome
        /\ [action |-> act, obs |-> obs, cost |-> cost, final |-> FALSE,
            status |-> "succeeded"] \in Outcome
    BY <1>4, <1>7 DEF Outcome, Terminal
  <2> QED
    BY <1>7, <2>1, Zenon
<1>9. o # NULL
  BY <1>8, ConstantsAssumption
<1>10. o.action = act /\ o.cost = cost /\ o.obs = obs
  OBVIOUS
<1> HIDE DEF o
<1>11. Moves(a, "commit", idx[a], x.files, NULL, o)
  BY <1>1, <1>2, <1>5, <1>7 DEF Moves
<1>12. LogGrows(a) /\ "commit" \in PCs \ {"none"} /\ "commit" \notin {"store", "tool"}
  BY <1>1 DEF LogGrows, PCs
<1>13. /\ \A d \in Sessions : SessionOK(d)'
       /\ pc' \in [Sessions -> PCs] /\ ws' \in [Sessions -> Files \cup {NULL}]
       /\ resp' \in [Sessions -> Response \cup {NULL}]
       /\ out' \in [Sessions -> Outcome \cup {NULL}]
  BY <1>1, <1>3, <1>6, <1>8, <1>9, <1>11, <1>12, MovesBase
<1>14. Typed'
  BY <1>0, <1>1, <1>13 DEF Typed
<1>15. Base'
  BY <1>0, <1>1, <1>13, <1>14 DEF Base
<1>16. OthersStay(a) /\ pc'[a] = "commit" /\ ws'[a] = x.files /\ out'[a] = o
  BY <1>2, <1>6, <1>8, <1>11, <1>12, MovesTyped
<1> QED
  BY <1>1, <1>3, <1>5, <1>8, <1>10, <1>15, <1>16 DEF act, cost, obs

\* The event that attempt a writes for the outcome o.
EventOf(o, a) == [action |-> o.action, obs |-> o.obs, cost |-> o.cost, final |-> o.final,
                  attempt |-> a]
CommitEvent(a) == EventOf(out[a], a)

LEMMA EventOfType ==
  ASSUME NEW a \in Sessions, NEW o \in Outcome
  PROVE  /\ EventOf(o, a) \in Event
         /\ EventOf(o, a).action = o.action /\ EventOf(o, a).obs = o.obs
         /\ EventOf(o, a).cost = o.cost /\ EventOf(o, a).final = o.final
         /\ EventOf(o, a).attempt = a
<1> DEFINE act == o.action
           obs == o.obs
           cost == o.cost
           final == o.final
<1>1. act \in Actions \cup {NULL} /\ obs \in Observations /\ cost \in Nat /\ final \in BOOLEAN
  BY DEF Outcome
<1>2. EventOf(o, a) = [action |-> act, obs |-> obs, cost |-> cost, final |-> final,
                       attempt |-> a]
  BY DEF EventOf
<1> HIDE DEF act, obs, cost, final
<1>3. /\ [action |-> act, obs |-> obs, cost |-> cost, final |-> TRUE, attempt |-> a] \in Event
      /\ [action |-> act, obs |-> obs, cost |-> cost, final |-> FALSE, attempt |-> a] \in Event
  BY <1>1 DEF Event
<1>4. EventOf(o, a) \in Event
  BY <1>1, <1>2, <1>3, Zenon
<1> QED
  BY <1>2, <1>4 DEF act, obs, cost, final

LEMMA CommitEventType ==
  ASSUME NEW a \in Sessions, out[a] \in Outcome
  PROVE  /\ CommitEvent(a) \in Event
         /\ CommitEvent(a).action = out[a].action /\ CommitEvent(a).obs = out[a].obs
         /\ CommitEvent(a).cost = out[a].cost /\ CommitEvent(a).final = out[a].final
         /\ CommitEvent(a).attempt = a
  BY EventOfType DEF CommitEvent

\* commit_step: the owner's event is in the log and its files are the last ones, or
\* the session has lost the lease and ends.
Committed(a) ==
  /\ Current(a) /\ log' = Append(log, CommitEvent(a)) /\ lastWs' = ws[a]
  /\ \/ /\ out[a].final /\ status' = out[a].status /\ held' = FALSE /\ pc'[a] = "ended"
     \/ ~out[a].final /\ status' = status /\ held' = TRUE /\ pc'[a] = "replay"

LEMMA CommitShape ==
  ASSUME Base, NEW a \in Sessions, Commit(a)
  PROVE  /\ Base' /\ OthersStay(a)
         /\ UNCHANGED <<token, ws, cache, calls, billed>>
         /\ pc[a] = "commit" /\ out[a] \in Outcome
         /\ \/ Committed(a)
            \/ /\ ~Current(a) /\ UNCHANGED <<status, log, held, lastWs>>
               /\ pc'[a] = "ended"
<1>0. Typed /\ (held => status = "running") /\ SessionOK(a) /\ log \in Seq(Event)
  BY DEF Base, Typed
<1>1. /\ pc[a] = "commit" /\ token' = token /\ ws' = ws /\ cache' = cache /\ calls' = calls
      /\ billed' = billed /\ pc[a] # "none"
  BY DEF Commit, tables
<1>2. /\ idx = [idx EXCEPT ![a] = idx[a]] /\ ws = [ws EXCEPT ![a] = ws[a]]
      /\ resp = [resp EXCEPT ![a] = resp[a]]
      /\ idx[a] \in Nat /\ resp[a] \in Response \cup {NULL} /\ out[a] \in Outcome \cup {NULL}
  BY Unassigned
<1>3. out[a] \in Outcome /\ ws[a] \in Files /\ idx[a] \in 0..Len(log)
  BY <1>0, <1>1, <1>2 DEF SessionOK
<1>4. out[a].final \in BOOLEAN /\ out[a].status \in Terminal
  BY <1>3 DEF Outcome
<1>5. CASE ~Current(a)
  <2>1. End(a) /\ UNCHANGED <<status, log, held, lastWs>>
    BY <1>5 DEF Commit
  <2>2. LogGrows(a)
    BY <2>1 DEF LogGrows
  <2>3. \A d \in Sessions : SessionOK(d)'
    BY <1>1, <2>1, <2>2, EndOK
  <2>4. /\ OthersStay(a) /\ pc' \in [Sessions -> PCs] /\ idx' \in [Sessions -> Nat]
        /\ resp' \in [Sessions -> Response \cup {NULL}]
        /\ out' \in [Sessions -> Outcome \cup {NULL}] /\ pc'[a] = "ended"
    BY <1>1, <2>1, EndShape
  <2>5. Typed'
    BY <1>0, <1>1, <2>1, <2>4 DEF Typed
  <2>6. Base'
    BY <1>0, <2>1, <2>3, <2>5 DEF Base
  <2> QED
    BY <1>1, <1>3, <1>5, <2>1, <2>4, <2>6
<1>6. CASE Current(a)
  <2>1. log' = Append(log, CommitEvent(a)) /\ lastWs' = ws[a]
    BY <1>6 DEF Commit, CommitEvent, EventOf, Workspace
  <2>2. LogGrows(a)
    BY <1>3, <1>6, <2>1, CommitEventType DEF LogGrows
  <2>3. log' \in Seq(Event)
    BY <1>0, <2>2, LogGrowsType
  <2>4. CASE out[a].final
    <3>1. End(a) /\ status' = out[a].status /\ held' = FALSE
      BY <1>6, <2>4 DEF Commit
    <3>2. \A d \in Sessions : SessionOK(d)'
      BY <1>1, <2>2, <3>1, EndOK
    <3>3. /\ OthersStay(a) /\ pc' \in [Sessions -> PCs] /\ idx' \in [Sessions -> Nat]
          /\ resp' \in [Sessions -> Response \cup {NULL}]
          /\ out' \in [Sessions -> Outcome \cup {NULL}] /\ pc'[a] = "ended"
      BY <1>1, <3>1, EndShape
    <3>4. Typed'
      BY <1>0, <1>1, <1>3, <1>4, <2>1, <2>3, <3>1, <3>3 DEF Typed
    <3>5. Base'
      BY <3>1, <3>2, <3>4 DEF Base
    <3> QED
      BY <1>1, <1>3, <1>6, <2>1, <2>4, <3>1, <3>3, <3>5 DEF Committed
  <2>5. CASE ~out[a].final
    <3>1. /\ pc' = [pc EXCEPT ![a] = "replay"] /\ out' = [out EXCEPT ![a] = NULL]
          /\ idx' = idx /\ resp' = resp /\ status' = status /\ held' = TRUE
      BY <1>6, <2>5 DEF Commit, Goto
    <3>2. Moves(a, "replay", idx[a], ws[a], resp[a], NULL)
      BY <1>1, <1>2, <3>1 DEF Moves
    <3>3. "replay" \in PCs \ {"none"} /\ "replay" \notin Asking \cup {"commit"}
      BY DEF PCs, Asking
    <3>4. /\ \A d \in Sessions : SessionOK(d)'
          /\ pc' \in [Sessions -> PCs] /\ out' \in [Sessions -> Outcome \cup {NULL}]
      <4>1. "replay" \notin {"store", "tool"}
        OBVIOUS
      <4> QED
        BY <1>1, <1>2, <1>3, <2>2, <3>2, <3>3, <4>1, MovesBase
    <3>5. Typed'
      BY <1>0, <1>1, <1>3, <2>1, <2>3, <3>1, <3>4 DEF Typed
    <3>6. Base'
      BY <1>0, <1>6, <3>1, <3>4, <3>5 DEF Base, Current
    <3>7. OthersStay(a) /\ pc'[a] = "replay"
      BY <1>2, <1>3, <3>2, <3>3, MovesTyped
    <3> QED
      BY <1>1, <1>3, <1>6, <2>1, <2>5, <3>1, <3>6, <3>7 DEF Committed
  <2> QED
    BY <1>4, <2>4, <2>5
<1> QED
  BY <1>5, <1>6

\* The engine's own steps.
LEMMA ClaimShape ==
  ASSUME Base, Claim
  PROVE  /\ Base' /\ token + 1 \in Sessions /\ OthersStay(token + 1)
         /\ UNCHANGED <<log, idx, ws, resp, out, cache, calls, billed, lastWs>>
         /\ status \in {"pending", "running"} /\ status' = "running" /\ ~held /\ held' = TRUE
         /\ token' = token + 1 /\ pc[token + 1] = "none" /\ pc'[token + 1] = "replay"
         /\ ws[token + 1] = NULL
<1>0. Typed
  BY DEF Base
<1>a. PICK a \in Sessions : a = token + 1
  BY <1>0, ConstantsAssumption DEF Claim, Typed, Sessions
<1>1. /\ status \in {"pending", "running"} /\ ~held /\ token < MaxSessions
      /\ status' = "running" /\ token' = a /\ held' = TRUE
      /\ pc' = [pc EXCEPT ![a] = "replay"]
      /\ UNCHANGED <<log, idx, ws, resp, out, cache, calls, billed, lastWs>>
  BY <1>a DEF Claim, Goto, tables
<1>2. token \in Nat /\ MaxSessions \in Nat /\ a \in Sessions /\ a > token /\ token' \in 0..MaxSessions
  BY <1>0, <1>1, <1>a, ConstantsAssumption DEF Typed, Sessions
<1>3. SessionOK(a) /\ pc[a] = "none" /\ ws[a] = NULL
  BY <1>2 DEF Base, SessionOK
<1>4. "replay" \in PCs /\ "replay" \notin Asking \cup {"commit"}
  BY DEF PCs, Asking
<1>5. /\ pc' \in [Sessions -> PCs] /\ pc'[a] = "replay"
      /\ \A d \in Sessions \ {a} : pc'[d] = pc[d]
  BY <1>0, <1>1, <1>2, <1>4 DEF Typed
<1>6. ~(a > token')
  BY <1>1, <1>2
<1>7. ASSUME NEW d \in Sessions, d # a PROVE d > token' <=> d > token
  BY <1>1, <1>2, <1>7, <1>a DEF Sessions
<1>8. Typed'
  BY <1>0, <1>1, <1>2, <1>5 DEF Typed
<1>9. SessionOK(a)'
  BY <1>1, <1>3, <1>4, <1>5, <1>6 DEF SessionOK
<1>10. ASSUME NEW d \in Sessions, d # a PROVE SessionOK(d)'
  <2>1. SessionOK(d) /\ pc'[d] = pc[d]
    BY <1>5, <1>10 DEF Base
  <2> QED
    BY <1>1, <1>7, <1>10, <2>1 DEF SessionOK
<1>11. Base'
  BY <1>1, <1>8, <1>9, <1>10 DEF Base
<1>12. OthersStay(a)
  BY <1>1, <1>5 DEF OthersStay
<1> QED
  BY <1>1, <1>2, <1>3, <1>5, <1>11, <1>12, <1>a

LEMMA EngineBase ==
  ASSUME Base, Submit \/ Revoke \/ UNCHANGED vars
  PROVE  /\ Base'
         /\ UNCHANGED <<log, token, pc, idx, ws, resp, out, cache, calls, billed, lastWs>>
         /\ (held' = held \/ held' = FALSE)
         /\ status' = status \/ (status = "absent" /\ status' = "pending")
<1>1. /\ UNCHANGED <<log, token, pc, idx, ws, resp, out, cache, calls, billed, lastWs>>
      /\ (held' = held \/ held' = FALSE)
      /\ status' = status \/ (status = "absent" /\ status' = "pending")
      /\ (held' => status' = "running")
  BY DEF Base, Submit, Revoke, vars, logVars, tables
<1>2. Typed'
  BY <1>1 DEF Base, Typed
<1>3. \A d \in Sessions : SessionOK(d)'
  BY <1>1 DEF Base, SessionOK
<1> QED
  BY <1>1, <1>2, <1>3 DEF Base

LEMMA BaseInit == Init => Base
<1> SUFFICES ASSUME Init PROVE Base
  OBVIOUS
<1>1. EmptyWorkspace \in Files
  BY DEF EmptyWorkspace, Files, Contents
<1>2. log = <<>> /\ log \in Seq(Event) /\ Len(log) = 0
  BY DEF Init
<1>3. calls = <<>> /\ calls \in Seq(CallRow)
  BY DEF Init
<1>4. /\ pc = [a \in Sessions |-> "none"] /\ idx = [a \in Sessions |-> 0]
      /\ ws = [d \in Sessions |-> NULL] /\ resp = [a \in Sessions |-> NULL]
      /\ out = [a \in Sessions |-> NULL] /\ token = 0
  BY DEF Init
<1>5. "none" \in PCs /\ 0 \in 0..MaxSessions /\ \A a \in Sessions : a > 0
  BY ConstantsAssumption DEF PCs, Sessions
<1>6. Typed
  <2>1. /\ status = "absent" /\ held = FALSE /\ cache = {} /\ billed = 0
        /\ lastWs = EmptyWorkspace
    BY DEF Init
  <2>2. pc \in [Sessions -> PCs] /\ idx \in [Sessions -> Nat]
    BY <1>4, <1>5
  <2>3. /\ ws \in [Sessions -> Files \cup {NULL}]
        /\ resp \in [Sessions -> Response \cup {NULL}]
        /\ out \in [Sessions -> Outcome \cup {NULL}]
    BY <1>4
  <2> QED
    BY <1>1, <1>2, <1>3, <1>4, <1>5, <2>1, <2>2, <2>3 DEF Typed
<1>7. \A a \in Sessions : SessionOK(a)
  BY <1>2, <1>4, <1>5 DEF SessionOK, Asking
<1> QED
  BY <1>6, <1>7 DEF Init, Base

\* Who takes the next step, each with its own lemma.
LEMMA StepCases ==
  ASSUME [Next]_vars
  PROVE  \/ Submit \/ Revoke \/ UNCHANGED vars
         \/ Claim
         \/ \E a \in Sessions : \/ Replay(a) \/ Execute(a) \/ Commit(a) \/ Crash(a)
                                \/ Lookup(a) \/ RecordCall(a) \/ Ask(a) \/ Store(a)
                                \/ (Raised(a) /\ pc[a] # "none")
<1>1. \A a \in Sessions : (pc[a] = "ask") \in BOOLEAN
  OBVIOUS
<1>2. ASSUME NEW a \in Sessions, StepRaises(a) \/ ReplayRaises(a)
      PROVE  Raised(a) /\ pc[a] # "none"
  BY <1>1, <1>2 DEF StepRaises, ReplayRaises, Raised
<1> QED
  BY <1>2 DEF Next, Step

LEMMA BaseNext ==
  ASSUME Base, [Next]_vars
  PROVE  Base'
<1>1. ASSUME NEW a \in Sessions,
             \/ Replay(a) \/ Execute(a) \/ Commit(a) \/ Crash(a)
             \/ Lookup(a) \/ RecordCall(a) \/ Ask(a) \/ Store(a)
             \/ (Raised(a) /\ pc[a] # "none")
      PROVE  Base'
  BY <1>1, ReplayShape, ExecuteShape, CommitShape, CrashBase, AskShape, RaiseShape
<1> QED
  BY <1>1, StepCases, EngineBase, ClaimShape

\* Wherever next_step is: the events it replayed are a prefix of the log, it has files
\* once it replayed them, an answer once it was given one, and an outcome to commit.
THEOREM BaseInvariant == Spec => []Base
  BY BaseInit, BaseNext, PTL DEF Spec

\* Every variable keeps its type, and a session has an outcome exactly while it
\* commits.
THEOREM TypeCorrect == Spec => []TypeOK
<1>1. Base => TypeOK
  <2> SUFFICES ASSUME Base PROVE TypeOK
    OBVIOUS
  <2>1. Typed
    BY DEF Base
  <2>2. \A k \in DOMAIN log : log[k] \in Event
    BY <2>1 DEF Typed
  <2>3. \A k \in DOMAIN calls : calls[k] \in CallRow
    BY <2>1 DEF Typed
  <2>4. ASSUME NEW a \in Sessions
        PROVE  /\ idx[a] \in 0..Len(log)
               /\ ws[a] = NULL \/ DOMAIN ws[a] = Paths
               /\ resp[a] \in Response \cup {NULL}
               /\ pc[a] = "commit" <=> out[a] # NULL
    <3>1. SessionOK(a) /\ log \in Seq(Event) /\ idx[a] \in Nat /\ ws[a] \in Files \cup {NULL}
          /\ resp[a] \in Response \cup {NULL}
      BY <2>1 DEF Base, Typed
    <3>2. idx[a] \in 0..Len(log)
      BY <3>1 DEF SessionOK
    <3> QED
      BY <3>1, <3>2 DEF SessionOK, Files
  <2>5. idx \in [Sessions -> 0..Len(log)]
    BY <2>1, <2>4 DEF Typed
  <2> QED
    BY <2>1, <2>2, <2>3, <2>4, <2>5 DEF TypeOK, Typed, Event, PCs, CallRow
<1> QED
  BY BaseInvariant, <1>1, PTL
-----------------------------------------------------------------------------
\* The rows of attempt a in provider_calls are of earlier steps, or of its present
\* step once it has asked.
LedgerOK(a) ==
  \A k \in DOMAIN calls : calls[k].attempt = a =>
    /\ pc[a] # "none"
    /\ pc[a] = "replay" => calls[k].step < Len(log)
    /\ pc[a] \in {"lookup", "record"} => calls[k].step < idx[a]
    /\ pc[a] \in {"ask", "store", "tool", "commit"} => calls[k].step <= idx[a]

NoRepeat ==
  \A j, k \in DOMAIN calls :
    calls[j].step = calls[k].step /\ calls[j].attempt = calls[k].attempt => j = k

Ledger == (\A a \in Sessions : LedgerOK(a)) /\ NoRepeat

\* Rows without repetition pass the chaos suite's third check.
LEMMA NoRepeatChecked ==
  ASSUME calls \in Seq(CallRow), NoRepeat
  PROVE  OneCallPerAttempt
<1> SUFFICES ASSUME NEW step \in {calls[k].step : k \in DOMAIN calls}
             PROVE  LET group == {k \in DOMAIN calls : calls[k].step = step}
                    IN Cardinality({calls[k].attempt : k \in group}) = Cardinality(group)
  BY DEF OneCallPerAttempt, no_double_billing
<1> DEFINE G == {k \in DOMAIN calls : calls[k].step = step}
           T == {calls[k].attempt : k \in G}
           f == [k \in G |-> calls[k].attempt]
<1>1. DOMAIN calls = 1..Len(calls) /\ Len(calls) \in Nat
  OBVIOUS
<1>2. IsFiniteSet(1..Len(calls))
  BY <1>1, FS_Interval
<1>3. IsFiniteSet(G)
  BY <1>1, <1>2, FS_Subset
<1>4. f \in [G -> T] /\ \A t \in T : \E k \in G : f[k] = t
  OBVIOUS
<1>5. \A j, k \in G : f[j] = f[k] => j = k
  BY DEF NoRepeat
<1> HIDE DEF f, G, T
<1>6. f \in Surjection(G, T)
  BY <1>4 DEF Surjection
<1>7. f \in Injection(G, T)
  BY <1>4, <1>5 DEF Injection, IsInjective
<1>8. Cardinality(T) = Cardinality(G)
  BY <1>3, <1>6, <1>7, FS_Surjection
<1> QED
  BY <1>8 DEF G, T

\* A step without a new row, after which session a is no further than its rows
\* allow.
LEMMA LedgerStays ==
  ASSUME Base, Ledger, NEW a \in Sessions, OthersStay(a), LogGrows(a), calls' = calls,
         \A k \in DOMAIN calls : calls[k].attempt = a =>
           /\ pc'[a] # "none"
           /\ pc'[a] = "replay" => calls[k].step < Len(log')
           /\ pc'[a] \in {"lookup", "record"} => calls[k].step < idx'[a]
           /\ pc'[a] \in {"ask", "store", "tool", "commit"} => calls[k].step <= idx'[a]
  PROVE  Ledger'
<1>0. log \in Seq(Event) /\ calls \in Seq(CallRow)
  BY DEF Base, Typed
<1>1. Len(log) <= Len(log') /\ Len(log) \in Nat /\ Len(log') \in Nat
  BY <1>0, LogGrowsType
<1>2. \A k \in DOMAIN calls : calls[k].step \in Nat
  <2>1. \A k \in DOMAIN calls : calls[k] \in CallRow
    BY <1>0
  <2> QED
    BY <2>1 DEF CallRow
<1>3. LedgerOK(a)'
  BY DEF LedgerOK
<1>4. ASSUME NEW d \in Sessions, d # a PROVE LedgerOK(d)'
  <2>1. pc'[d] = pc[d] /\ idx'[d] = idx[d] /\ LedgerOK(d)
    BY <1>4 DEF OthersStay, Ledger
  <2> SUFFICES ASSUME NEW k \in DOMAIN calls, calls[k].attempt = d
               PROVE  /\ pc[d] # "none"
                      /\ pc[d] = "replay" => calls[k].step < Len(log')
                      /\ pc[d] \in {"lookup", "record"} => calls[k].step < idx[d]
                      /\ pc[d] \in {"ask", "store", "tool", "commit"} => calls[k].step <= idx[d]
    BY <2>1 DEF LedgerOK
  <2>2. /\ pc[d] # "none"
        /\ pc[d] = "replay" => calls[k].step < Len(log)
        /\ pc[d] \in {"lookup", "record"} => calls[k].step < idx[d]
        /\ pc[d] \in {"ask", "store", "tool", "commit"} => calls[k].step <= idx[d]
    BY <2>1 DEF LedgerOK
  <2> QED
    BY <1>1, <1>2, <2>2
<1>5. NoRepeat'
  BY DEF Ledger, NoRepeat
<1> QED
  BY <1>3, <1>4, <1>5 DEF Ledger

\* The new row is the first of its attempt for its step.
LEMMA LedgerRecord ==
  ASSUME Base, Ledger, NEW a \in Sessions, RecordCall(a), OthersStay(a)
  PROVE  Ledger'
<1>0. calls \in Seq(CallRow) /\ idx[a] \in Nat /\ pc \in [Sessions -> PCs]
  BY DEF Base, Typed
<1> DEFINE row == [step |-> idx[a], attempt |-> a]
           n == Len(calls) + 1
<1>1. /\ pc[a] = "record" /\ calls' = Append(calls, row) /\ idx' = idx /\ log' = log
      /\ pc' = [pc EXCEPT ![a] = "ask"]
  BY DEF RecordCall, Goto, logVars
<1>2. row.step = idx[a] /\ row.attempt = a
  OBVIOUS
<1> HIDE DEF row
<1>3. /\ n \in Nat /\ DOMAIN calls' = 1..n /\ DOMAIN calls = 1..(n - 1) /\ calls'[n] = row
      /\ \A k \in 1..(n - 1) : calls'[k] = calls[k]
  BY <1>0, <1>1
<1> HIDE DEF n
<1>4. \A k \in DOMAIN calls' : k = n \/ (k \in DOMAIN calls /\ calls'[k] = calls[k])
  BY <1>3
<1>5. pc'[a] = "ask"
  BY <1>0, <1>1
<1>6. \A k \in DOMAIN calls : calls[k].step \in Nat
  <2>1. \A k \in DOMAIN calls : calls[k] \in CallRow
    BY <1>0
  <2> QED
    BY <2>1 DEF CallRow
<1>7. \A k \in DOMAIN calls : calls[k].attempt = a => calls[k].step < idx[a]
  BY <1>1 DEF Ledger, LedgerOK
<1>8. LedgerOK(a)'
  <2>1. \A k \in DOMAIN calls' : calls'[k].attempt = a => calls'[k].step <= idx[a]
    BY <1>0, <1>2, <1>3, <1>4, <1>6, <1>7
  <2> QED
    BY <1>1, <1>5, <2>1 DEF LedgerOK
<1>9. ASSUME NEW d \in Sessions, d # a PROVE LedgerOK(d)'
  <2>1. pc'[d] = pc[d] /\ idx'[d] = idx[d] /\ LedgerOK(d)
    BY <1>9 DEF OthersStay, Ledger
  <2>2. \A k \in DOMAIN calls' : calls'[k].attempt = d => k \in DOMAIN calls /\ calls'[k] = calls[k]
    BY <1>2, <1>3, <1>4, <1>9
  <2> QED
    BY <1>1, <2>1, <2>2 DEF LedgerOK
<1>10. NoRepeat'
  <2> SUFFICES ASSUME NEW j \in DOMAIN calls', NEW k \in DOMAIN calls',
                      calls'[j].step = calls'[k].step, calls'[j].attempt = calls'[k].attempt
               PROVE  j = k
    BY DEF NoRepeat
  <2>1. CASE j # n /\ k # n
    BY <1>4, <2>1 DEF Ledger, NoRepeat
  <2>2. ASSUME NEW i \in DOMAIN calls, calls[i].step = row.step, calls[i].attempt = row.attempt
        PROVE  FALSE
    BY <1>0, <1>2, <1>6, <1>7, <2>2
  <2> QED
    BY <1>3, <1>4, <2>1, <2>2
<1> QED
  BY <1>8, <1>9, <1>10 DEF Ledger

\* A crash or an error, seen from outside the session.
LEMMA EndSteps ==
  ASSUME Base, NEW a \in Sessions, Crash(a) \/ (Raised(a) /\ pc[a] # "none")
  PROVE  /\ Base' /\ OthersStay(a) /\ UNCHANGED <<token, ws, cache, calls, billed, lastWs>>
         /\ pc[a] # "none" /\ pc'[a] = "ended" /\ LogGrows(a)
         /\ \/ log' = log /\ status' = status /\ (held' = held \/ held' = FALSE)
            \/ /\ Current(a) /\ log' = Append(log, NullEvent(a))
               /\ status' = "failed" /\ held' = FALSE
<1>1. /\ End(a) /\ pc[a] # "none" /\ UNCHANGED <<token, ws, cache, calls, billed, lastWs>>
  BY DEF Crash, Raised, Raise, tables, logVars
<1>2. OthersStay(a) /\ pc'[a] = "ended"
  BY <1>1, EndShape
<1>3. /\ Base'
      /\ \/ log' = log /\ status' = status /\ (held' = held \/ held' = FALSE)
         \/ /\ Current(a) /\ log' = Append(log, NullEvent(a))
            /\ status' = "failed" /\ held' = FALSE
  <2>1. CASE Crash(a)
    BY <2>1, CrashBase DEF Crash, logVars
  <2>2. CASE Raised(a) /\ pc[a] # "none"
    BY <2>2, RaiseShape
  <2> QED
    BY <2>1, <2>2
<1>4. LogGrows(a)
  BY <1>3, NullEventType DEF LogGrows
<1> QED
  BY <1>1, <1>2, <1>3, <1>4

LEMMA CommitGrows ==
  ASSUME Base, NEW a \in Sessions, Commit(a)
  PROVE  LogGrows(a)
  BY CommitShape, CommitEventType DEF Committed, LogGrows

LEMMA LedgerInit == Init => Ledger
  BY DEF Init, Ledger, LedgerOK, NoRepeat

LEMMA LedgerNext ==
  ASSUME Base, Ledger, [Next]_vars
  PROVE  Ledger'
<1>0. log \in Seq(Event) /\ calls \in Seq(CallRow) /\ Len(log) \in Nat
  BY DEF Base, Typed
<1>1. \A k \in DOMAIN calls : calls[k].step \in Nat
  <2>1. \A k \in DOMAIN calls : calls[k] \in CallRow
    BY <1>0
  <2> QED
    BY <2>1 DEF CallRow
<1>2. CASE Submit \/ Revoke \/ UNCHANGED vars
  BY <1>2, EngineBase DEF Ledger, LedgerOK, NoRepeat
<1>3. CASE Claim
  <2>1. PICK a \in Sessions : a = token + 1
    BY <1>3, ClaimShape
  <2>2. OthersStay(a) /\ log' = log /\ calls' = calls /\ pc[a] = "none"
    BY <1>3, <2>1, ClaimShape
  <2>3. \A k \in DOMAIN calls : calls[k].attempt # a
    BY <2>2 DEF Ledger, LedgerOK
  <2> QED
    BY <2>2, <2>3, LedgerStays DEF LogGrows
<1>4. ASSUME NEW a \in Sessions, Crash(a) \/ (Raised(a) /\ pc[a] # "none")
      PROVE  Ledger'
  <2>1. OthersStay(a) /\ LogGrows(a) /\ calls' = calls /\ pc'[a] = "ended"
    BY <1>4, EndSteps
  <2> QED
    BY <2>1, LedgerStays
<1>5. ASSUME NEW a \in Sessions, Replay(a)
      PROVE  Ledger'
  <2>1. /\ OthersStay(a) /\ log' = log /\ calls' = calls /\ pc[a] = "replay"
        /\ idx'[a] = Len(log) /\ (pc'[a] = "lookup" \/ pc'[a] = "commit")
    BY <1>5, ReplayShape
  <2>2. \A k \in DOMAIN calls : calls[k].attempt = a => calls[k].step < idx'[a]
    BY <2>1 DEF Ledger, LedgerOK
  <2>3. \A k \in DOMAIN calls : calls[k].attempt = a => calls[k].step <= idx'[a]
    BY <1>0, <1>1, <2>1, <2>2
  <2> QED
    BY <2>1, <2>2, <2>3, LedgerStays DEF LogGrows
<1>6. ASSUME NEW a \in Sessions, RecordCall(a)
      PROVE  Ledger'
  BY <1>6, AskShape, LedgerRecord
<1>7. ASSUME NEW a \in Sessions, Lookup(a) \/ Ask(a) \/ Store(a)
      PROVE  Ledger'
  <2>1. /\ OthersStay(a) /\ log' = log /\ idx' = idx /\ pc[a] \in Asking /\ pc'[a] \in Asking
        /\ pc'[a] \in {"lookup", "record"} => pc[a] = "lookup" /\ pc'[a] = "record"
    BY <1>7, AskShape
  <2>2. calls' = calls
    BY <1>7 DEF Lookup, Ask, Store, tables
  <2>3. \A k \in DOMAIN calls : calls[k].attempt = a => calls[k].step <= idx[a]
    <3>1. idx[a] \in Nat
      BY DEF Base, Typed
    <3> QED
      BY <1>1, <2>1, <3>1 DEF Ledger, LedgerOK, Asking
  <2>4. pc'[a] \in {"lookup", "record"} =>
          \A k \in DOMAIN calls : calls[k].attempt = a => calls[k].step < idx[a]
    BY <2>1 DEF Ledger, LedgerOK
  <2>5. pc'[a] # "none" /\ pc'[a] # "replay"
    BY <2>1 DEF Asking
  <2> QED
    BY <2>1, <2>2, <2>3, <2>4, <2>5, LedgerStays DEF LogGrows
<1>8. ASSUME NEW a \in Sessions, Execute(a)
      PROVE  Ledger'
  <2>1. /\ OthersStay(a) /\ log' = log /\ idx' = idx /\ calls' = calls
        /\ pc[a] = "tool" /\ pc'[a] = "commit"
    BY <1>8, ExecuteShape
  <2>2. \A k \in DOMAIN calls : calls[k].attempt = a => calls[k].step <= idx[a]
    BY <2>1 DEF Ledger, LedgerOK
  <2> QED
    BY <2>1, <2>2, LedgerStays DEF LogGrows
<1>9. ASSUME NEW a \in Sessions, Commit(a)
      PROVE  Ledger'
  <2>1. OthersStay(a) /\ LogGrows(a) /\ calls' = calls /\ pc[a] = "commit"
    BY <1>9, CommitShape, CommitGrows
  <2>2. CASE pc'[a] = "ended"
    BY <2>1, <2>2, LedgerStays
  <2>3. CASE pc'[a] # "ended"
    <3>1. pc'[a] = "replay" /\ log' = Append(log, CommitEvent(a))
      BY <1>9, <2>3, CommitShape DEF Committed
    <3>2. Len(log') = Len(log) + 1
      BY <1>0, <3>1
    <3>3. idx[a] <= Len(log) /\ idx[a] \in Nat
      BY DEF Base, SessionOK, Typed
    <3>4. \A k \in DOMAIN calls : calls[k].attempt = a => calls[k].step <= idx[a]
      BY <2>1 DEF Ledger, LedgerOK
    <3>5. \A k \in DOMAIN calls : calls[k].attempt = a => calls[k].step < Len(log')
      BY <1>0, <1>1, <3>2, <3>3, <3>4
    <3> QED
      BY <2>1, <3>1, <3>5, LedgerStays
  <2> QED
    BY <2>2, <2>3
<1> QED
  BY <1>2, <1>3, <1>4, <1>5, <1>6, <1>7, <1>8, <1>9, StepCases

\* no_double_billing, for any number of attempts and steps: no attempt asks the
\* provider twice for one step.
THEOREM OneCall == Spec => []OneCallPerAttempt
<1>1. Base /\ Ledger => OneCallPerAttempt
  BY NoRepeatChecked DEF Base, Typed, Ledger
<1>2. Ledger /\ Base /\ [Next]_vars => Ledger'
  BY LedgerNext
<1> QED
  BY BaseInvariant, LedgerInit, <1>1, <1>2, PTL DEF Spec
-----------------------------------------------------------------------------
\* The log up to an event does not depend on what comes after it.
LEMMA PrefixStays ==
  ASSUME NEW S, NEW s \in Seq(S), NEW e \in S, NEW k \in 0..Len(s)
  PROVE  SubSeq(Append(s, e), 1, k) = SubSeq(s, 1, k)
<1> DEFINE t == Append(s, e)
<1>1. t \in Seq(S) /\ Len(t) = Len(s) + 1 /\ Len(s) \in Nat /\ k \in Nat /\ k <= Len(s)
      /\ \A i \in 1..Len(s) : t[i] = s[i]
  OBVIOUS
<1> HIDE DEF t
<1>2. /\ SubSeq(t, 1, k) = [i \in 1..k |-> t[i]]
      /\ SubSeq(s, 1, k) = [i \in 1..k |-> s[i]]
  BY <1>1
<1>3. \A i \in 1..k : t[i] = s[i]
  BY <1>1
<1> QED
  BY <1>2, <1>3 DEF t

LEMMA WholePrefix ==
  ASSUME NEW S, NEW s \in Seq(S)
  PROVE  SubSeq(s, 1, Len(s)) = s
  OBVIOUS

\* An owner that got past check_limits has a log that check_limits lets pass: what
\* it asks, executes and commits is within the limits of the log it extends.
LimitOK(a) ==
  Current(a) =>
    /\ pc[a] \in Asking => CheckLimits(log) = NULL
    /\ pc[a] = "commit" => IF out[a].action = NULL THEN out[a].final ELSE CheckLimits(log) = NULL

AllActed == Acted(log) = log /\ \A k \in DOMAIN log : log[k].action # NULL

LogLimits ==
  /\ status \notin Terminal => AllActed
  /\ OvershootOneCall /\ StepsAndLoopsBounded

Limits == LogLimits /\ \A a \in Sessions : LimitOK(a)

\* The log as check_limits let it pass, and the call made on it.
LEMMA NoLoopGrows ==
  ASSUME log \in Seq(Event), AllActed, NEW e \in Event, log' = Append(log, e),
         CheckLimits(log) = NULL, Len(log) + 1 > LoopWindow
  PROVE  \E j \in (Len(log) + 1 - LoopWindow)..Len(log) : ~SameCall(log'[j].action, e.action)
<1> DEFINE n == Len(log)
<1>1. n \in Nat /\ LoopWindow \in Nat \ {0} /\ \A k \in 1..n : log'[k] = log[k]
  BY ConstantsAssumption
<1>2. n >= LoopWindow
  BY <1>1
<1>3. PICK k \in (n - LoopWindow + 1)..n : Fingerprint(log[k].action) # Fingerprint(log[n].action)
  BY <1>2, LimitsFree DEF DetectLoop, AllActed
<1>4. ~SameCall(log[k].action, log[n].action)
  BY <1>3 DEF SameCall, Fingerprint
<1> HIDE DEF n
<1>5. k \in 1..n /\ n \in 1..n /\ k \in (n + 1 - LoopWindow)..n /\ n \in (n + 1 - LoopWindow)..n
  BY <1>1, <1>2
<1>6. ~SameCall(log[n].action, e.action) \/ ~SameCall(log[k].action, e.action)
  BY <1>4 DEF SameCall
<1> QED
  BY <1>1, <1>5, <1>6 DEF n

\* One more event: a call on a log within the limits, or the end of the run.
LEMMA LogLimitsGrow ==
  ASSUME log \in Seq(Event), LogLimits, status \notin Terminal, NEW e \in Event,
         log' = Append(log, e),
         \/ e.action # NULL /\ CheckLimits(log) = NULL
         \/ e.action = NULL /\ status' \in Terminal
  PROVE  LogLimits'
<1> DEFINE n == Len(log) + 1
<1>0. AllActed /\ SpentFrom(log) \in Nat /\ Budget \in Nat /\ MaxSteps \in Nat /\ LoopWindow \in Nat \ {0}
  BY SpentAppend, ConstantsAssumption DEF LogLimits
<1>1. /\ n \in Nat \ {0} /\ DOMAIN log' = 1..n /\ DOMAIN log = 1..(n - 1) /\ log'[n] = e
      /\ (\A k \in 1..(n - 1) : log'[k] = log[k]) /\ n - 1 = Len(log)
  OBVIOUS
<1>2. \A k \in 1..n : SubSeq(log', 1, k - 1) = SubSeq(log, 1, k - 1)
  <2> TAKE k \in 1..n
  <2>1. k - 1 \in 0..Len(log)
    BY <1>1
  <2> QED
    BY <2>1, PrefixStays
<1>3. SubSeq(log', 1, n - 1) = log
  BY <1>1, <1>2, WholePrefix
<1> HIDE DEF n
<1>4. \A k \in DOMAIN log' : k = n \/ (k \in DOMAIN log /\ k \in 1..n /\ log'[k] = log[k])
  BY <1>1
<1>5. e.action # NULL => /\ CheckLimits(log) = NULL /\ SpentFrom(log) < Budget
                         /\ Len(log) < MaxSteps
  <2>1. Len(log) \in Nat
    OBVIOUS
  <2> QED
    BY <1>0, <2>1, LimitsFree
<1>6. OvershootOneCall'
  <2> SUFFICES ASSUME NEW k \in DOMAIN log', log'[k].action # NULL
               PROVE  SpentFrom(SubSeq(log', 1, k - 1)) < Budget
    BY ConstantsAssumption DEF OvershootOneCall
  <2>1. CASE k = n
    BY <1>1, <1>3, <1>5, <2>1
  <2>2. CASE k # n
    BY <1>2, <1>4, <2>2 DEF LogLimits, OvershootOneCall
  <2> QED
    BY <2>1, <2>2
<1>7. Len(Acted(log)') <= MaxSteps
  <2>1. Acted(log)' = IF e.action = NULL THEN Acted(log) ELSE Append(Acted(log), e)
    BY ActedAppend
  <2>2. CASE e.action = NULL
    BY <2>1, <2>2 DEF LogLimits, StepsAndLoopsBounded
  <2>3. CASE e.action # NULL
    <3>1. Acted(log)' = Append(log, e)
      BY <1>0, <2>1, <2>3 DEF AllActed
    <3>2. Len(Append(log, e)) = Len(log) + 1 /\ Len(log) \in Nat
      OBVIOUS
    <3>3. Len(log) + 1 <= MaxSteps
      BY <1>0, <1>5, <2>3, <3>2
    <3> QED
      BY <3>1, <3>2, <3>3
  <2> QED
    BY <2>2, <2>3
<1>8. ASSUME NEW k \in DOMAIN log', k > LoopWindow, log'[k].action # NULL
      PROVE  \E j \in (k - LoopWindow)..(k - 1) : ~SameCall(log'[j].action, log'[k].action)
  <2>1. CASE k = n
    <3>1. \E j \in (Len(log) + 1 - LoopWindow)..Len(log) : ~SameCall(log'[j].action, e.action)
      BY <1>0, <1>1, <1>5, <1>8, <2>1, NoLoopGrows DEF n
    <3>2. Len(log) + 1 - LoopWindow = k - LoopWindow /\ Len(log) = k - 1
      BY <1>0, <1>1, <2>1
    <3>3. log'[k] = e
      BY <1>1, <2>1
    <3> QED
      BY <3>1, <3>2, <3>3, Zenon
  <2>2. CASE k # n
    <3>1. k \in DOMAIN log /\ log'[k] = log[k]
      BY <1>4, <2>2
    <3>2. PICK j \in (k - LoopWindow)..(k - 1) : ~SameCall(log[j].action, log[k].action)
      BY <1>8, <3>1 DEF LogLimits, StepsAndLoopsBounded
    <3>3. j \in 1..(n - 1)
      BY <1>0, <1>1, <1>8, <3>1
    <3> QED
      BY <1>1, <3>1, <3>2, <3>3
  <2> QED
    BY <2>1, <2>2
<1>9. status' \notin Terminal => AllActed'
  <2> SUFFICES ASSUME status' \notin Terminal PROVE AllActed'
    OBVIOUS
  <2>1. e.action # NULL
    OBVIOUS
  <2>2. Acted(log)' = log'
    BY <1>0, <2>1, ActedAppend DEF AllActed
  <2> QED
    BY <1>0, <1>1, <1>4, <2>1, <2>2 DEF AllActed
<1>10. StepsAndLoopsBounded'
  BY <1>7, <1>8 DEF StepsAndLoopsBounded
<1> QED
  BY <1>6, <1>9, <1>10 DEF LogLimits

LEMMA LogLimitsStay ==
  ASSUME LogLimits, log' = log, status' \notin Terminal => status \notin Terminal
  PROVE  LogLimits'
<1>1. SpentFrom(log)' = SpentFrom(log) /\ Acted(log)' = Acted(log)
  OBVIOUS
<1> QED
  BY <1>1 DEF LogLimits, AllActed, OvershootOneCall, StepsAndLoopsBounded

LEMMA LimitOthers ==
  ASSUME Limits, NEW a \in Sessions, OthersStay(a), token' = token, held' => held,
         log' = log \/ Current(a), NEW d \in Sessions \ {a}
  PROVE  LimitOK(d)'
<1>1. CASE Current(a)
  BY <1>1 DEF LimitOK, Current
<1>2. CASE log' = log
  <2>1. pc'[d] = pc[d] /\ out'[d] = out[d] /\ LimitOK(d)
    BY DEF OthersStay, Limits
  <2> QED
    BY <1>2, <2>1 DEF LimitOK, Current
<1> QED
  BY <1>1, <1>2

LEMMA LimitsInit == Init => Limits
<1> SUFFICES ASSUME Init PROVE Limits
  OBVIOUS
<1>1. log = <<>> /\ DOMAIN log = {} /\ Acted(log) = <<>> /\ Len(Acted(log)) = 0 /\ ~held
  BY ActedEmpty DEF Init
<1>2. MaxSteps \in Nat
  BY ConstantsAssumption
<1>3. AllActed /\ OvershootOneCall
  BY <1>1 DEF AllActed, OvershootOneCall
<1>4. StepsAndLoopsBounded
  BY <1>1, <1>2 DEF StepsAndLoopsBounded
<1> QED
  BY <1>1, <1>3, <1>4 DEF Limits, LogLimits, LimitOK, Current

LEMMA LimitsNext ==
  ASSUME Base, Limits, [Next]_vars
  PROVE  Limits'
<1>0. log \in Seq(Event) /\ (held => status = "running") /\ NULL \notin Actions /\ LogLimits
      /\ "running" \notin Terminal
  BY ConstantsAssumption DEF Base, Typed, Limits, Terminal
<1>1. ASSUME NEW a \in Sessions, OthersStay(a), token' = token, held' => held,
             log' = log \/ Current(a), LimitOK(a)', LogLimits'
      PROVE  Limits'
  BY <1>1, LimitOthers DEF Limits
<1>2. CASE Submit \/ Revoke \/ UNCHANGED vars
  <2>1. /\ UNCHANGED <<log, token, pc, out>> /\ (held' => held)
        /\ status' = status \/ (status = "absent" /\ status' = "pending")
    BY <1>2, EngineBase DEF Base, Typed
  <2>2. LogLimits'
    BY <1>0, <2>1, LogLimitsStay DEF Terminal
  <2>3. \A a \in Sessions : LimitOK(a)'
    BY <2>1 DEF Limits, LimitOK, Current
  <2> QED
    BY <2>2, <2>3 DEF Limits
<1>3. CASE Claim
  <2>1. /\ UNCHANGED <<log, out>> /\ status \in {"pending", "running"} /\ token' = token + 1
        /\ pc'[token + 1] = "replay"
    BY <1>3, ClaimShape
  <2>2. LogLimits'
    BY <1>0, <2>1, LogLimitsStay DEF Terminal
  <2>3. \A a \in Sessions : LimitOK(a)'
    BY <2>1 DEF LimitOK, Current, Asking
  <2> QED
    BY <2>2, <2>3 DEF Limits
<1>4. ASSUME NEW a \in Sessions, Crash(a) \/ (Raised(a) /\ pc[a] # "none")
      PROVE  Limits'
  <2>1. /\ OthersStay(a) /\ token' = token /\ pc'[a] = "ended"
        /\ \/ log' = log /\ status' = status /\ (held' = held \/ held' = FALSE)
           \/ /\ Current(a) /\ log' = Append(log, NullEvent(a))
              /\ status' = "failed" /\ held' = FALSE
    BY <1>4, EndSteps
  <2>2. LogLimits'
    <3>1. CASE log' = log /\ status' = status
      BY <1>0, <3>1, LogLimitsStay
    <3>2. CASE Current(a) /\ log' = Append(log, NullEvent(a)) /\ status' = "failed"
      <4>1. NullEvent(a) \in Event /\ NullEvent(a).action = NULL
        BY NullEventType
      <4>2. status \notin Terminal /\ status' \in Terminal
        BY <1>0, <3>2 DEF Current, Terminal
      <4> QED
        BY <1>0, <3>2, <4>1, <4>2, LogLimitsGrow
    <3> QED
      BY <2>1, <3>1, <3>2
  <2>3. LimitOK(a)'
    BY <2>1 DEF LimitOK, Asking
  <2>4. (held' => held) /\ (log' = log \/ Current(a))
    BY <2>1
  <2> QED
    BY <1>1, <2>1, <2>2, <2>3, <2>4
<1>5. ASSUME NEW a \in Sessions, Replay(a)
      PROVE  Limits'
  <2>1. /\ OthersStay(a) /\ UNCHANGED <<status, log, token, held>>
        /\ \/ pc'[a] = "lookup" /\ CheckLimits(log) = NULL
           \/ pc'[a] = "commit" /\ out'[a] = StopOutcome(CheckLimits(log))
              /\ CheckLimits(log) \in Terminal
    BY <1>5, ReplayShape
  <2>2. CheckLimits(log)' = CheckLimits(log)
    BY <2>1
  <2>3. LimitOK(a)'
    <3>1. CASE pc'[a] = "lookup" /\ CheckLimits(log) = NULL
      BY <2>2, <3>1 DEF LimitOK
    <3>2. CASE pc'[a] = "commit" /\ out'[a] = StopOutcome(CheckLimits(log))
               /\ CheckLimits(log) \in Terminal
      <4>1. out'[a].action = NULL /\ out'[a].final
        BY <3>2, StopType
      <4> QED
        BY <3>2, <4>1 DEF LimitOK, Asking
    <3> QED
      BY <2>1, <3>1, <3>2
  <2> QED
    BY <1>0, <1>1, <2>1, <2>3, LogLimitsStay
<1>6. ASSUME NEW a \in Sessions, Lookup(a) \/ RecordCall(a) \/ Ask(a) \/ Store(a)
      PROVE  Limits'
  <2>1. /\ OthersStay(a) /\ UNCHANGED <<status, log, token, held>>
        /\ pc[a] \in Asking /\ pc'[a] \in Asking
    BY <1>6, AskShape
  <2>2. CheckLimits(log)' = CheckLimits(log) /\ LimitOK(a)
    BY <2>1 DEF Limits
  <2>3. LimitOK(a)'
    BY <2>1, <2>2 DEF LimitOK, Current, Asking
  <2> QED
    BY <1>0, <1>1, <2>1, <2>3, LogLimitsStay
<1>7. ASSUME NEW a \in Sessions, Execute(a)
      PROVE  Limits'
  <2>1. /\ OthersStay(a) /\ UNCHANGED <<status, log, token, held>>
        /\ pc[a] = "tool" /\ pc'[a] = "commit" /\ out'[a].action = resp[a].action
        /\ resp[a] \in Response
    BY <1>7, ExecuteShape
  <2>2. CheckLimits(log)' = CheckLimits(log) /\ LimitOK(a)
    BY <2>1 DEF Limits
  <2>3. out'[a].action # NULL
    BY <1>0, <2>1 DEF Response
  <2>4. LimitOK(a)'
    BY <2>1, <2>2, <2>3 DEF LimitOK, Current, Asking
  <2> QED
    BY <1>0, <1>1, <2>1, <2>4, LogLimitsStay
<1>8. ASSUME NEW a \in Sessions, Commit(a)
      PROVE  Limits'
  <2>1. /\ OthersStay(a) /\ token' = token /\ pc[a] = "commit" /\ out[a] \in Outcome
        /\ \/ Committed(a)
           \/ /\ ~Current(a) /\ UNCHANGED <<status, log, held, lastWs>>
              /\ pc'[a] = "ended"
    BY <1>8, CommitShape
  <2>2. pc'[a] \notin Asking /\ pc'[a] # "commit" /\ (held' => held) /\ (log' = log \/ Current(a))
    BY <2>1 DEF Committed, Asking, Current
  <2>3. LimitOK(a)'
    BY <2>2 DEF LimitOK
  <2>4. LogLimits'
    <3>1. CASE ~Current(a) /\ UNCHANGED <<status, log>>
      BY <1>0, <3>1, LogLimitsStay
    <3>2. CASE Committed(a)
      <4>1. /\ CommitEvent(a) \in Event /\ CommitEvent(a).action = out[a].action
            /\ log' = Append(log, CommitEvent(a))
        BY <2>1, <3>2, CommitEventType DEF Committed
      <4>2. IF out[a].action = NULL THEN out[a].final ELSE CheckLimits(log) = NULL
        BY <2>1, <3>2 DEF Committed, Limits, LimitOK
      <4>3. status \notin Terminal
        BY <1>0, <3>2 DEF Committed, Current
      <4>4. out[a].final => status' \in Terminal
        BY <2>1, <3>2 DEF Committed, Outcome
      <4> QED
        BY <1>0, <4>1, <4>2, <4>3, <4>4, LogLimitsGrow
    <3> QED
      BY <2>1, <3>1, <3>2
  <2> QED
    BY <1>1, <2>1, <2>2, <2>3, <2>4
<1> QED
  BY <1>2, <1>3, <1>4, <1>5, <1>6, <1>7, <1>8, StepCases

LEMMA LimitsInvariant == Spec => []Limits
<1>1. Limits /\ Base /\ [Next]_vars => Limits'
  BY LimitsNext
<1> QED
  BY BaseInvariant, LimitsInit, <1>1, PTL DEF Spec

\* check_limits on the committed log, for any budget, any costs and any number of
\* attempts: every step that asked the model started below the budget.
THEOREM OneCallOver == Spec => []OvershootOneCall
<1>1. Limits => OvershootOneCall
  BY DEF Limits, LogLimits
<1> QED
  BY LimitsInvariant, <1>1, PTL

\* max_steps and LOOP_WINDOW hold on the committed log, for any values of both.
THEOREM LimitsHold == Spec => []StepsAndLoopsBounded
<1>1. Limits => StepsAndLoopsBounded
  BY DEF Limits, LogLimits
<1> QED
  BY LimitsInvariant, <1>1, PTL
-----------------------------------------------------------------------------
\* The key of step i of the run: it is the same whichever attempt computes it, and
\* whenever, since the log before step i never changes.
KeyAt(i) == [step |-> i, messages |-> Messages(SubSeq(log, 1, i))]

CacheOK == \A c \in cache : \E i \in 0..Len(log) : c.key = KeyAt(i)

LEMMA KeyStays ==
  ASSUME Base, NEW a \in Sessions, LogGrows(a), NEW i \in 0..Len(log)
  PROVE  i \in 0..Len(log') /\ KeyAt(i)' = KeyAt(i)
<1>0. log \in Seq(Event) /\ Len(log) \in Nat
  BY DEF Base, Typed
<1>1. Len(log) <= Len(log') /\ Len(log') \in Nat
  BY <1>0, LogGrowsType
<1>2. SubSeq(log', 1, i) = SubSeq(log, 1, i)
  <2>1. CASE log' = log
    BY <2>1
  <2>2. CASE \E e \in Event : log' = Append(log, e)
    BY <1>0, <2>2, PrefixStays
  <2> QED
    BY <2>1, <2>2 DEF LogGrows
<1>3. KeyAt(i)' = [step |-> i, messages |-> Messages(SubSeq(log', 1, i))]
  BY DEF KeyAt
<1>4. KeyAt(i)' = KeyAt(i)
  BY <1>2, <1>3, Zenon DEF KeyAt
<1>5. i \in 0..Len(log')
  BY <1>0, <1>1
<1> QED
  BY <1>4, <1>5

LEMMA CacheStays ==
  ASSUME Base, CacheOK, NEW a \in Sessions, LogGrows(a), cache' = cache
  PROVE  CacheOK'
<1> SUFFICES ASSUME NEW c \in cache PROVE \E i \in 0..Len(log') : c.key = KeyAt(i)'
  BY DEF CacheOK
<1>1. PICK i \in 0..Len(log) : c.key = KeyAt(i)
  BY DEF CacheOK
<1> QED
  BY <1>1, KeyStays

LEMMA CacheNext ==
  ASSUME Base, CacheOK, [Next]_vars
  PROVE  CacheOK'
<1>1. CASE Submit \/ Revoke \/ UNCHANGED vars \/ Claim
  <2>1. log' = log /\ cache' = cache
    BY <1>1, EngineBase, ClaimShape
  <2> QED
    BY <2>1 DEF CacheOK, KeyAt
<1>2. ASSUME NEW a \in Sessions, Crash(a) \/ (Raised(a) /\ pc[a] # "none") \/ Commit(a)
      PROVE  CacheOK'
  BY <1>2, EndSteps, CommitShape, CommitGrows, CacheStays
<1>3. ASSUME NEW a \in Sessions, Replay(a) \/ Execute(a)
      PROVE  CacheOK'
  <2>1. log' = log /\ cache' = cache
    BY <1>3, ReplayShape, ExecuteShape
  <2> QED
    BY <2>1, CacheStays DEF LogGrows
<1>4. ASSUME NEW a \in Sessions, Lookup(a) \/ RecordCall(a) \/ Ask(a)
      PROVE  CacheOK'
  <2>1. log' = log /\ cache' = cache
    BY <1>4 DEF Lookup, RecordCall, Ask, logVars, tables
  <2> QED
    BY <2>1, CacheStays DEF LogGrows
<1>5. ASSUME NEW a \in Sessions, Store(a)
      PROVE  CacheOK'
  <2>1. log' = log /\ idx[a] \in 0..Len(log)
    BY <1>5 DEF Base, Typed, SessionOK, Store, logVars
  <2>2. CacheKey(a) = KeyAt(idx[a])
    BY DEF CacheKey, KeyAt, Seen
  <2>3. \A c \in cache' : c \in cache \/ c.key = CacheKey(a)
    BY <1>5 DEF Store
  <2>4. \A c \in cache' : \E i \in 0..Len(log) : c.key = KeyAt(i)
    BY <2>1, <2>2, <2>3 DEF CacheOK
  <2> QED
    BY <2>1, <2>4 DEF CacheOK, KeyAt
<1> QED
  BY <1>1, <1>2, <1>3, <1>4, <1>5, StepCases

\* A session leaves "lookup" for "record" only by missing the cache.
LEMMA OnlyLookupMisses ==
  ASSUME Base, [Next]_vars, NEW a \in Sessions, pc[a] = "lookup", pc'[a] = "record"
  PROVE  ~\E c \in cache : c.key = CacheKey(a)
<1>1. CASE Submit \/ Revoke \/ UNCHANGED vars
  BY <1>1, EngineBase
<1>2. CASE Claim
  BY <1>2, ClaimShape DEF OthersStay
<1>3. ASSUME NEW d \in Sessions, d # a,
             \/ Replay(d) \/ Execute(d) \/ Commit(d) \/ Crash(d)
             \/ Lookup(d) \/ RecordCall(d) \/ Ask(d) \/ Store(d)
             \/ (Raised(d) /\ pc[d] # "none")
      PROVE  FALSE
  <2>1. OthersStay(d)
    BY <1>3, ReplayShape, ExecuteShape, CommitShape, EndSteps, AskShape
  <2> QED
    BY <1>3, <2>1 DEF OthersStay
<1>4. CASE \/ Replay(a) \/ Execute(a) \/ Commit(a) \/ Crash(a)
           \/ RecordCall(a) \/ Ask(a) \/ Store(a) \/ (Raised(a) /\ pc[a] # "none")
  <2>1. CASE Crash(a) \/ (Raised(a) /\ pc[a] # "none")
    BY <2>1, EndSteps
  <2> QED
    BY <1>4, <2>1 DEF Replay, Execute, Commit, RecordCall, Ask, Store
<1>5. CASE Lookup(a)
  <2>1. pc \in [Sessions -> PCs] /\ (pc' = [pc EXCEPT ![a] = "tool"] => pc'[a] = "tool")
    BY DEF Base, Typed
  <2> QED
    BY <1>5, <2>1 DEF Lookup, Goto
<1> QED
  BY <1>1, <1>2, <1>3, <1>4, <1>5, StepCases

\* complete_cached, whoever stored the answer and whatever was committed since: a
\* look-up misses only if the table has no answer for the step.
THEOREM Reused == Spec => AnswerReused
<1>1. Init => CacheOK
  BY DEF Init, CacheOK
<1>2. CacheOK /\ Base /\ [Next]_vars => CacheOK'
  BY CacheNext
<1>3. ASSUME Base, CacheOK, [Next]_vars, NEW a \in Sessions, pc[a] = "lookup", pc'[a] = "record",
             NEW c \in cache, c.key.step = idx[a]
      PROVE  FALSE
  <2>1. PICK i \in 0..Len(log) : c.key = KeyAt(i)
    BY <1>3 DEF CacheOK
  <2>2. i = idx[a]
    BY <1>3, <2>1 DEF KeyAt
  <2>3. c.key = CacheKey(a)
    BY <2>1, <2>2 DEF KeyAt, CacheKey, Seen
  <2> QED
    BY <1>3, <2>3, OnlyLookupMisses
<1>4. Base /\ CacheOK /\ [Next]_vars =>
        [\A a \in Sessions : pc[a] = "lookup" /\ pc'[a] = "record" =>
           \A c \in cache : c.key.step # idx[a]]_vars
  BY <1>3
<1> QED
  BY BaseInvariant, <1>1, <1>2, <1>4, PTL DEF Spec, AnswerReused
-----------------------------------------------------------------------------
\* A workspace is what a log rebuilds, but for the files as a program left them.
FromLog(files, s) == \A p \in Paths : files[p] = Rebuilt(s)[p] \/ files[p] = "data"

\* What the owner has is what the attempt that committed last had, or what the log has
\* instead of a file a program left.
Continued(files) ==
  \A p \in Paths : files[p] = lastWs[p] \/ (lastWs[p] = "data" /\ files[p] = Rebuilt(log)[p])

\* The owner's workspace comes from the log, with the outcome it is about to commit on
\* top; between two of its steps nobody else has touched it.
FileOK(a) ==
  Current(a) =>
    /\ pc[a] \in Asking => FromLog(ws[a], log) /\ Continued(ws[a])
    /\ pc[a] = "replay" => ws[a] = NULL \/ ws[a] = lastWs
    /\ pc[a] = "commit" => FromLog(ws[a], Append(log, CommitEvent(a)))

FilesKept == FromLog(lastWs, log) /\ \A a \in Sessions : FileOK(a)

LEMMA RebuiltNull ==
  ASSUME NEW s \in Seq(Event), NEW e \in Event, e.action = NULL
  PROVE  Rebuilt(Append(s, e)) = Rebuilt(s)
<1>1. Rebuilt(s) = [p \in Paths |-> Rebuilt(s)[p]]
  BY RebuiltType DEF Files
<1>2. ~Wrote(e)
  BY DEF Wrote
<1> QED
  BY <1>1, <1>2, RebuiltAppend

\* The workspace after the tool is the one the step's event will rebuild.
LEMMA RebuiltExecuted ==
  ASSUME NEW s \in Seq(Event), NEW e \in Event, NEW act \in Actions, NEW files \in Files,
         FromLog(files, s), NEW x \in Executed(act, files), e.action = act, e.obs = x.obs
  PROVE  FromLog(x.files, Append(s, e))
<1>1. \A p \in Paths :
        \/ x.files[p] = IF act.tool = "write_file" /\ x.obs # "error" /\ act.path = p
                        THEN act.content ELSE files[p]
        \/ x.files[p] = "data"
  BY ExecutedFiles
<1>2. Wrote(e) <=> act.tool = "write_file" /\ x.obs # "error"
  BY ConstantsAssumption DEF Wrote
<1>3. \A p \in Paths :
        Rebuilt(Append(s, e))[p] = IF Wrote(e) /\ e.action.path = p THEN e.action.content
                                   ELSE Rebuilt(s)[p]
  BY RebuiltAppend
<1>4. \A p \in Paths : files[p] = Rebuilt(s)[p] \/ files[p] = "data"
  BY DEF FromLog
<1>5. ASSUME NEW p \in Paths
      PROVE  x.files[p] = Rebuilt(Append(s, e))[p] \/ x.files[p] = "data"
  <2>1. PICK b \in BOOLEAN : b <=> act.tool = "write_file" /\ x.obs # "error" /\ act.path = p
    OBVIOUS
  <2>2. x.files[p] = (IF b THEN act.content ELSE files[p]) \/ x.files[p] = "data"
    BY <1>1, <2>1
  <2>3. Rebuilt(Append(s, e))[p] = IF b THEN act.content ELSE Rebuilt(s)[p]
    BY <1>2, <1>3, <2>1
  <2> QED
    BY <1>4, <2>2, <2>3
<1> QED
  BY <1>5 DEF FromLog

LEMMA FileOthers ==
  ASSUME FilesKept, NEW a \in Sessions, OthersStay(a), token' = token, held' => held,
         (log' = log /\ lastWs' = lastWs) \/ Current(a), NEW d \in Sessions \ {a}
  PROVE  FileOK(d)'
<1>1. CASE Current(a)
  BY <1>1 DEF FileOK, Current
<1>2. CASE log' = log /\ lastWs' = lastWs
  <2>1. pc'[d] = pc[d] /\ out'[d] = out[d] /\ ws'[d] = ws[d] /\ FileOK(d)
    BY DEF OthersStay, FilesKept
  <2> QED
    BY <1>2, <2>1 DEF FileOK, Current, CommitEvent, Continued
<1> QED
  BY <1>1, <1>2

LEMMA FilesInit == Init => FilesKept
<1> SUFFICES ASSUME Init PROVE FilesKept
  OBVIOUS
<1>1. log = <<>> /\ ~held /\ lastWs = EmptyWorkspace
  BY DEF Init
<1>2. Rebuilt(<<>>) = EmptyWorkspace
  BY DEF Rebuilt, EmptyWorkspace
<1> QED
  BY <1>1, <1>2 DEF FilesKept, FileOK, FromLog, Current

LEMMA FilesNext ==
  ASSUME Base, FilesKept, [Next]_vars
  PROVE  FilesKept'
<1>0. log \in Seq(Event) /\ FromLog(lastWs, log)
  BY DEF Base, Typed, FilesKept
<1>1. ASSUME NEW a \in Sessions, OthersStay(a), token' = token, held' => held,
             (log' = log /\ lastWs' = lastWs) \/ Current(a), FileOK(a)', FromLog(lastWs', log')
      PROVE  FilesKept'
  BY <1>1, FileOthers DEF FilesKept
<1>2. CASE Submit \/ Revoke \/ UNCHANGED vars
  <2>1. UNCHANGED <<log, token, pc, out, ws, lastWs>> /\ (held' => held)
    BY <1>2, EngineBase DEF Base, Typed
  <2> QED
    BY <2>1 DEF FilesKept, FileOK, Current, CommitEvent, Continued
<1>3. CASE Claim
  <2>1. /\ UNCHANGED <<log, lastWs, ws>> /\ token' = token + 1
        /\ pc'[token + 1] = "replay" /\ ws[token + 1] = NULL
    BY <1>3, ClaimShape
  <2>2. \A a \in Sessions : FileOK(a)'
    BY <2>1 DEF FileOK, Current, Asking
  <2> QED
    BY <1>0, <2>1, <2>2 DEF FilesKept
<1>4. ASSUME NEW a \in Sessions, Crash(a) \/ (Raised(a) /\ pc[a] # "none")
      PROVE  FilesKept'
  <2>1. /\ OthersStay(a) /\ token' = token /\ pc'[a] = "ended" /\ lastWs' = lastWs
        /\ (held' => held) /\ (log' = log \/ (Current(a) /\ log' = Append(log, NullEvent(a))))
    BY <1>4, EndSteps
  <2>2. Rebuilt(log') = Rebuilt(log)
    BY <1>0, <2>1, RebuiltNull, NullEventType
  <2>3. FileOK(a)'
    BY <2>1 DEF FileOK, Asking
  <2>4. FromLog(lastWs', log')
    BY <1>0, <2>1, <2>2 DEF FromLog
  <2> QED
    BY <1>1, <2>1, <2>3, <2>4
<1>5. ASSUME NEW a \in Sessions, Replay(a)
      PROVE  FilesKept'
  <2>1. /\ OthersStay(a) /\ UNCHANGED <<log, token, held, lastWs>> /\ pc[a] = "replay"
        /\ ws'[a] = (IF ws[a] = NULL THEN Rebuilt(log) ELSE ws[a])
        /\ \/ pc'[a] = "lookup" /\ CheckLimits(log) = NULL
           \/ pc'[a] = "commit" /\ out'[a] = StopOutcome(CheckLimits(log))
              /\ CheckLimits(log) \in Terminal
    BY <1>5, ReplayShape
  <2>2. Current(a)' => ws'[a] = Rebuilt(log) \/ ws'[a] = lastWs
    BY <2>1 DEF FilesKept, FileOK, Current
  <2>3. Current(a)' => FromLog(ws'[a], log) /\ Continued(ws'[a])
    BY <1>0, <2>2 DEF FromLog, Continued
  <2>4. pc'[a] = "commit" => Rebuilt(Append(log, EventOf(out'[a], a))) = Rebuilt(log)
    <3> SUFFICES ASSUME pc'[a] = "commit"
                 PROVE  Rebuilt(Append(log, EventOf(out'[a], a))) = Rebuilt(log)
      OBVIOUS
    <3>1. out'[a] \in Outcome /\ out'[a].action = NULL
      BY <2>1, StopType
    <3> QED
      BY <1>0, <3>1, EventOfType, RebuiltNull
  <2>5. Current(a)' /\ pc'[a] \in Asking => FromLog(ws'[a], log') /\ Continued(ws[a])'
    BY <2>1, <2>3 DEF Continued
  <2>6. Current(a)' /\ pc'[a] = "commit" => FromLog(ws'[a], Append(log', EventOf(out'[a], a)))
    BY <2>1, <2>3, <2>4 DEF FromLog
  <2>7. FileOK(a)'
    BY <2>1, <2>5, <2>6 DEF FileOK, CommitEvent
  <2> QED
    BY <1>0, <1>1, <2>1, <2>7
<1>6. ASSUME NEW a \in Sessions, Lookup(a) \/ RecordCall(a) \/ Ask(a) \/ Store(a)
      PROVE  FilesKept'
  <2>1. /\ OthersStay(a) /\ UNCHANGED <<log, token, held, ws, lastWs>>
        /\ pc[a] \in Asking /\ pc'[a] \in Asking
    BY <1>6, AskShape
  <2>2. FileOK(a)'
    BY <2>1 DEF FilesKept, FileOK, Current, Asking, Continued
  <2> QED
    BY <1>0, <1>1, <2>1, <2>2
<1>7. ASSUME NEW a \in Sessions, Execute(a)
      PROVE  FilesKept'
  <2>1. /\ OthersStay(a) /\ UNCHANGED <<log, token, held, lastWs>>
        /\ pc[a] = "tool" /\ pc'[a] = "commit" /\ out'[a].action = resp[a].action
        /\ resp[a] \in Response /\ out'[a] \in Outcome
    BY <1>7, ExecuteShape
  <2>2. PICK x \in Executed(resp[a].action, ws[a]) : ws'[a] = x.files /\ out'[a].obs = x.obs
    BY <1>7, ExecuteShape
  <2>3. resp[a].action \in Actions
    BY <2>1 DEF Response
  <2>4. Current(a) => FromLog(ws[a], log)
    BY <2>1 DEF FilesKept, FileOK, Asking
  <2>5. /\ EventOf(out'[a], a) \in Event
        /\ EventOf(out'[a], a).action = resp[a].action /\ EventOf(out'[a], a).obs = x.obs
    BY <2>1, <2>2, EventOfType
  <2>6. ws[a] \in Files
    BY <2>1 DEF Base, SessionOK, Asking
  <2>7. Current(a) => FromLog(x.files, Append(log, EventOf(out'[a], a)))
    BY <1>0, <2>2, <2>3, <2>4, <2>5, <2>6, RebuiltExecuted
  <2>8. FileOK(a)'
    BY <2>1, <2>2, <2>7 DEF FileOK, Current, Asking, CommitEvent
  <2> QED
    BY <1>0, <1>1, <2>1, <2>8
<1>8. ASSUME NEW a \in Sessions, Commit(a)
      PROVE  FilesKept'
  <2>1. /\ OthersStay(a) /\ token' = token /\ ws' = ws /\ pc[a] = "commit"
        /\ \/ Committed(a)
           \/ /\ ~Current(a) /\ UNCHANGED <<status, log, held, lastWs>>
              /\ pc'[a] = "ended"
    BY <1>8, CommitShape
  <2>2. CASE ~Current(a) /\ UNCHANGED <<status, log, held, lastWs>> /\ pc'[a] = "ended"
    BY <1>0, <1>1, <2>1, <2>2 DEF FileOK, Asking
  <2>3. CASE Committed(a)
    <3>1. /\ Current(a) /\ log' = Append(log, CommitEvent(a)) /\ lastWs' = ws[a]
          /\ pc'[a] \in {"ended", "replay"} /\ (held' => held)
      BY <2>3 DEF Committed, Current
    <3>2. FromLog(lastWs', log')
      BY <2>1, <3>1 DEF FilesKept, FileOK
    <3>3. FileOK(a)'
      BY <2>1, <3>1 DEF FileOK, Asking
    <3> QED
      BY <1>1, <2>1, <3>1, <3>2, <3>3
  <2> QED
    BY <2>1, <2>2, <2>3
<1> QED
  BY <1>2, <1>3, <1>4, <1>5, <1>6, <1>7, <1>8, StepCases

\* "A worker that takes over mid-run continues exactly where the dead one stopped", for
\* any log and any interleaving with zombies, and whatever programs write: the owner's
\* files are those of the attempt that committed last, except that a file as a program
\* left it is as the log has it.
THEOREM TakeoverExact == Spec => []ContinuesExactly
<1>1. FilesKept => ContinuesExactly
  BY DEF FilesKept, FileOK, Continued, ContinuesExactly, Asking, Workspace
<1>2. FilesKept /\ Base /\ [Next]_vars => FilesKept'
  BY FilesNext
<1> QED
  BY BaseInvariant, FilesInit, <1>1, <1>2, PTL DEF Spec
-----------------------------------------------------------------------------
\* What one call may cost has a largest value.
CostsBounded == \E c \in Costs : \A d \in Costs : d <= c

\* The sessions that may have been charged for a call that no event records, and
\* those of them that may still commit it.
Holding == {"store", "tool", "commit"}
Owing == {a \in Sessions : pc[a] \in Holding \cup {"ended"}}
ChargeCost(a) == IF pc[a] = "commit" THEN out[a].cost ELSE resp[a].cost
Room(S) == MaxCost * Cardinality(S)

\* The newest attempt's own charge is the cost its event will show.
ChargeOK(a) ==
  pc[a] \in Holding => billed <= SpentFrom(log) + Room(Owing \ {a}) + ChargeCost(a)

Charges ==
  /\ billed <= SpentFrom(log) + Room(Owing)
  /\ \A a \in Sessions : a = token => ChargeOK(a)

LEMMA LargestCost ==
  ASSUME CostsBounded
  PROVE  MaxCost \in Nat /\ \A c \in Costs : c \in Nat /\ c <= MaxCost
<1>1. MaxCost \in Costs /\ \A d \in Costs : d <= MaxCost
  BY DEF CostsBounded, MaxCost
<1> QED
  BY <1>1, ConstantsAssumption

LEMMA SessionsFinite ==
  ASSUME NEW S \in SUBSET Sessions
  PROVE  IsFiniteSet(S) /\ Cardinality(S) \in Nat
<1>1. IsFiniteSet(Sessions)
  BY ConstantsAssumption, FS_Interval DEF Sessions
<1> QED
  BY <1>1, FS_Subset, FS_CardinalityType

LEMMA RoomGrows ==
  ASSUME CostsBounded, NEW T \in SUBSET Sessions, NEW S \in SUBSET T
  PROVE  Room(S) \in Nat /\ Room(T) \in Nat /\ Room(S) <= Room(T)
<1>1. IsFiniteSet(T) /\ Cardinality(T) \in Nat /\ Cardinality(S) \in Nat
  BY SessionsFinite
<1>2. Cardinality(S) <= Cardinality(T) /\ MaxCost \in Nat
  BY <1>1, FS_Subset, LargestCost
<1>3. \A m, i, j \in Nat : i <= j => m * i \in Nat /\ m * j \in Nat /\ m * i <= m * j
  OBVIOUS
<1> QED
  BY <1>1, <1>2, <1>3 DEF Room

LEMMA RoomAdds ==
  ASSUME CostsBounded, NEW S \in SUBSET Sessions, NEW a \in Sessions \ S
  PROVE  Room(S \cup {a}) = Room(S) + MaxCost /\ Room(S) \in Nat /\ MaxCost \in Nat
<1>1. IsFiniteSet(S) /\ Cardinality(S) \in Nat /\ MaxCost \in Nat
  BY SessionsFinite, LargestCost
<1>2. Cardinality(S \cup {a}) = Cardinality(S) + 1
  BY <1>1, FS_AddElement
<1>3. \A m, i \in Nat : m * (i + 1) = m * i + m /\ m * i \in Nat
  OBVIOUS
<1> QED
  BY <1>1, <1>2, <1>3 DEF Room

LEMMA SpentNat ==
  ASSUME NEW s \in Seq(Event)
  PROVE  SpentFrom(s) \in Nat
<1>1. PICK e : e = [action |-> NULL, obs |-> "none", cost |-> 0, final |-> TRUE, attempt |-> 1]
  OBVIOUS
<1>2. e \in Event
  BY <1>1, ConstantsAssumption DEF Event, Observations, Sessions
<1> QED
  BY <1>2, SpentAppend

LEMMA SpentGrows ==
  ASSUME log \in Seq(Event), NEW a, LogGrows(a)
  PROVE  SpentFrom(log) \in Nat /\ SpentFrom(log') \in Nat /\ SpentFrom(log) <= SpentFrom(log')
<1>1. SpentFrom(log) \in Nat
  BY SpentNat
<1>2. CASE log' = log
  BY <1>1, <1>2
<1>3. CASE \E e \in Event : log' = Append(log, e)
  <2>1. PICK e \in Event : log' = Append(log, e)
    BY <1>3
  <2>2. e.cost \in Nat /\ SpentFrom(log') = SpentFrom(log) + e.cost
    BY <2>1, SpentAppend DEF Event
  <2> QED
    BY <1>1, <2>2
<1> QED
  BY <1>2, <1>3 DEF LogGrows

\* The session that holds a charge knows its cost.
LEMMA ChargeCostType ==
  ASSUME Base, NEW a \in Sessions, pc[a] \in Holding
  PROVE  ChargeCost(a) \in Nat
<1>1. SessionOK(a) /\ out[a] \in Outcome \cup {NULL}
  BY DEF Base, Typed
<1>2. CASE pc[a] = "commit"
  BY <1>1, <1>2 DEF SessionOK, ChargeCost, Outcome
<1>3. CASE pc[a] \in {"store", "tool"}
  BY <1>1, <1>3 DEF SessionOK, ChargeCost, Response
<1> QED
  BY <1>2, <1>3 DEF Holding

\* A step of session a without a new charge, after which a owes what it owed before.
QuietStep(a) ==
  /\ OthersStay(a) /\ LogGrows(a) /\ token' = token /\ billed' = billed
  /\ a \in Owing => a \in Owing'
  /\ pc'[a] \in Holding =>
       /\ ChargeCost(a)' \in Nat
       /\ a \in Owing => pc[a] \in Holding /\ ChargeCost(a)' = ChargeCost(a)

LEMMA ChargesStay ==
  ASSUME Base, Charges, CostsBounded, NEW a \in Sessions, QuietStep(a)
  PROVE  Charges'
<1>1. /\ log \in Seq(Event) /\ billed \in Nat /\ Owing \in SUBSET Sessions
      /\ Owing' \in SUBSET Sessions /\ billed' = billed /\ token' = token
  BY DEF Base, Typed, Owing, QuietStep
<1>2. SpentFrom(log) \in Nat /\ SpentFrom(log') \in Nat /\ SpentFrom(log) <= SpentFrom(log')
  BY <1>1, SpentGrows DEF QuietStep
<1>3. \A d \in Sessions \ {a} : d \in Owing <=> d \in Owing'
  BY DEF QuietStep, OthersStay, Owing
<1>4. Owing \in SUBSET Owing' /\ Owing' \ {a} = Owing \ {a}
  BY <1>1, <1>3 DEF QuietStep
<1>5. Room(Owing) \in Nat /\ Room(Owing') \in Nat /\ Room(Owing) <= Room(Owing')
  BY <1>1, <1>4, RoomGrows
<1>6. billed' <= SpentFrom(log') + Room(Owing')
  BY <1>1, <1>2, <1>5 DEF Charges
<1>7. ASSUME NEW d \in Sessions, d = token, pc'[d] \in Holding
      PROVE  billed' <= SpentFrom(log') + Room(Owing' \ {d}) + ChargeCost(d)'
  <2>1. /\ Owing \ {d} \in SUBSET (Owing' \ {d}) /\ Owing' \ {d} \in SUBSET Sessions
        /\ Owing \ {d} \in SUBSET Sessions
    BY <1>1, <1>4
  <2>2. /\ Room(Owing \ {d}) \in Nat /\ Room(Owing' \ {d}) \in Nat
        /\ Room(Owing \ {d}) <= Room(Owing' \ {d})
    BY <2>1, RoomGrows
  <2>3. CASE d # a
    <3>1. pc'[d] = pc[d] /\ ChargeCost(d)' = ChargeCost(d)
      BY <2>3 DEF QuietStep, OthersStay, ChargeCost
    <3>2. billed <= SpentFrom(log) + Room(Owing \ {d}) + ChargeCost(d)
      BY <1>7, <3>1 DEF Charges, ChargeOK
    <3>3. ChargeCost(d) \in Nat
      BY <1>7, <3>1, ChargeCostType
    <3> QED
      BY <1>1, <1>2, <2>2, <3>1, <3>2, <3>3
  <2>4. CASE d = a /\ a \in Owing
    <3>1. pc[d] \in Holding /\ ChargeCost(d)' = ChargeCost(d) /\ ChargeCost(d)' \in Nat
      BY <1>7, <2>4 DEF QuietStep
    <3>2. billed <= SpentFrom(log) + Room(Owing \ {d}) + ChargeCost(d)
      BY <1>7, <3>1 DEF Charges, ChargeOK
    <3> QED
      BY <1>1, <1>2, <2>2, <3>1, <3>2
  <2>5. CASE d = a /\ a \notin Owing
    <3>1. ChargeCost(d)' \in Nat
      BY <1>7, <2>5 DEF QuietStep
    <3>2. Owing \ {d} = Owing
      BY <2>5
    <3>3. billed <= SpentFrom(log) + Room(Owing \ {d})
      BY <3>2 DEF Charges
    <3> QED
      BY <1>1, <1>2, <2>2, <3>1, <3>3
  <2> QED
    BY <2>3, <2>4, <2>5
<1>8. \A d \in Sessions : d = token' => ChargeOK(d)'
  BY <1>1, <1>7 DEF ChargeOK
<1> QED
  BY <1>6, <1>8 DEF Charges

\* provider.complete: a session that owed nothing owes this call.
LEMMA ChargesAsk ==
  ASSUME Base, Charges, CostsBounded, NEW a \in Sessions, Ask(a)
  PROVE  Charges'
<1>1. /\ log \in Seq(Event) /\ billed \in Nat /\ Owing \in SUBSET Sessions
      /\ resp \in [Sessions -> Response \cup {NULL}] /\ pc \in [Sessions -> PCs]
  BY DEF Base, Typed, Owing
<1>2. OthersStay(a) /\ log' = log /\ token' = token /\ out' = out
  BY AskShape
<1>3. SpentFrom(log) \in Nat
  BY <1>1, SpentNat
<1>4. PICK act \in Actions, c \in Costs :
        /\ resp' = [resp EXCEPT ![a] = [action |-> act, cost |-> c]]
        /\ billed' = billed + c
  BY DEF Ask
<1>5. c \in Nat /\ MaxCost \in Nat /\ c <= MaxCost
  BY LargestCost
<1>6. pc[a] = "ask" /\ pc' = [pc EXCEPT ![a] = "store"]
  BY DEF Ask, Goto
<1>7. pc'[a] = "store" /\ \A d \in Sessions \ {a} : pc'[d] = pc[d]
  BY <1>1, <1>6
<1>8. resp'[a].cost = c
  BY <1>1, <1>4
<1>9. a \notin Owing /\ Owing' = Owing \cup {a}
  BY <1>6, <1>7 DEF Owing, Holding
<1>10. Room(Owing') = Room(Owing) + MaxCost /\ Room(Owing) \in Nat
  BY <1>1, <1>9, RoomAdds
<1>11. billed <= SpentFrom(log) + Room(Owing)
  BY DEF Charges
<1>12. billed' <= SpentFrom(log') + Room(Owing')
  BY <1>1, <1>2, <1>3, <1>4, <1>5, <1>10, <1>11
<1>13. ASSUME NEW d \in Sessions, d = token, pc'[d] \in Holding
       PROVE  billed' <= SpentFrom(log') + Room(Owing' \ {d}) + ChargeCost(d)'
  <2>1. CASE d = a
    <3>1. ChargeCost(d)' = c
      BY <1>7, <1>8, <2>1 DEF ChargeCost
    <3>2. Owing' \ {d} = Owing
      BY <1>9, <2>1
    <3>3. billed + c <= SpentFrom(log) + Room(Owing) + c
      BY <1>1, <1>3, <1>5, <1>10, <1>11
    <3> QED
      BY <1>2, <1>4, <3>1, <3>2, <3>3
  <2>2. CASE d # a
    <3>1. pc'[d] = pc[d] /\ ChargeCost(d)' = ChargeCost(d)
      BY <1>2, <2>2 DEF OthersStay, ChargeCost
    <3>2. billed <= SpentFrom(log) + Room(Owing \ {d}) + ChargeCost(d) /\ ChargeCost(d) \in Nat
      BY <1>13, <3>1, ChargeCostType DEF Charges, ChargeOK
    <3>3. /\ Owing' \ {d} = (Owing \ {d}) \cup {a} /\ a \in Sessions \ (Owing \ {d})
          /\ Owing \ {d} \in SUBSET Sessions
      BY <1>1, <1>9, <2>2
    <3>4. Room(Owing' \ {d}) = Room(Owing \ {d}) + MaxCost /\ Room(Owing \ {d}) \in Nat
      BY <3>3, RoomAdds
    <3> QED
      BY <1>1, <1>2, <1>3, <1>4, <1>5, <3>1, <3>2, <3>4
  <2> QED
    BY <2>1, <2>2
<1>14. \A d \in Sessions : d = token' => ChargeOK(d)'
  BY <1>2, <1>13 DEF ChargeOK
<1> QED
  BY <1>12, <1>14 DEF Charges

LEMMA ChargeCostNext ==
  ASSUME Base', NEW a \in Sessions, pc'[a] \in Holding
  PROVE  ChargeCost(a)' \in Nat
<1>1. SessionOK(a)' /\ out'[a] \in Outcome \cup {NULL}
  BY DEF Base, Typed
<1>2. CASE pc'[a] = "commit"
  BY <1>1, <1>2 DEF SessionOK, ChargeCost, Outcome
<1>3. CASE pc'[a] \in {"store", "tool"}
  BY <1>1, <1>3 DEF SessionOK, ChargeCost, Response
<1> QED
  BY <1>2, <1>3 DEF Holding

\* commit_step: the owner's event shows its charge, and the session owes nothing.
LEMMA ChargesCommit ==
  ASSUME Base, Charges, CostsBounded, NEW a \in Sessions, Commit(a), pc'[a] # "ended"
  PROVE  Charges'
<1>1. /\ log \in Seq(Event) /\ billed \in Nat /\ Owing \in SUBSET Sessions
  BY DEF Base, Typed, Owing
<1>2. /\ OthersStay(a) /\ token' = token /\ billed' = billed /\ pc[a] = "commit"
      /\ out[a] \in Outcome /\ Current(a) /\ log' = Append(log, CommitEvent(a))
      /\ pc'[a] = "replay"
  BY CommitShape DEF Committed
<1>3. CommitEvent(a) \in Event /\ CommitEvent(a).cost = out[a].cost /\ out[a].cost \in Nat
  BY <1>2, CommitEventType DEF Outcome
<1>4. SpentFrom(log) \in Nat /\ SpentFrom(log') = SpentFrom(log) + out[a].cost
  BY <1>1, <1>2, <1>3, SpentAppend
<1>5. Owing' = Owing \ {a}
  BY <1>2 DEF Owing, Holding, OthersStay
<1>6. billed <= SpentFrom(log) + Room(Owing \ {a}) + out[a].cost
  BY <1>2 DEF Charges, ChargeOK, Current, ChargeCost, Holding
<1>7. Room(Owing \ {a}) \in Nat
  BY <1>1, RoomGrows
<1>8. billed' <= SpentFrom(log') + Room(Owing')
  BY <1>1, <1>2, <1>3, <1>4, <1>5, <1>6, <1>7
<1>9. \A d \in Sessions : d = token' => ChargeOK(d)'
  BY <1>2 DEF ChargeOK, Holding, Current
<1> QED
  BY <1>8, <1>9 DEF Charges

LEMMA ChargesNext ==
  ASSUME Base, Charges, CostsBounded, [Next]_vars
  PROVE  Charges'
<1>1. CASE Submit \/ Revoke \/ UNCHANGED vars
  <2>1. UNCHANGED <<log, token, pc, resp, out, billed>>
    BY <1>1, EngineBase
  <2>2. Owing' = Owing /\ SpentFrom(log') = SpentFrom(log)
    BY <2>1 DEF Owing
  <2> QED
    BY <2>1, <2>2 DEF Charges, ChargeOK, ChargeCost
<1>2. CASE Claim
  <2>1. PICK a \in Sessions : a = token + 1
    BY <1>2, ClaimShape
  <2>2. /\ OthersStay(a) /\ log' = log /\ billed' = billed /\ pc[a] = "none" /\ token' = a
        /\ pc'[a] = "replay"
    BY <1>2, <2>1, ClaimShape
  <2>3. Owing' = Owing /\ SpentFrom(log') = SpentFrom(log)
    BY <2>2 DEF Owing, OthersStay, Holding
  <2>4. \A d \in Sessions : d = token' => ChargeOK(d)'
    BY <2>2 DEF ChargeOK, Holding
  <2> QED
    BY <2>2, <2>3, <2>4 DEF Charges
<1>3. ASSUME NEW a \in Sessions,
             \/ Crash(a) \/ (Raised(a) /\ pc[a] # "none")
             \/ (Commit(a) /\ pc'[a] = "ended")
      PROVE  Charges'
  <2>1. OthersStay(a) /\ LogGrows(a) /\ token' = token /\ billed' = billed /\ pc'[a] = "ended"
    BY <1>3, EndSteps, CommitShape, CommitGrows
  <2>2. QuietStep(a)
    BY <2>1 DEF QuietStep, Owing, Holding
  <2> QED
    BY <2>2, ChargesStay
<1>4. ASSUME NEW a \in Sessions, Replay(a)
      PROVE  Charges'
  <2>1. Base' /\ OthersStay(a) /\ log' = log /\ token' = token /\ billed' = billed /\ pc[a] = "replay"
    BY <1>4, ReplayShape
  <2>2. a \notin Owing
    BY <2>1 DEF Owing, Holding
  <2>3. QuietStep(a)
    BY <2>1, <2>2, ChargeCostNext DEF QuietStep, LogGrows
  <2> QED
    BY <2>3, ChargesStay
<1>5. ASSUME NEW a \in Sessions, Lookup(a) \/ RecordCall(a)
      PROVE  Charges'
  <2>1. Base' /\ OthersStay(a) /\ log' = log /\ token' = token
    BY <1>5, AskShape
  <2>2. billed' = billed /\ a \notin Owing
    BY <1>5 DEF Lookup, RecordCall, tables, Owing, Holding
  <2>3. QuietStep(a)
    BY <2>1, <2>2, ChargeCostNext DEF QuietStep, LogGrows
  <2> QED
    BY <2>3, ChargesStay
<1>6. ASSUME NEW a \in Sessions, Store(a)
      PROVE  Charges'
  <2>1. Base' /\ OthersStay(a) /\ log' = log /\ token' = token
    BY <1>6, AskShape
  <2>2. billed' = billed /\ pc[a] = "store" /\ pc' = [pc EXCEPT ![a] = "tool"] /\ resp' = resp
    BY <1>6 DEF Store, Goto
  <2>3. pc'[a] = "tool"
    BY <2>2 DEF Base, Typed
  <2>4. ChargeCost(a)' = ChargeCost(a)
    BY <2>2, <2>3 DEF ChargeCost
  <2>5. pc[a] \in Holding /\ a \in Owing'
    BY <2>2, <2>3 DEF Holding, Owing
  <2>6. QuietStep(a)
    BY <2>1, <2>2, <2>4, <2>5, ChargeCostNext DEF QuietStep, LogGrows
  <2> QED
    BY <2>6, ChargesStay
<1>7. ASSUME NEW a \in Sessions, Execute(a)
      PROVE  Charges'
  <2>1. /\ Base' /\ OthersStay(a) /\ log' = log /\ token' = token /\ billed' = billed
        /\ pc[a] = "tool" /\ pc'[a] = "commit" /\ out'[a].cost = resp[a].cost
    BY <1>7, ExecuteShape
  <2>2. ChargeCost(a)' = ChargeCost(a)
    BY <2>1 DEF ChargeCost
  <2>3. pc[a] \in Holding /\ a \in Owing'
    BY <2>1 DEF Holding, Owing
  <2>4. QuietStep(a)
    BY <2>1, <2>2, <2>3, ChargeCostNext DEF QuietStep, LogGrows
  <2> QED
    BY <2>4, ChargesStay
<1> QED
  BY <1>1, <1>2, <1>3, <1>4, <1>5, <1>6, <1>7, ChargesAsk, ChargesCommit, StepCases

LEMMA ChargesInit == Init /\ CostsBounded => Charges
<1> SUFFICES ASSUME Init, CostsBounded PROVE Charges
  OBVIOUS
<1>1. log = <<>> /\ billed = 0 /\ SpentFrom(log) = 0 /\ token = 0
  BY SpentEmpty DEF Init
<1>2. Owing = {}
  BY DEF Init, Owing, Holding
<1>3. Room(Owing) \in Nat
  BY <1>2, RoomGrows
<1>4. \A a \in Sessions : pc[a] \notin Holding
  BY DEF Init, Holding
<1> QED
  BY <1>1, <1>3, <1>4 DEF Charges, ChargeOK

\* The honest crash window, for any costs with a largest one and any number of
\* attempts, crashes and zombies: the provider charged at most one call per attempt
\* that no event shows.
THEOREM ChargesBounded ==
  ASSUME CostsBounded
  PROVE  Spec => []UnrecordedCharges
<1>1. Base /\ Charges => UnrecordedCharges
  <2> SUFFICES ASSUME Base, Charges PROVE UnrecordedCharges
    OBVIOUS
  <2>1. log \in Seq(Event) /\ billed \in Nat /\ token \in 0..MaxSessions /\ token \in Nat
    BY ConstantsAssumption DEF Base, Typed
  <2>2. \A a \in Owing : a \in 1..token
    <3> TAKE a \in Owing
    <3>1. a \in Sessions /\ pc[a] # "none"
      BY DEF Owing, Holding
    <3>2. ~(a > token)
      BY <3>1 DEF Base, SessionOK
    <3> QED
      BY <2>1, <3>1, <3>2, ConstantsAssumption DEF Sessions
  <2>3. IsFiniteSet(1..token) /\ Cardinality(1..token) = token
    BY <2>1, FS_Interval
  <2>4. Cardinality(Owing) <= token /\ Cardinality(Owing) \in Nat
    <3>1. Owing \in SUBSET (1..token) /\ Owing \in SUBSET Sessions
      BY <2>2 DEF Owing
    <3> QED
      BY <2>3, <3>1, FS_Subset, SessionsFinite
  <2>5. \A m, i, j \in Nat : i <= j => m * i <= j * m /\ m * i \in Nat /\ j * m \in Nat
    OBVIOUS
  <2>6. Room(Owing) <= token * MaxCost /\ Room(Owing) \in Nat /\ token * MaxCost \in Nat
    BY <2>1, <2>4, <2>5, LargestCost DEF Room
  <2>7. billed <= SpentFrom(log) + Room(Owing) /\ SpentFrom(log) \in Nat
    BY <2>1, SpentNat DEF Charges
  <2> QED
    BY <2>1, <2>6, <2>7 DEF UnrecordedCharges
<1>2. Charges /\ Base /\ [Next]_vars => Charges'
  BY ChargesNext
<1>3. Init => Charges
  BY ChargesInit
<1> QED
  BY BaseInvariant, <1>1, <1>2, <1>3, PTL DEF Spec
-----------------------------------------------------------------------------
\* What an event may cost: the provider's price, the price as llm_cache stores it,
\* or nothing.
Prices == Costs \cup {Numeric6(c) : c \in Costs} \cup {0}

Priced ==
  /\ \A c \in cache : c.resp.cost \in Prices
  /\ \A a \in Sessions : /\ pc[a] = "store" => resp[a].cost \in Costs
                         /\ pc[a] = "tool" => resp[a].cost \in Prices
                         /\ pc[a] = "commit" => out[a].cost \in Prices

LEMMA PricedStays ==
  ASSUME Priced, NEW a \in Sessions, OthersStay(a), cache' = cache,
         pc'[a] = "store" => resp'[a].cost \in Costs,
         pc'[a] = "tool" => resp'[a].cost \in Prices,
         pc'[a] = "commit" => out'[a].cost \in Prices
  PROVE  Priced'
<1>1. \A c \in cache' : c.resp.cost \in Prices
  BY DEF Priced
<1>2. ASSUME NEW d \in Sessions
      PROVE  /\ pc'[d] = "store" => resp'[d].cost \in Costs
             /\ pc'[d] = "tool" => resp'[d].cost \in Prices
             /\ pc'[d] = "commit" => out'[d].cost \in Prices
  <2>1. CASE d # a
    <3>1. pc'[d] = pc[d] /\ resp'[d] = resp[d] /\ out'[d] = out[d]
      BY <2>1 DEF OthersStay
    <3> QED
      BY <3>1 DEF Priced
  <2> QED
    BY <2>1
<1> QED
  BY <1>1, <1>2 DEF Priced

LEMMA PricedNext ==
  ASSUME Base, Priced, [Next]_vars
  PROVE  Priced'
<1>0. resp \in [Sessions -> Response \cup {NULL}] /\ pc \in [Sessions -> PCs]
  BY DEF Base, Typed
<1>1. CASE Submit \/ Revoke \/ UNCHANGED vars
  BY <1>1, EngineBase DEF Priced
<1>2. CASE Claim
  BY <1>2, ClaimShape, PricedStays
<1>3. ASSUME NEW a \in Sessions, Crash(a) \/ (Raised(a) /\ pc[a] # "none") \/ Commit(a)
      PROVE  Priced'
  <2>1. OthersStay(a) /\ cache' = cache /\ pc'[a] \in {"ended", "replay"}
    BY <1>3, EndSteps, CommitShape DEF Committed
  <2> QED
    BY <2>1, PricedStays
<1>4. ASSUME NEW a \in Sessions, Replay(a)
      PROVE  Priced'
  <2>1. /\ OthersStay(a) /\ cache' = cache
        /\ \/ pc'[a] = "lookup"
           \/ pc'[a] = "commit" /\ out'[a] = StopOutcome(CheckLimits(log))
              /\ CheckLimits(log) \in Terminal
    BY <1>4, ReplayShape
  <2>2. pc'[a] = "commit" => out'[a].cost \in Prices
    BY <2>1, StopType DEF Prices
  <2> QED
    BY <2>1, <2>2, PricedStays
<1>5. ASSUME NEW a \in Sessions, Lookup(a)
      PROVE  Priced'
  <2>1. OthersStay(a) /\ cache' = cache
    BY <1>5, AskShape DEF Lookup, tables
  <2>2. CASE \E c \in cache : resp' = [resp EXCEPT ![a] = c.resp] /\ Goto(a, "tool")
    <3>1. PICK c \in cache : resp' = [resp EXCEPT ![a] = c.resp] /\ Goto(a, "tool")
      BY <2>2
    <3>2. resp'[a] = c.resp /\ pc'[a] = "tool" /\ c.resp.cost \in Prices
      BY <1>0, <3>1 DEF Goto, Priced
    <3> QED
      BY <2>1, <3>2, PricedStays
  <2>3. CASE Goto(a, "record")
    <3>1. pc'[a] = "record"
      BY <1>0, <2>3 DEF Goto
    <3> QED
      BY <2>1, <3>1, PricedStays
  <2> QED
    BY <1>5, <2>2, <2>3 DEF Lookup
<1>6. ASSUME NEW a \in Sessions, RecordCall(a)
      PROVE  Priced'
  <2>1. OthersStay(a) /\ cache' = cache /\ pc'[a] = "ask"
    BY <1>0, <1>6, AskShape DEF RecordCall, Goto
  <2> QED
    BY <2>1, PricedStays
<1>7. ASSUME NEW a \in Sessions, Ask(a)
      PROVE  Priced'
  <2>1. OthersStay(a) /\ cache' = cache /\ pc'[a] = "store"
    BY <1>0, <1>7, AskShape DEF Ask, Goto
  <2>2. PICK act \in Actions, c \in Costs : resp' = [resp EXCEPT ![a] = [action |-> act, cost |-> c]]
    BY <1>7 DEF Ask
  <2>3. resp'[a].cost \in Costs
    BY <1>0, <2>2
  <2> QED
    BY <2>1, <2>3, PricedStays
<1>8. ASSUME NEW a \in Sessions, Store(a)
      PROVE  Priced'
  <2> DEFINE n == Numeric6(resp[a].cost)
             e == [key |-> CacheKey(a), resp |-> [resp[a] EXCEPT !.cost = Numeric6(@)]]
  <2>1. /\ OthersStay(a) /\ pc[a] = "store" /\ pc'[a] = "tool" /\ resp' = resp
        /\ cache' = cache \/ cache' = cache \cup {e}
    BY <1>0, <1>8, AskShape DEF Store, Goto
  <2>2. resp[a].cost \in Costs /\ resp[a] \in Response
    BY <2>1 DEF Priced, Base, SessionOK
  <2>3. n \in Prices /\ resp[a].cost \in Prices
    BY <2>2 DEF Prices
  <2>4. e.resp = [resp[a] EXCEPT !.cost = n]
    OBVIOUS
  <2> HIDE DEF n, e
  <2>5. e.resp.cost = n
    BY <2>2, <2>4 DEF Response
  <2>6. \A c \in cache' : c.resp.cost \in Prices
    BY <2>1, <2>3, <2>5 DEF Priced
  <2>7. ASSUME NEW d \in Sessions, d # a
        PROVE  /\ pc'[d] = "store" => resp'[d].cost \in Costs
               /\ pc'[d] = "tool" => resp'[d].cost \in Prices
               /\ pc'[d] = "commit" => out'[d].cost \in Prices
    <3>1. pc'[d] = pc[d] /\ resp'[d] = resp[d] /\ out'[d] = out[d]
      BY <2>1, <2>7 DEF OthersStay
    <3> QED
      BY <3>1 DEF Priced
  <2> QED
    BY <2>1, <2>3, <2>6, <2>7 DEF Priced
<1>9. ASSUME NEW a \in Sessions, Execute(a)
      PROVE  Priced'
  <2>1. /\ OthersStay(a) /\ cache' = cache /\ pc[a] = "tool" /\ pc'[a] = "commit"
        /\ out'[a].cost = resp[a].cost
    BY <1>9, ExecuteShape
  <2>2. out'[a].cost \in Prices
    BY <2>1 DEF Priced
  <2> QED
    BY <2>1, <2>2, PricedStays
<1> QED
  BY <1>1, <1>2, <1>3, <1>4, <1>5, <1>6, <1>7, <1>8, <1>9, StepCases

\* What RunLog sees of an event and of a log.
EntryOf(k, e) == [key |-> k, attempt |-> e.attempt, cost |-> e.cost, final |-> e.final]
Entries(s) == [k \in DOMAIN s |-> EntryOf(k - 1, s[k])]
OneRun(x) == [r \in {"run"} |-> x]

LEMMA EntriesAppend ==
  ASSUME NEW s \in Seq(Event), NEW e \in Event
  PROVE  /\ Entries(Append(s, e)) = Append(Entries(s), EntryOf(Len(s), e))
         /\ Len(Entries(s)) = Len(s)
<1> DEFINE n == Len(s) + 1
           t == Append(s, e)
           x == EntryOf(Len(s), e)
<1>1. /\ n \in Nat /\ DOMAIN t = 1..n /\ t[n] = e /\ DOMAIN s = 1..(n - 1) /\ n - 1 = Len(s)
      /\ \A k \in 1..(n - 1) : t[k] = s[k]
  OBVIOUS
<1>2. PICK f : f = Entries(s)
  OBVIOUS
<1>3. f = [k \in 1..(n - 1) |-> EntryOf(k - 1, s[k])]
  BY <1>1, <1>2 DEF Entries
<1>4. PICK V : \A k \in 1..(n - 1) : f[k] \in V
  <2>1. \A k \in 1..(n - 1) : f[k] \in {f[i] : i \in 1..(n - 1)}
    OBVIOUS
  <2> QED
    BY <2>1
<1> HIDE DEF n, t, x
<1>5. f \in [1..(n - 1) -> V \cup {x}] /\ n - 1 \in Nat
  BY <1>1, <1>3, <1>4
<1>6. f \in Seq(V \cup {x}) /\ Len(f) = n - 1
  BY <1>5
<1>7. Append(f, x) = [k \in 1..n |-> IF k = n THEN x ELSE f[k]]
  <2>1. PICK g : g = Append(f, x)
    OBVIOUS
  <2>2. PICK S : S = V \cup {x}
    OBVIOUS
  <2>3. g \in Seq(S) /\ Len(g) = n /\ g[n] = x /\ \A k \in 1..(n - 1) : g[k] = f[k]
    BY <1>1, <1>6, <2>1, <2>2
  <2>4. g = [k \in 1..n |-> g[k]]
    BY <2>3
  <2>5. \A k \in 1..n : g[k] = IF k = n THEN x ELSE f[k]
    BY <1>1, <2>3
  <2> QED
    BY <2>1, <2>4, <2>5
<1>8. Entries(t) = [k \in 1..n |-> IF k = n THEN x ELSE f[k]]
  <2>1. Entries(t) = [k \in 1..n |-> EntryOf(k - 1, t[k])]
    BY <1>1 DEF Entries
  <2>2. ASSUME NEW k \in 1..n PROVE EntryOf(k - 1, t[k]) = IF k = n THEN x ELSE f[k]
    <3>1. CASE k = n
      BY <1>1, <3>1 DEF x
    <3>2. CASE k # n
      <4>1. k \in 1..(n - 1)
        BY <1>1, <3>2
      <4> QED
        BY <1>1, <1>3, <3>2, <4>1
    <3> QED
      BY <3>1, <3>2
  <2> QED
    BY <2>1, <2>2, Zenon
<1> QED
  BY <1>1, <1>2, <1>6, <1>7, <1>8 DEF t, x

LEMMA SeenEntries ==
  /\ [k \in DOMAIN log |-> Entry(k)] = Entries(log)
  /\ [k \in DOMAIN log |-> Entry(k)]' = Entries(log')
  BY DEF Entry, Entries, EntryOf

LEMMA OneRunExcept ==
  ASSUME NEW x, NEW y
  PROVE  [OneRun(x) EXCEPT !["run"] = y] = OneRun(y) /\ OneRun(x)["run"] = x
  BY DEF OneRun

\* An event of the owner is the abstract Extend or Finish (commit_step, fail_run).
LEMMA AppendRefines ==
  ASSUME log \in Seq(Event), status = "running", held = TRUE, NEW e \in Event,
         e.attempt = token, e.cost \in Prices, log' = Append(log, e), token' = token,
         \/ e.final = FALSE /\ status' = status /\ held' = TRUE
         \/ e.final = TRUE /\ status' \in Terminal /\ held' = FALSE
  PROVE  Log!Next
<1> DEFINE old == [k \in DOMAIN log |-> Entry(k)]
           new == [k \in DOMAIN log |-> Entry(k)]'
           x == EntryOf(Len(log), e)
<1>1. new = Append(old, x) /\ Len(old) = Len(log)
  BY SeenEntries, EntriesAppend
<1>2. x = [key |-> Len(old), attempt |-> token, cost |-> e.cost, final |-> e.final]
  BY <1>1 DEF EntryOf
<1>3. PICK c \in Prices : c = e.cost
  OBVIOUS
<1>4. /\ OneRun(status)["run"] = "running" /\ OneRun(held)["run"] = TRUE
      /\ OneRun(token)["run"] = token /\ OneRun(old)["run"] = old
  BY OneRunExcept
<1>5. OneRun(new) = [OneRun(old) EXCEPT !["run"] = Append(old, x)]
  <2> HIDE DEF old, new, x
  <2> QED
    BY <1>1, OneRunExcept, Zenon
<1>6. CASE e.final = FALSE /\ status' = status /\ held' = TRUE
  <2>1. x = [key |-> Len(old), attempt |-> token, cost |-> c, final |-> FALSE]
    BY <1>2, <1>3, <1>6
  <2>2. OneRun(status') = OneRun(status) /\ OneRun(held') = OneRun(held) /\ OneRun(token') = OneRun(token)
    BY <1>6
  <2> HIDE DEF old, new, x
  <2>3. /\ OneRun(new) = [OneRun(old) EXCEPT !["run"] =
             Append(OneRun(old)["run"], [key |-> Len(OneRun(old)["run"]),
                    attempt |-> OneRun(token)["run"], cost |-> c, final |-> FALSE])]
    BY <1>4, <1>5, <2>1, Zenon
  <2>4. Log!Extend("run", c)
    BY <1>4, <2>2, <2>3, Zenon DEF Log!Extend, OneRun, old, new
  <2> QED
    BY <2>4 DEF Log!Next, Prices
<1>7. CASE e.final = TRUE /\ status' \in Terminal /\ held' = FALSE
  <2>1. x = [key |-> Len(old), attempt |-> token, cost |-> c, final |-> TRUE]
    BY <1>2, <1>3, <1>7
  <2>2. PICK end \in Log!EndStatus : end = status'
    BY <1>7 DEF Log!EndStatus, Terminal
  <2>3. /\ OneRun(status') = [OneRun(status) EXCEPT !["run"] = end]
        /\ OneRun(held') = [OneRun(held) EXCEPT !["run"] = FALSE]
        /\ OneRun(token') = OneRun(token)
    BY <1>7, <2>2, OneRunExcept
  <2> HIDE DEF old, new, x
  <2>4. /\ OneRun(new) = [OneRun(old) EXCEPT !["run"] =
             Append(OneRun(old)["run"], [key |-> Len(OneRun(old)["run"]),
                    attempt |-> OneRun(token)["run"], cost |-> c, final |-> TRUE])]
    BY <1>4, <1>5, <2>1, Zenon
  <2>5. Log!Finish("run", c, end)
    BY <1>4, <2>3, <2>4, Zenon DEF Log!Finish, OneRun, old, new
  <2> QED
    BY <2>5 DEF Log!Next, Prices
<1> QED
  BY <1>6, <1>7

\* Every step of the sessions is a step of RunLog or invisible to it.
LEMMA StepUsesLog ==
  ASSUME Base, Priced, [Next]_vars
  PROVE  [Log!Next]_(Log!vars)
<1>0. log \in Seq(Event) /\ held \in BOOLEAN /\ (held => status = "running")
  BY DEF Base, Typed
<1>1. ASSUME UNCHANGED <<status, log, token, held>>
      PROVE  [Log!Next]_(Log!vars)
  BY <1>1 DEF Log!vars, Entry
<1>2. ASSUME log' = log, status' = status, token' = token, held = TRUE, held' = FALSE
      PROVE  [Log!Next]_(Log!vars)
  <2>1. OneRun(held') = [r \in {"run"} |-> OneRun(held)[r] /\ r \notin {"run"}]
    BY <1>2 DEF OneRun
  <2>2. \A r \in {"run"} : OneRun(held)[r]
    BY <1>2 DEF OneRun
  <2>3. {"run"} # {} /\ {"run"} \in SUBSET {"run"}
    OBVIOUS
  <2>4. Log!Revoke({"run"})
    BY <1>2, <2>1, <2>2, <2>3 DEF Log!Revoke, OneRun, Entry
  <2> QED
    BY <2>3, <2>4 DEF Log!Next
<1>3. CASE Submit
  <2>1. status = "absent" /\ status' = "pending" /\ UNCHANGED <<log, token, held>>
    BY <1>3 DEF Submit
  <2>2. Log!Submit("run")
    BY <2>1 DEF Log!Submit, Entry
  <2> QED
    BY <2>2 DEF Log!Next
<1>4. CASE Revoke
  BY <1>0, <1>2, <1>4 DEF Revoke
<1>5. CASE UNCHANGED vars
  BY <1>1, <1>5 DEF vars, logVars
<1>6. CASE Claim
  <2>1. /\ status \in {"pending", "running"} /\ held = FALSE /\ status' = "running"
        /\ held' = TRUE /\ token' = token + 1 /\ log' = log
    BY <1>0, <1>6 DEF Claim
  <2>2. Log!Grant("run")
    BY <2>1 DEF Log!Grant, Entry
  <2> QED
    BY <2>2 DEF Log!Next
<1>7. ASSUME NEW a \in Sessions, Crash(a) \/ (Raised(a) /\ pc[a] # "none")
      PROVE  [Log!Next]_(Log!vars)
  <2>1. /\ token' = token
        /\ \/ log' = log /\ status' = status /\ (held' = held \/ held' = FALSE)
           \/ /\ Current(a) /\ log' = Append(log, NullEvent(a))
              /\ status' = "failed" /\ held' = FALSE
    BY <1>7, EndSteps
  <2>2. CASE log' = log /\ status' = status /\ held' = held
    BY <1>1, <2>1, <2>2
  <2>3. CASE log' = log /\ status' = status /\ held' = FALSE
    BY <1>0, <1>1, <1>2, <2>1, <2>3
  <2>4. CASE Current(a) /\ log' = Append(log, NullEvent(a)) /\ status' = "failed" /\ held' = FALSE
    <3>1. /\ NullEvent(a) \in Event /\ NullEvent(a).attempt = token /\ NullEvent(a).cost \in Prices
          /\ NullEvent(a).final = TRUE /\ held = TRUE /\ status = "running"
          /\ status' \in Terminal
      BY <1>0, <2>4, NullEventType DEF Current, Prices, Terminal
    <3> QED
      BY <1>0, <2>1, <2>4, <3>1, AppendRefines
  <2> QED
    BY <2>1, <2>2, <2>3, <2>4
<1>8. ASSUME NEW a \in Sessions,
             Replay(a) \/ Execute(a) \/ Lookup(a) \/ RecordCall(a) \/ Ask(a) \/ Store(a)
      PROVE  [Log!Next]_(Log!vars)
  BY <1>1, <1>8, ReplayShape, ExecuteShape, AskShape
<1>9. ASSUME NEW a \in Sessions, Commit(a)
      PROVE  [Log!Next]_(Log!vars)
  <2>1. /\ token' = token /\ out[a] \in Outcome /\ pc[a] = "commit"
        /\ \/ Committed(a)
           \/ ~Current(a) /\ UNCHANGED <<status, log, held, lastWs>>
    BY <1>9, CommitShape
  <2>2. CASE ~Current(a) /\ UNCHANGED <<status, log, held, lastWs>>
    BY <1>1, <2>1, <2>2
  <2>3. CASE Committed(a)
    <3>1. /\ CommitEvent(a) \in Event /\ CommitEvent(a).attempt = token
          /\ CommitEvent(a).cost \in Prices /\ CommitEvent(a).final = out[a].final
          /\ out[a].final \in BOOLEAN /\ out[a].status \in Terminal
          /\ held = TRUE /\ status = "running" /\ log' = Append(log, CommitEvent(a))
      BY <1>0, <2>1, <2>3, CommitEventType DEF Committed, Current, Priced, Outcome
    <3>2. \/ CommitEvent(a).final = FALSE /\ status' = status /\ held' = TRUE
          \/ CommitEvent(a).final = TRUE /\ status' \in Terminal /\ held' = FALSE
      BY <2>3, <3>1 DEF Committed
    <3> QED
      BY <1>0, <2>1, <3>1, <3>2, AppendRefines
  <2> QED
    BY <2>1, <2>2, <2>3
<1> QED
  BY <1>3, <1>4, <1>5, <1>6, <1>7, <1>8, <1>9, StepCases

\* The agent loop uses the run's log exactly as the engine's own proof says it may
\* be used: with EngineImplementsRunLog, the two models meet at RunLog.
THEOREM AgentUsesRunLog == Spec => UsesRunLog
<1>1. Init => Log!Init
  <2> SUFFICES ASSUME Init PROVE Log!Init
    OBVIOUS
  <2>1. [k \in DOMAIN log |-> Entry(k)] = <<>>
    <3>1. PICK f : f = [k \in DOMAIN log |-> Entry(k)]
      OBVIOUS
    <3>2. DOMAIN log = {} /\ DOMAIN f = {} /\ f = [k \in {} |-> f[k]]
      BY <3>1 DEF Init
    <3> QED
      BY <3>1, <3>2
  <2>2. status = "absent" /\ token = 0 /\ held = FALSE
    BY DEF Init
  <2> QED
    BY <2>1, <2>2, Zenon DEF Log!Init
<1>2. Init => Priced
  BY DEF Init, Priced
<1>3. Priced /\ Base /\ [Next]_vars => Priced'
  BY PricedNext
<1>4. Base /\ Priced /\ [Next]_vars => [Log!Next]_(Log!vars)
  BY StepUsesLog
<1> QED
  BY BaseInvariant, <1>1, <1>2, <1>3, <1>4, PTL DEF Spec, UsesRunLog, Log!Spec
=============================================================================
