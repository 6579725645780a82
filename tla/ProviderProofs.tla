--------------------------- MODULE ProviderProofs ---------------------------
(***************************************************************************)
(* Proofs about the providers, for any number of runs, any interval, waits *)
(* and caps: pacing, the retries of _post, and the translation of every    *)
(* history.                                                                *)
(***************************************************************************)
EXTENDS Provider, InductionFacts, FiniteSetTheorems

CallPCs == {"idle", "pace", "paceSleep", "post", "backoff", "sdk", "failed"}
CallState == [pc: CallPCs, attempt: Nat, sent: Nat, sleep: Nat, asked: Nat, quota: BOOLEAN]
InstState == [lock: Instances, nextOk: Nat, since: Nat, gap: Nat]

\* The slots of an instance so far were far enough apart, and when the next one is
\* due the last is MinInterval ago.
SlotsOK(n) == n.since + n.nextOk >= MinInterval /\ n.gap >= MinInterval

\* What is left of the wait that the service asked for is slept in _post, nowhere else.
RetryOK(c) ==
  /\ c.sent < MAX_ATTEMPTS
  /\ c.pc = "backoff" => c.asked <= c.sleep
  /\ c.pc \notin {"backoff", "failed"} => c.asked = 0
  /\ c.quota => c.pc = "failed"

\* Who sleeps in _pace holds the lock and sleeps until the slot is due.
PaceOK(r, c, n) == c.pc = "paceSleep" => n.lock = r /\ n.nextOk <= c.sleep

ProviderInv ==
  /\ given \in BOOLEAN /\ call \in [Runs -> CallState] /\ inst \in [Instances -> InstState]
  /\ \A i \in Instances : SlotsOK(inst[i])
  /\ \A r \in Runs : RetryOK(call[r]) /\ PaceOK(r, call[r], inst[Inst(r)])

\* A step of r makes c of its call and n of its instance; a lock that another run holds
\* stays held, and its slot comes no later.
LEMMA RunMoves ==
  ASSUME ProviderInv, NEW r \in Runs, NEW c \in CallState, NEW n \in InstState,
         call' = [call EXCEPT ![r] = c], inst' = [inst EXCEPT ![Inst(r)] = n], given' = given,
         SlotsOK(n), RetryOK(c), PaceOK(r, c, n),
         given /\ inst[Inst(r)].lock \notin {r, Shared} =>
           n.lock = inst[Inst(r)].lock /\ n.nextOk = inst[Inst(r)].nextOk
  PROVE  ProviderInv'
<1>1. /\ call \in [Runs -> CallState] /\ inst \in [Instances -> InstState]
      /\ \A i \in Instances : SlotsOK(inst[i])
      /\ \A q \in Runs : RetryOK(call[q]) /\ PaceOK(q, call[q], inst[Inst(q)])
  BY DEF ProviderInv
<1>2. Shared \notin Runs /\ \A q \in Runs : Inst(q) \in Instances /\ Inst(q)' = Inst(q)
  BY ConstantsAssumption DEF Inst, Instances
<1>3. /\ call' \in [Runs -> CallState] /\ inst' \in [Instances -> InstState]
      /\ call'[r] = c /\ inst'[Inst(r)] = n
      /\ \A q \in Runs \ {r} : call'[q] = call[q]
      /\ \A i \in Instances \ {Inst(r)} : inst'[i] = inst[i]
  BY <1>1, <1>2
<1>4. \A i \in Instances : SlotsOK(inst'[i])
  BY <1>1, <1>3
<1>5. ASSUME NEW q \in Runs \ {r} PROVE PaceOK(q, call'[q], inst'[Inst(q)])
  <2>1. CASE Inst(q) # Inst(r)
    BY <1>1, <1>2, <1>3, <2>1
  <2>2. CASE Inst(q) = Inst(r) /\ call[q].pc = "paceSleep"
    <3>1. given
      BY <1>2, <2>2 DEF Inst
    <3> QED
      BY <1>1, <1>2, <1>3, <2>2, <3>1 DEF PaceOK
  <2>3. CASE call[q].pc # "paceSleep"
    BY <1>3, <2>3 DEF PaceOK
  <2> QED
    BY <2>1, <2>2, <2>3
<1>6. ASSUME NEW q \in Runs PROVE RetryOK(call'[q]) /\ PaceOK(q, call'[q], inst'[Inst(q)'])
  BY <1>1, <1>2, <1>3, <1>5
<1>7. /\ \A i \in Instances : SlotsOK(inst[i])'
      /\ \A q \in Runs : RetryOK(call[q])' /\ PaceOK(q, call[q], inst[Inst(q)])'
  BY <1>4, <1>6 DEF SlotsOK, RetryOK, PaceOK
<1>8. given' \in BOOLEAN
  BY DEF ProviderInv
<1> QED
  BY <1>3, <1>7, <1>8 DEF ProviderInv

\* The same for a step that leaves the instance alone.
LEMMA CallMoves ==
  ASSUME ProviderInv, NEW r \in Runs, NEW c \in CallState,
         call' = [call EXCEPT ![r] = c], inst' = inst, given' = given,
         RetryOK(c), c.pc # "paceSleep"
  PROVE  ProviderInv'
<1>1. Inst(r) \in Instances
  BY DEF Inst, Instances
<1>2. PICK n : n = inst[Inst(r)]
  OBVIOUS
<1>3. n \in InstState /\ SlotsOK(n) /\ inst' = [inst EXCEPT ![Inst(r)] = n]
  BY <1>1, <1>2 DEF ProviderInv
<1>4. PaceOK(r, c, n)
  BY DEF PaceOK
<1> QED
  BY <1>2, <1>3, <1>4, RunMoves

\* What a run gives up at the end of an attempt: its lock, or its instance.
LEMMA Dropped ==
  ASSUME ProviderInv, NEW r \in Runs, DropInstance(r)
  PROVE  \E n \in InstState :
           /\ inst' = [inst EXCEPT ![Inst(r)] = n] /\ SlotsOK(n)
           /\ given /\ inst[Inst(r)].lock \notin {r, Shared} =>
                n.lock = inst[Inst(r)].lock /\ n.nextOk = inst[Inst(r)].nextOk
<1>1. Inst(r) \in Instances /\ MinInterval \in Nat /\ Shared \in Instances
  BY ConstantsAssumption DEF Inst, Instances
<1>2. inst \in [Instances -> InstState] /\ \A i \in Instances : SlotsOK(inst[i])
  BY DEF ProviderInv
<1>3. CASE given
  <2>1. PICK m \in InstState : m = inst[Inst(r)] /\ SlotsOK(m)
    BY <1>1, <1>2
  <2>2. PICK n : n = Unlocked(m, r)
    OBVIOUS
  <2>3. n \in InstState /\ n.lock = (IF m.lock = r THEN Shared ELSE m.lock) /\ n.nextOk = m.nextOk
    BY <1>1, <2>1, <2>2 DEF InstState, Unlocked
  <2>4. SlotsOK(n)
    BY <2>1, <2>2 DEF InstState, SlotsOK, Unlocked
  <2>5. inst' = [inst EXCEPT ![Inst(r)] = n]
    BY <1>3, <2>1, <2>2, Zenon DEF DropInstance
  <2> QED
    BY <2>1, <2>3, <2>4, <2>5
<1>4. CASE ~given
  <2>1. inst' = [inst EXCEPT ![Inst(r)] = Free]
    BY <1>4 DEF DropInstance
  <2>2. Free \in InstState /\ SlotsOK(Free)
    BY <1>1 DEF Free, InstState, SlotsOK
  <2> QED
    BY <1>4, <2>1, <2>2
<1> QED
  BY <1>3, <1>4

LEMMA FreshCall ==
  ASSUME NEW k \in Nat
  PROVE  LET c == [NoCall EXCEPT !.attempt = k] IN c \in CallState /\ RetryOK(c) /\ c.pc = "idle"
<1>1. PICK c : c = [NoCall EXCEPT !.attempt = k]
  OBVIOUS
<1>2. c = [pc |-> "idle", attempt |-> k, sent |-> 0, sleep |-> 0, asked |-> 0, quota |-> FALSE]
  BY <1>1 DEF NoCall
<1>3. c \in CallState
  BY <1>2 DEF CallState, CallPCs
<1>4. c.pc = "idle" /\ c.sent = 0 /\ c.asked = 0 /\ c.quota = FALSE
  BY <1>2
<1>5. 0 < MAX_ATTEMPTS
  BY ConstantsAssumption
<1>6. RetryOK(c)
  BY <1>4, <1>5 DEF RetryOK
<1> QED
  BY <1>1, <1>3, <1>4, <1>6

\* The attempt ends with an exception: the next one starts afresh, or the run has failed.
LEMMA ErrorMoves ==
  ASSUME ProviderInv, NEW r \in Runs, Error(r), given' = given, call[r].pc # "failed"
  PROVE  ProviderInv'
<1>1. PICK n \in InstState :
        /\ inst' = [inst EXCEPT ![Inst(r)] = n] /\ SlotsOK(n)
        /\ given /\ inst[Inst(r)].lock \notin {r, Shared} =>
             n.lock = inst[Inst(r)].lock /\ n.nextOk = inst[Inst(r)].nextOk
  BY Dropped DEF Error
<1>2. call[r] \in CallState /\ RetryOK(call[r]) /\ MAX_ATTEMPTS \in Nat \ {0}
  BY ConstantsAssumption DEF ProviderInv
<1>3. PICK k \in Nat : k = call[r].attempt + 1
  BY <1>2 DEF CallState
<1>4. PICK c : c = IF call[r].attempt < MaxTaskAttempts THEN [NoCall EXCEPT !.attempt = k]
                   ELSE [call[r] EXCEPT !.pc = "failed"]
  OBVIOUS
<1>5. call' = [call EXCEPT ![r] = c]
  <2>1. call' = [call EXCEPT ![r] = IF call[r].attempt < MaxTaskAttempts
                                    THEN [NoCall EXCEPT !.attempt = call[r].attempt + 1]
                                    ELSE [call[r] EXCEPT !.pc = "failed"]]
    BY Zenon DEF Error
  <2> QED
    BY <1>3, <1>4, <2>1, Zenon
<1>6. c \in CallState /\ RetryOK(c) /\ c.pc # "paceSleep"
  <2>1. /\ [NoCall EXCEPT !.attempt = k] \in CallState /\ RetryOK([NoCall EXCEPT !.attempt = k])
        /\ [NoCall EXCEPT !.attempt = k].pc = "idle"
    BY <1>2, FreshCall
  <2>2. /\ [call[r] EXCEPT !.pc = "failed"] \in CallState /\ RetryOK([call[r] EXCEPT !.pc = "failed"])
        /\ [call[r] EXCEPT !.pc = "failed"].pc = "failed"
    BY <1>2 DEF CallState, CallPCs, RetryOK
  <2> QED
    BY <1>4, <2>1, <2>2
<1>7. PaceOK(r, c, n)
  BY <1>6 DEF PaceOK
<1> QED
  BY <1>1, <1>5, <1>6, <1>7, RunMoves

\* A call that moves on without a wait.
LEMMA GoesOn ==
  ASSUME ProviderInv, NEW r \in Runs, NEW to \in {"idle", "pace", "post", "sdk"},
         call[r].asked = 0, ~call[r].quota
  PROVE  LET c == [call[r] EXCEPT !.pc = to] IN
         c \in CallState /\ RetryOK(c) /\ c.pc # "paceSleep" /\ PaceOK(r, c, inst[Inst(r)])
<1>1. call[r] \in CallState /\ RetryOK(call[r])
  BY DEF ProviderInv
<1> QED
  BY <1>1 DEF CallState, CallPCs, RetryOK, PaceOK

LEMMA PaceMoves ==
  ASSUME ProviderInv, NEW r \in Runs, Pace(r) \/ PaceDone(r)
  PROVE  ProviderInv'
<1>0. MinInterval \in Nat /\ Inst(r) \in Instances /\ Shared \notin Runs /\ Instances = Runs \cup {Shared}
  BY ConstantsAssumption DEF Inst, Instances
<1>1. PICK m : m = inst[Inst(r)] /\ m \in InstState /\ SlotsOK(m)
  BY <1>0 DEF ProviderInv
<1>2. PICK d : d = call[r] /\ d \in CallState /\ RetryOK(d) /\ PaceOK(r, d, m)
  BY <1>1 DEF ProviderInv
<1>3. given' = given /\ call[r].pc \in {"pace", "paceSleep"}
  BY DEF Pace, PaceDone
<1>4. d.asked = 0 /\ ~d.quota
  BY <1>2, <1>3 DEF RetryOK
<1>5. CASE Pace(r) /\ MinInterval = 0
  <2>1. call' = [call EXCEPT ![r].pc = "post"] /\ inst' = inst
    BY <1>5 DEF Pace
  <2> QED
    BY <1>2, <1>3, <1>4, <2>1, GoesOn, CallMoves
<1>6. CASE Pace(r) /\ MinInterval # 0
  <2>1. PICK n : n = [m EXCEPT !.lock = r]
    OBVIOUS
  <2>2. PICK c : c = [d EXCEPT !.pc = "paceSleep", !.sleep = m.nextOk]
    OBVIOUS
  <2>3. m.lock = Shared /\ inst' = [inst EXCEPT ![Inst(r)] = n]
    BY <1>0, <1>1, <1>6, <2>1 DEF Pace, ProviderInv
  <2>4. call' = [call EXCEPT ![r] = c]
    BY <1>1, <1>2, <1>6, <2>2 DEF Pace, ProviderInv
  <2>5. n \in InstState /\ SlotsOK(n) /\ n.lock = r /\ n.nextOk = m.nextOk
    BY <1>0, <1>1, <2>1 DEF InstState, SlotsOK
  <2>6. c \in CallState /\ RetryOK(c) /\ c.sleep = m.nextOk
    BY <1>1, <1>2, <1>4, <2>2 DEF CallState, CallPCs, RetryOK, InstState
  <2>7. PaceOK(r, c, n)
    BY <1>1, <2>5, <2>6 DEF PaceOK, InstState
  <2> QED
    BY <1>1, <1>3, <2>3, <2>4, <2>5, <2>6, <2>7, RunMoves
<1>7. CASE PaceDone(r)
  <2>1. /\ d.pc = "paceSleep" /\ d.sleep = 0
    BY <1>2, <1>7 DEF PaceDone
  <2>2. m.lock = r /\ m.nextOk = 0 /\ m.since >= MinInterval /\ m.gap >= MinInterval /\ m.gap \in Nat
        /\ m.since \in Nat
    BY <1>0, <1>1, <1>2, <2>1 DEF PaceOK, InstState, CallState, SlotsOK
  <2>3. PICK n : n = [lock |-> Shared, nextOk |-> MinInterval, since |-> 0,
                      gap |-> Least(m.gap, m.since)]
    OBVIOUS
  <2>4. inst' = [inst EXCEPT ![Inst(r)] = n]
    BY <1>1, <1>7, <2>3, Zenon DEF PaceDone
  <2>5. PICK g \in Nat : g = Least(m.gap, m.since) /\ g >= MinInterval
    BY <2>2 DEF Least
  <2>6. n \in InstState /\ SlotsOK(n)
    BY <1>0, <2>3, <2>5 DEF InstState, SlotsOK
  <2>7. PICK c : c = [d EXCEPT !.pc = "post"]
    OBVIOUS
  <2>8. call' = [call EXCEPT ![r] = c]
    BY <1>2, <1>7, <2>7 DEF PaceDone, ProviderInv
  <2>9. c \in CallState /\ RetryOK(c) /\ c.pc # "paceSleep"
    BY <1>2, <1>4, <2>7, GoesOn
  <2>10. PaceOK(r, c, n)
    BY <2>9 DEF PaceOK
  <2> QED
    BY <1>1, <1>3, <2>2, <2>4, <2>6, <2>8, <2>9, <2>10, RunMoves
<1> QED
  BY <1>5, <1>6, <1>7

LEMMA PowersOfTwo == \A n \in Nat : 2 ^ n \in Nat
<1> SUFFICES ASSUME NEW n \in Nat PROVE 2 ^ n \in Nat
  OBVIOUS
<1>1. IsFiniteSet(1..n) /\ Cardinality(1..n) = n
  <2>1. 1 \in Int /\ n \in Int /\ (IF 1 > n THEN 0 ELSE n - 1 + 1) = n
    OBVIOUS
  <2> QED
    BY <2>1, FS_Interval
<1>2. IsFiniteSet(SUBSET (1..n)) /\ Cardinality(SUBSET (1..n)) = 2 ^ n
  BY <1>1, FS_SUBSET
<1> QED
  BY <1>2, FS_CardinalityType

\* The wait of retry_delay, as far as the cap goes, covers the wait asked for.
LEMMA RetryWait ==
  ASSUME NEW where \in {"header", "body", "none"}, NEW hint \in Nat, NEW k \in Nat
  PROVE  /\ Least(retry_delay(where, hint, k), MAX_BACKOFF_S) \in Nat
         /\ Least(hint, MAX_BACKOFF_S) \in Nat
         /\ where # "none" => Least(hint, MAX_BACKOFF_S) <= Least(retry_delay(where, hint, k), MAX_BACKOFF_S)
<1>1. MAX_BACKOFF_S \in Nat
  BY ConstantsAssumption
<1>2. PICK w \in Nat : w = retry_delay(where, hint, k) /\ (where # "none" => hint <= w)
  <2>1. CASE where = "header"
    BY <2>1 DEF retry_delay
  <2>2. CASE where = "body"
    BY <2>2 DEF retry_delay
  <2>3. CASE where = "none"
    BY <2>3, PowersOfTwo DEF retry_delay
  <2> QED
    BY <2>1, <2>2, <2>3
<1> QED
  BY <1>1, <1>2 DEF Least

\* _post waits and tries again.
LEMMA RetryMoves ==
  ASSUME ProviderInv, NEW r \in Runs, PostRetry(r)
  PROVE  ProviderInv'
<1>1. PICK d : d = call[r] /\ d \in CallState /\ RetryOK(d)
  BY DEF ProviderInv
<1>2. d.pc = "post" /\ given' = given
  BY <1>1 DEF PostRetry
<1>3. MAX_ATTEMPTS \in Nat \ {0} /\ Hints \subseteq Nat
  BY ConstantsAssumption
<1>4. CASE call[r].sent = MAX_ATTEMPTS - 1
  <2>1. Error(r) /\ call[r].pc # "failed"
    BY <1>1, <1>2, <1>4 DEF PostRetry
  <2> QED
    BY <1>2, <2>1, ErrorMoves
<1>5. CASE call[r].sent # MAX_ATTEMPTS - 1
  <2>1. PICK where \in {"header", "body", "none"}, hint \in Hints :
          /\ call' = [call EXCEPT ![r].pc = "backoff", ![r].sent = @ + 1,
                 ![r].sleep = Least(retry_delay(where, hint, call[r].sent), MAX_BACKOFF_S),
                 ![r].asked = IF where = "none" THEN 0 ELSE Least(hint, MAX_BACKOFF_S)]
          /\ inst' = inst
    BY <1>5 DEF PostRetry
  <2>2. PICK m \in Nat : m = d.sent + 1 /\ m < MAX_ATTEMPTS
    BY <1>1, <1>3, <1>5 DEF CallState, RetryOK
  <2>3. hint \in Nat /\ d.sent \in Nat
    BY <1>1, <1>3 DEF CallState
  <2>4. PICK s \in Nat, a \in Nat :
          /\ s = Least(retry_delay(where, hint, call[r].sent), MAX_BACKOFF_S)
          /\ a = IF where = "none" THEN 0 ELSE Least(hint, MAX_BACKOFF_S)
          /\ a <= s
    <3>1. PICK s \in Nat : s = Least(retry_delay(where, hint, call[r].sent), MAX_BACKOFF_S)
      BY <1>1, <2>3, RetryWait
    <3>2. PICK h \in Nat : h = Least(hint, MAX_BACKOFF_S) /\ (where # "none" => h <= s)
      BY <1>1, <2>3, <3>1, RetryWait
    <3>3. PICK a \in Nat : a = IF where = "none" THEN 0 ELSE h
      OBVIOUS
    <3>4. a <= s
      BY <3>2, <3>3
    <3> QED
      BY <3>1, <3>2, <3>3, <3>4
  <2>5. PICK c : c = [d EXCEPT !.pc = "backoff", !.sent = m, !.sleep = s, !.asked = a]
    OBVIOUS
  <2>6. c \in CallState /\ c.pc = "backoff" /\ c.sent = m /\ c.sleep = s /\ c.asked = a /\ c.quota = d.quota
    BY <1>1, <2>5 DEF CallState, CallPCs
  <2>7. ~c.quota
    BY <1>1, <1>2, <2>6 DEF RetryOK
  <2>8. RetryOK(c)
    BY <2>2, <2>4, <2>6, <2>7 DEF RetryOK
  <2>9. call' = [call EXCEPT ![r].pc = "backoff", ![r].sent = m, ![r].sleep = s, ![r].asked = a]
    BY <1>1, <2>1, <2>2, <2>4, Zenon
  <2>10. call' = [call EXCEPT ![r] = c]
    BY <1>1, <2>5, <2>9 DEF ProviderInv
  <2> QED
    BY <1>2, <2>1, <2>6, <2>8, <2>10, CallMoves
<1> QED
  BY <1>4, <1>5

LEMMA AnsweredMoves ==
  ASSUME ProviderInv, NEW r \in Runs, Answered(r)
  PROVE  ProviderInv'
<1>1. /\ call' = [call EXCEPT ![r] = [NoCall EXCEPT !.attempt = call[r].attempt]]
      /\ given' = given /\ inst' = inst
  BY DEF Answered
<1>2. call[r].attempt \in Nat
  BY DEF ProviderInv, CallState
<1>3. PICK c : c = [NoCall EXCEPT !.attempt = call[r].attempt]
  OBVIOUS
<1>4. c \in CallState /\ RetryOK(c) /\ c.pc = "idle"
  BY <1>2, <1>3, FreshCall
<1> QED
  BY <1>1, <1>3, <1>4, CallMoves

LEMMA QuotaMoves ==
  ASSUME ProviderInv, NEW r \in Runs, PostQuota(r)
  PROVE  ProviderInv'
<1>1. PICK d : d = call[r] /\ d \in CallState /\ RetryOK(d)
  BY DEF ProviderInv
<1>2. /\ d.pc = "post" /\ given' = given /\ DropInstance(r)
      /\ call' = [call EXCEPT ![r].pc = "failed", ![r].quota = TRUE]
  BY <1>1 DEF PostQuota
<1>3. PICK c : c = [d EXCEPT !.pc = "failed", !.quota = TRUE]
  OBVIOUS
<1>4. c \in CallState /\ c.pc = "failed" /\ c.sent = d.sent
  BY <1>1, <1>3 DEF CallState, CallPCs
<1>5. RetryOK(c)
  BY <1>1, <1>4 DEF RetryOK
<1>6. call' = [call EXCEPT ![r] = c]
  BY <1>1, <1>2, <1>3 DEF ProviderInv
<1>7. PICK n \in InstState :
        /\ inst' = [inst EXCEPT ![Inst(r)] = n] /\ SlotsOK(n)
        /\ given /\ inst[Inst(r)].lock \notin {r, Shared} =>
             n.lock = inst[Inst(r)].lock /\ n.nextOk = inst[Inst(r)].nextOk
  BY <1>2, Dropped
<1>8. PaceOK(r, c, n)
  BY <1>4 DEF PaceOK
<1> QED
  BY <1>2, <1>4, <1>5, <1>6, <1>7, <1>8, RunMoves

\* Time passes for everyone alike.
LEMMA TickMoves ==
  ASSUME ProviderInv, Tick
  PROVE  ProviderInv'
<1>1. /\ call \in [Runs -> CallState] /\ inst \in [Instances -> InstState]
      /\ \A i \in Instances : SlotsOK(inst[i])
      /\ \A q \in Runs : RetryOK(call[q]) /\ PaceOK(q, call[q], inst[Inst(q)])
  BY DEF ProviderInv
<1>2. MinInterval \in Nat /\ \A q \in Runs : Inst(q) \in Instances
  BY ConstantsAssumption DEF Inst, Instances
<1>3. given' = given /\ \A q \in Runs : Inst(q)' = Inst(q)
  BY DEF Tick, Inst
<1>4. ASSUME NEW i \in Instances
      PROVE  /\ inst'[i] \in InstState /\ SlotsOK(inst'[i])
             /\ inst'[i].lock = inst[i].lock /\ inst'[i].nextOk = Less(inst[i].nextOk)
  <2>1. PICK m : m = inst[i] /\ m \in InstState /\ SlotsOK(m)
    BY <1>1
  <2>2. PICK k \in Nat, s \in Nat : k = Less(m.nextOk) /\ s = Least(m.since + 1, MinInterval)
    BY <1>2, <2>1 DEF Less, Least, InstState
  <2>3. inst'[i] = [m EXCEPT !.nextOk = Less(m.nextOk), !.since = Least(m.since + 1, MinInterval)]
    BY <2>1 DEF Tick
  <2>4. inst'[i] = [m EXCEPT !.nextOk = k, !.since = s]
    BY <2>2, <2>3, Zenon
  <2>5. s + k >= MinInterval
    BY <1>2, <2>1, <2>2 DEF Less, Least, InstState, SlotsOK
  <2> QED
    BY <2>1, <2>2, <2>4, <2>5 DEF InstState, SlotsOK
<1>5. ASSUME NEW q \in Runs
      PROVE  /\ call'[q] \in CallState /\ RetryOK(call'[q])
             /\ call'[q].pc = call[q].pc /\ call'[q].sleep = Less(call[q].sleep)
  <2>1. PICK d : d = call[q] /\ d \in CallState /\ RetryOK(d)
    BY <1>1
  <2>2. PICK s \in Nat, a \in Nat :
          /\ s = Less(d.sleep) /\ a = Less(d.asked)
          /\ (d.asked <= d.sleep => a <= s) /\ (d.asked = 0 => a = 0)
    BY <2>1 DEF Less, CallState
  <2>3. call'[q] = [d EXCEPT !.sleep = Less(d.sleep), !.asked = Less(d.asked)]
    BY <2>1 DEF Tick
  <2>4. PICK c : c = call'[q] /\ c = [d EXCEPT !.sleep = s, !.asked = a]
    BY <2>2, <2>3, Zenon
  <2>5. /\ c \in CallState /\ c.pc = d.pc /\ c.sleep = s /\ c.asked = a /\ c.sent = d.sent
        /\ c.quota = d.quota
    BY <2>1, <2>4 DEF CallState
  <2>6. RetryOK(c)
    BY <2>1, <2>2, <2>5 DEF RetryOK
  <2> QED
    BY <2>1, <2>2, <2>4, <2>5, <2>6
<1>6. ASSUME NEW q \in Runs PROVE PaceOK(q, call'[q], inst'[Inst(q)])
  <2>1. inst[Inst(q)].nextOk \in Nat /\ call[q].sleep \in Nat
    BY <1>1, <1>2 DEF InstState, CallState
  <2>2. inst[Inst(q)].nextOk <= call[q].sleep => Less(inst[Inst(q)].nextOk) <= Less(call[q].sleep)
    BY <2>1 DEF Less
  <2> QED
    BY <1>1, <1>2, <1>4, <1>5, <2>2 DEF PaceOK
<1>7. call' \in [Runs -> CallState] /\ inst' \in [Instances -> InstState]
  <2>1. call' = [q \in Runs |-> call'[q]] /\ inst' = [i \in Instances |-> inst'[i]]
    BY DEF Tick
  <2> QED
    BY <1>4, <1>5, <2>1
<1>8. /\ \A i \in Instances : SlotsOK(inst[i])'
      /\ \A q \in Runs : RetryOK(call[q])' /\ PaceOK(q, call[q], inst[Inst(q)])'
  BY <1>3, <1>4, <1>5, <1>6 DEF SlotsOK, RetryOK, PaceOK
<1>9. given' \in BOOLEAN
  BY <1>3 DEF ProviderInv
<1> QED
  BY <1>7, <1>8, <1>9 DEF ProviderInv

LEMMA ProviderStart == Init => ProviderInv
<1> SUFFICES ASSUME Init PROVE ProviderInv
  OBVIOUS
<1>0. MinInterval \in Nat /\ MAX_ATTEMPTS \in Nat \ {0} /\ Shared \in Instances
  BY ConstantsAssumption DEF Instances
<1>1. given \in BOOLEAN /\ inst = [i \in Instances |-> Free] /\ call = [r \in Runs |-> NoCall]
  BY DEF Init
<1>2. Free \in InstState /\ SlotsOK(Free)
  BY <1>0 DEF Free, InstState, SlotsOK
<1>3. NoCall \in CallState /\ RetryOK(NoCall) /\ NoCall.pc = "idle"
  <2>1. NoCall \in CallState /\ NoCall.pc = "idle" /\ NoCall.sent = 0 /\ NoCall.asked = 0 /\ ~NoCall.quota
    BY DEF NoCall, CallState, CallPCs
  <2>2. 0 < MAX_ATTEMPTS
    BY <1>0
  <2> QED
    BY <2>1, <2>2 DEF RetryOK
<1>4. call \in [Runs -> CallState] /\ inst \in [Instances -> InstState]
  BY <1>1, <1>2, <1>3
<1>5. /\ \A i \in Instances : inst[i] = Free
      /\ \A r \in Runs : call[r] = NoCall
  BY <1>1
<1>6. \A r \in Runs : PaceOK(r, call[r], inst[Inst(r)])
  BY <1>3, <1>5 DEF PaceOK
<1> QED
  BY <1>1, <1>2, <1>3, <1>4, <1>5, <1>6 DEF ProviderInv

LEMMA ProviderNext ==
  ASSUME ProviderInv, [Next]_vars
  PROVE  ProviderInv'
<1>1. CASE UNCHANGED vars
  BY <1>1 DEF vars, ProviderInv, SlotsOK, RetryOK, PaceOK, Inst
<1>2. CASE Tick
  BY <1>2, TickMoves
<1>3. ASSUME NEW r \in Runs, Step(r) \/ Cancelled(r) PROVE ProviderInv'
  <2>1. call[r] \in CallState /\ RetryOK(call[r]) /\ call \in [Runs -> CallState]
    BY DEF ProviderInv
  <2>2. CASE BuildFails(r) \/ PostFails(r) \/ Cancelled(r)
    <3>1. Error(r) /\ call[r].pc # "failed" /\ given' = given
      BY <2>2 DEF BuildFails, PostFails, Cancelled
    <3> QED
      BY <3>1, ErrorMoves
  <2>3. CASE Complete(r)
    <3>1. PICK to \in {"pace", "sdk"} : call' = [call EXCEPT ![r].pc = to]
      BY <2>3 DEF Complete
    <3>2. call[r].pc = "idle" /\ given' = given /\ inst' = inst
      BY <2>3 DEF Complete
    <3>3. call[r].asked = 0 /\ ~call[r].quota
      BY <2>1, <3>2 DEF RetryOK
    <3>4. PICK c : c = [call[r] EXCEPT !.pc = to]
      OBVIOUS
    <3>5. c \in CallState /\ RetryOK(c) /\ c.pc # "paceSleep"
      BY <3>3, <3>4, GoesOn
    <3>6. call' = [call EXCEPT ![r] = c]
      BY <2>1, <3>1, <3>4
    <3> QED
      BY <3>2, <3>5, <3>6, CallMoves
  <2>4. CASE Pace(r) \/ PaceDone(r)
    BY <2>4, PaceMoves
  <2>5. CASE PostOk(r)
    BY <2>5, AnsweredMoves DEF PostOk
  <2>6. CASE PostQuota(r)
    BY <2>6, QuotaMoves
  <2>7. CASE PostRetry(r)
    BY <2>7, RetryMoves
  <2>8. CASE BackoffDone(r)
    <3>1. /\ call[r].pc = "backoff" /\ call[r].sleep = 0 /\ given' = given /\ inst' = inst
          /\ call' = [call EXCEPT ![r].pc = "pace"]
      BY <2>8 DEF BackoffDone
    <3>2. call[r].asked = 0 /\ ~call[r].quota
      BY <2>1, <3>1 DEF RetryOK, CallState
    <3>3. PICK c : c = [call[r] EXCEPT !.pc = "pace"]
      OBVIOUS
    <3>4. c \in CallState /\ RetryOK(c) /\ c.pc # "paceSleep"
      BY <3>2, <3>3, GoesOn
    <3>5. call' = [call EXCEPT ![r] = c]
      BY <2>1, <3>1, <3>3
    <3> QED
      BY <3>1, <3>4, <3>5, CallMoves
  <2>9. CASE Sdk(r)
    <3>1. CASE Answered(r)
      BY <3>1, AnsweredMoves
    <3>2. CASE Error(r) /\ UNCHANGED <<kind, given, actions>>
      <4>1. given' = given /\ call[r].pc # "failed"
        BY <2>9, <3>2 DEF Sdk
      <4> QED
        BY <3>2, <4>1, ErrorMoves
    <3> QED
      BY <2>9, <3>1, <3>2 DEF Sdk
  <2> QED
    BY <1>3, <2>2, <2>3, <2>4, <2>5, <2>6, <2>7, <2>8, <2>9 DEF Step
<1> QED
  BY <1>1, <1>2, <1>3 DEF Next

\* The invariant behind the two theorems below.
THEOREM ProviderInvariant == Spec => []ProviderInv
  BY ProviderStart, ProviderNext, PTL DEF Spec

\* _pace: "Keep at least min_interval between requests", for every interval and number
\* of runs that share an instance, however they are cancelled, retried or fail.
THEOREM PacedAlways == Spec => []Paced
<1>1. ProviderInv => Paced
  BY DEF ProviderInv, SlotsOK, Paced
<1> QED
  BY <1>1, ProviderInvariant, PTL

\* _post: at most MAX_ATTEMPTS requests, each after the wait that was asked for, none
\* after the daily quota is gone, for every cap, hint and number of attempts.
THEOREM RetriesDisciplined == Spec => []RetryDiscipline
<1>1. ProviderInv => RetryDiscipline
  BY DEF ProviderInv, RetryOK, RetryDiscipline
<1> QED
  BY <1>1, ProviderInvariant, PTL
-----------------------------------------------------------------------------
\* The conversation. An action, a message of build_messages and one on the wire.
Action == [tool: {"tool", "invalid"}, ext: BOOLEAN]
TaskMsg == [m |-> "task"]
ActionMsg(a) == [m |-> "action", a |-> a]
ObservationMsg == [m |-> "observation"]
Message == {TaskMsg, ObservationMsg} \cup {ActionMsg(a) : a \in Action}
Wire == [role: {"system", "user", "assistant", "tool"}, what: {"text", "call", "result"},
         id: Int, ext: BOOLEAN]

LEMMA MsgFacts ==
  ASSUME NEW role \in {"system", "user", "assistant", "tool"},
         NEW what \in {"text", "call", "result"}, NEW id \in Int, NEW ext \in BOOLEAN
  PROVE  /\ Msg(role, what, id, ext) \in Wire
         /\ Msg(role, what, id, ext).role = role /\ Msg(role, what, id, ext).what = what
         /\ Msg(role, what, id, ext).id = id /\ Msg(role, what, id, ext).ext = ext
<1>1. CASE ext = TRUE
  BY <1>1 DEF Msg, Wire
<1>2. CASE ext = FALSE
  BY <1>2 DEF Msg, Wire
<1> QED
  BY <1>1, <1>2

LEMMA TextFacts ==
  ASSUME NEW role \in {"system", "user", "assistant", "tool"}
  PROVE  Text(role) \in Wire /\ Text(role).role = role /\ Text(role).what = "text" /\ Text(role).ext = FALSE
  BY DEF Text, Msg, Wire

\* build_messages: the task, then an action and its observation per event.
IsHistory(out, k, acts) ==
  /\ out \in Seq(Message) /\ Len(out) = 2 * k + 1 /\ out[1] = TaskMsg
  /\ \A i \in 1..k : out[2 * i] = ActionMsg(acts[i]) /\ out[2 * i + 1] = ObservationMsg

AddTurn(acts) == [p \in Seq(Message) \X (1..Len(acts)) |->
                    p[1] \o <<ActionMsg(acts[p[2]]), ObservationMsg>>]

\* One more event: two more messages, the earlier ones as they were.
LEMMA HistoryGrows ==
  ASSUME NEW acts \in Seq(Action), NEW k \in 1..Len(acts), NEW x, IsHistory(x, k - 1, acts)
  PROVE  IsHistory(x \o <<ActionMsg(acts[k]), ObservationMsg>>, k, acts)
<1>1. k \in Nat /\ k >= 1
  OBVIOUS
<1>2. PICK y, z \in Message : y = ActionMsg(acts[k]) /\ z = ObservationMsg
  <2>1. acts[k] \in Action
    OBVIOUS
  <2> QED
    BY <2>1 DEF Message
<1>3. PICK j \in Nat : j = k - 1 /\ k = j + 1
  BY <1>1
<1>4. x \in Seq(Message) /\ Len(x) = 2 * j + 1
  BY <1>3 DEF IsHistory
<1>5. PICK out : out = x \o <<y, z>>
  OBVIOUS
<1>6. /\ out \in Seq(Message) /\ Len(out) = 2 * j + 3
      /\ \A i \in 1..(2 * j + 1) : out[i] = x[i]
      /\ out[2 * j + 2] = y /\ out[2 * j + 3] = z
  BY <1>4, <1>5
<1>7. /\ 2 * k = 2 * j + 2 /\ 2 * k + 1 = 2 * j + 3
      /\ 1 \in 1..(2 * j + 1)
      /\ \A i \in 1..j : 2 * i \in 1..(2 * j + 1) /\ 2 * i + 1 \in 1..(2 * j + 1)
      /\ \A i \in 1..k : i = k \/ i \in 1..j
  BY <1>3
<1>8. /\ out[1] = TaskMsg
      /\ \A i \in 1..j : out[2 * i] = ActionMsg(acts[i]) /\ out[2 * i + 1] = ObservationMsg
  BY <1>3, <1>6, <1>7 DEF IsHistory
<1>9. out[2 * k] = y /\ out[2 * k + 1] = z /\ Len(out) = 2 * k + 1
  BY <1>6, <1>7
<1>10. IsHistory(out, k, acts)
  BY <1>2, <1>6, <1>7, <1>8, <1>9 DEF IsHistory
<1> QED
  BY <1>2, <1>5, <1>10

LEMMA MessagesReach ==
  ASSUME NEW acts \in Seq(Action)
  PROVE  Reaches(Messages(acts), Seq(Message), <<TaskMsg>>, AddTurn(acts), Len(acts))
<1> DEFINE N == Len(acts)
           S == Seq(Message)
           base == <<[m |-> "task"]>>
           F(g) == [t \in SUBSET DOMAIN acts |->
                      IF t = {} THEN base
                      ELSE g[t \ {Max(t)}] \o <<[m |-> "action", a |-> acts[Max(t)]], [m |-> "observation"]>>]
           iter == CHOOSE g : g = F(g)
<1>1. Messages(acts) = iter[DOMAIN acts]
  BY DEF Messages, FoldLeft, MapThenFoldSet
<1>2. N \in Nat /\ DOMAIN acts = 1..N
  OBVIOUS
<1>3. base = <<TaskMsg>> /\ base \in S
  <2>1. TaskMsg \in Message
    BY DEF Message
  <2> QED
    BY <2>1 DEF TaskMsg
<1>4. \A k \in 1..N : acts[k] \in Action
  OBVIOUS
<1>5. \A k \in 1..N : ActionMsg(acts[k]) \in Message /\ ObservationMsg \in Message
  BY <1>4 DEF Message
<1>6. AddTurn(acts) \in [S \X (1..N) -> S]
  <2>1. ASSUME NEW p \in S \X (1..N) PROVE p[1] \o <<ActionMsg(acts[p[2]]), ObservationMsg>> \in S
    <3>1. p[1] \in S /\ p[2] \in 1..N
      OBVIOUS
    <3>2. PICK y, z \in Message : y = ActionMsg(acts[p[2]]) /\ z = ObservationMsg
      BY <1>5, <3>1
    <3>3. p[1] \o <<y, z>> \in S
      BY <3>1
    <3> QED
      BY <3>2, <3>3
  <2> QED
    BY <2>1 DEF AddTurn
<1>7. \A x \in S, k \in 1..N :
        AddTurn(acts)[<<x, k>>] = x \o <<[m |-> "action", a |-> acts[k]], [m |-> "observation"]>>
  BY DEF AddTurn, ActionMsg, ObservationMsg
<1> HIDE DEF N, S, base
<1>8. PICK g \in [SUBSET (1..N) -> S] : FoldsOver(g, base, AddTurn(acts), N)
  BY <1>2, <1>3, <1>6, SubsetRecursion, Zenon
<1>9. \A t \in SUBSET (1..N) : t # {} => Max(t) \in 1..N /\ t \ {Max(t)} \in SUBSET (1..N)
  BY <1>2, MaxOfSubset
<1>10. g = F(g)
  BY <1>2, <1>7, <1>8, <1>9 DEF FoldsOver
<1> HIDE DEF F
<1>11. iter = F(iter)
  BY <1>10
<1> HIDE DEF iter
<1>12. Folding(iter, S, base, AddTurn(acts), N)
  BY <1>2, <1>3, <1>6, <1>7, <1>9, <1>11 DEF F, Folding
<1>13. Reaches(iter[1..N], S, base, AddTurn(acts), N)
  BY <1>12, FoldPrefixes, Zenon
<1> QED
  BY <1>1, <1>2, <1>3, <1>13 DEF N, S

LEMMA MessagesAre ==
  ASSUME NEW acts \in Seq(Action)
  PROVE  IsHistory(Messages(acts), Len(acts), acts)
<1> DEFINE S == Seq(Message)
           Good == {y \in Nat \X S : IsHistory(y[2], y[1], acts)}
           one == <<TaskMsg>>
           N == Len(acts)
<1>1. N \in Nat
  OBVIOUS
<1>2. one \in S /\ IsHistory(one, 0, acts)
  <2>1. TaskMsg \in Message
    BY DEF Message
  <2> QED
    BY <2>1 DEF IsHistory
<1>3. <<0, one>> \in Good
  BY <1>2
<1>4. ASSUME NEW k \in 1..N, NEW x \in S, <<k - 1, x>> \in Good
      PROVE  <<k, AddTurn(acts)[<<x, k>>]>> \in Good
  <2>1. IsHistory(x, k - 1, acts)
    BY <1>4
  <2>2. PICK y : y = x \o <<ActionMsg(acts[k]), ObservationMsg>>
    OBVIOUS
  <2>3. IsHistory(y, k, acts)
    BY <2>1, <2>2, HistoryGrows
  <2>4. y \in S /\ k \in Nat
    BY <1>1, <2>3 DEF IsHistory
  <2>5. AddTurn(acts)[<<x, k>>] = y
    BY <2>2 DEF AddTurn
  <2> QED
    BY <2>3, <2>4, <2>5
<1>5. Reaches(Messages(acts), S, one, AddTurn(acts), N)
  BY MessagesReach
<1> HIDE DEF Good, S, N, one
<1>6. Keeping(Good, S, one, AddTurn(acts), N)
  BY <1>1, <1>2, <1>3, <1>4 DEF Keeping
<1>7. <<N, Messages(acts)>> \in Good
  BY <1>5, <1>6, ReachesKeep
<1> QED
  BY <1>7 DEF Good, N

\* What the translations make of the n-th action, counted from 0, and of its observation.
CallOf(keepExt, a, n) ==
  IF a.tool = "invalid" THEN Text("assistant") ELSE Msg("assistant", "call", n, keepExt /\ a.ext)
AnswerTo(results, a, n) ==
  IF a.tool = "invalid" THEN Text("user") ELSE Msg(results, "result", n, FALSE)

LEMMA CallFacts ==
  ASSUME NEW a \in Action, NEW n \in Nat, NEW keepExt \in BOOLEAN
  PROVE  /\ CallOf(keepExt, a, n) \in Wire /\ CallOf(keepExt, a, n).role = "assistant"
         /\ CallOf(keepExt, a, n).what = (IF a.tool = "invalid" THEN "text" ELSE "call")
         /\ CallOf(keepExt, a, n).ext = (a.tool # "invalid" /\ keepExt /\ a.ext)
         /\ a.tool # "invalid" => CallOf(keepExt, a, n).id = n
<1>1. a.ext \in BOOLEAN /\ n \in Int
  BY DEF Action
<1>2. PICK e \in BOOLEAN : e = (keepExt /\ a.ext)
  BY <1>1
<1>3. CASE a.tool = "invalid"
  BY <1>3, TextFacts DEF CallOf
<1>4. CASE a.tool # "invalid"
  <2>1. CallOf(keepExt, a, n) = Msg("assistant", "call", n, e)
    BY <1>2, <1>4, Zenon DEF CallOf
  <2>2. PICK c : c = Msg("assistant", "call", n, e)
    OBVIOUS
  <2>3. c \in Wire /\ c.role = "assistant" /\ c.what = "call" /\ c.id = n /\ c.ext = e
    BY <1>1, <2>2, MsgFacts
  <2> QED
    BY <1>2, <1>4, <2>1, <2>2, <2>3, Zenon
<1> QED
  BY <1>3, <1>4

LEMMA AnswerFacts ==
  ASSUME NEW a \in Action, NEW n \in Nat, NEW results \in {"user", "tool"}
  PROVE  /\ AnswerTo(results, a, n) \in Wire
         /\ AnswerTo(results, a, n).role = (IF a.tool = "invalid" THEN "user" ELSE results)
         /\ AnswerTo(results, a, n).what = (IF a.tool = "invalid" THEN "text" ELSE "result")
         /\ a.tool # "invalid" => AnswerTo(results, a, n).id = n
<1>1. n \in Int
  OBVIOUS
<1>2. CASE a.tool = "invalid"
  BY <1>2, TextFacts DEF AnswerTo
<1>3. CASE a.tool # "invalid"
  BY <1>1, <1>3 DEF AnswerTo, Msg, Wire
<1> QED
  BY <1>2, <1>3

\* The state of the loop.
Loop == [out: Seq(Wire), n: Nat]
TurnAt(results, keepExt, msgs) ==
  [p \in Loop \X (1..Len(msgs)) |-> Turn(results, keepExt, p[1], msgs[p[2]])]

LEMMA TurnTask ==
  ASSUME NEW s \in Loop, NEW results, NEW keepExt
  PROVE  LET t == Turn(results, keepExt, s, TaskMsg) IN
         t \in Loop /\ t.out = Append(s.out, Text("user")) /\ t.n = s.n
<1>1. PICK x \in Wire : x = Text("user")
  BY TextFacts
<1>2. Turn(results, keepExt, s, TaskMsg) = [s EXCEPT !.out = Append(s.out, x)]
  BY <1>1 DEF Turn, TaskMsg
<1> QED
  BY <1>1, <1>2 DEF Loop

LEMMA TurnAction ==
  ASSUME NEW s \in Loop, NEW results, NEW keepExt \in BOOLEAN, NEW a \in Action
  PROVE  LET t == Turn(results, keepExt, s, ActionMsg(a)) IN
         t \in Loop /\ t.out = Append(s.out, CallOf(keepExt, a, s.n)) /\ t.n = s.n
<1>1. s.n \in Nat /\ s.out \in Seq(Wire)
  BY DEF Loop
<1>2. PICK x \in Wire : x = CallOf(keepExt, a, s.n)
  BY <1>1, CallFacts
<1>3. Turn(results, keepExt, s, ActionMsg(a)) = [s EXCEPT !.out = Append(s.out, x)]
  <2>1. ActionMsg(a).m = "action" /\ ActionMsg(a).a = a
    BY DEF ActionMsg
  <2>2. PICK msg : msg = ActionMsg(a)
    OBVIOUS
  <2>3. Turn(results, keepExt, s, msg) =
          [s EXCEPT !.out = Append(s.out, IF msg.a.tool = "invalid" THEN Text("assistant")
                                          ELSE Msg("assistant", "call", s.n, keepExt /\ msg.a.ext))]
    BY <2>1, <2>2 DEF Turn
  <2> QED
    BY <1>2, <2>1, <2>2, <2>3, Zenon DEF CallOf
<1> QED
  BY <1>1, <1>2, <1>3 DEF Loop

LEMMA TurnObservation ==
  ASSUME NEW s \in Loop, NEW results \in {"user", "tool"}, NEW keepExt
  PROVE  LET t == Turn(results, keepExt, s, ObservationMsg) IN
         /\ t \in Loop /\ t.n = s.n + 1
         /\ t.out = Append(s.out, IF Last(s.out).what = "call" THEN Msg(results, "result", s.n, FALSE)
                                  ELSE Text("user"))
<1>1. s.n \in Nat /\ s.out \in Seq(Wire)
  BY DEF Loop
<1>2. PICK x : x = IF Last(s.out).what = "call" THEN Msg(results, "result", s.n, FALSE) ELSE Text("user")
  OBVIOUS
<1>3. x \in Wire
  <2>1. Msg(results, "result", s.n, FALSE) \in Wire
    BY <1>1 DEF Msg, Wire
  <2> QED
    BY <1>2, <2>1, TextFacts
<1>4. Turn(results, keepExt, s, ObservationMsg) = [s EXCEPT !.out = Append(s.out, x), !.n = s.n + 1]
  <2>1. Turn(results, keepExt, s, ObservationMsg) =
          [s EXCEPT !.out = Append(s.out, IF Last(s.out).what = "call" THEN Msg(results, "result", s.n, FALSE)
                                          ELSE Text("user")),
                    !.n = s.n + 1]
    BY DEF Turn, ObservationMsg
  <2> QED
    BY <1>2, <2>1, Zenon
<1>5. PICK t : t = Turn(results, keepExt, s, ObservationMsg)
  OBVIOUS
<1>6. t \in Loop /\ t.n = s.n + 1 /\ t.out = Append(s.out, x)
  <2>0. Append(s.out, x) \in Seq(Wire) /\ s.n + 1 \in Nat
    BY <1>1, <1>3
  <2>1. PICK l \in Seq(Wire), m \in Nat : l = Append(s.out, x) /\ m = s.n + 1
    BY <2>0, Zenon
  <2>2. t = [s EXCEPT !.out = l, !.n = m]
    BY <1>4, <1>5, <2>1, Zenon
  <2>3. t \in Loop /\ t.n = m /\ t.out = l
    BY <2>2 DEF Loop
  <2> QED
    BY <2>1, <2>3, Zenon
<1> QED
  BY <1>2, <1>5, <1>6, Zenon

\* Every message has its turn.
LEMMA TurnType ==
  ASSUME NEW msgs \in Seq(Message), NEW results \in {"user", "tool"}, NEW keepExt \in BOOLEAN
  PROVE  TurnAt(results, keepExt, msgs) \in [Loop \X (1..Len(msgs)) -> Loop]
<1>1. ASSUME NEW s \in Loop, NEW msg \in Message PROVE Turn(results, keepExt, s, msg) \in Loop
  <2>1. CASE msg = TaskMsg
    BY <2>1, TurnTask
  <2>2. CASE msg = ObservationMsg
    BY <2>2, TurnObservation
  <2>3. CASE \E a \in Action : msg = ActionMsg(a)
    BY <2>3, TurnAction
  <2> QED
    BY <2>1, <2>2, <2>3 DEF Message
<1>2. \A k \in 1..Len(msgs) : msgs[k] \in Message
  OBVIOUS
<1> QED
  BY <1>1, <1>2 DEF TurnAt

LEMMA TranslateReaches ==
  ASSUME NEW msgs \in Seq(Message), NEW results \in {"user", "tool"}, NEW keepExt \in BOOLEAN,
         NEW first \in Seq(Wire)
  PROVE  \E s \in Loop :
           /\ Reaches(s, Loop, [out |-> first, n |-> 0], TurnAt(results, keepExt, msgs), Len(msgs))
           /\ Translate(first, results, keepExt, msgs) = s.out
<1> DEFINE N == Len(msgs)
           base == [out |-> first, n |-> 0]
           op == TurnAt(results, keepExt, msgs)
           F(g) == [t \in SUBSET DOMAIN msgs |->
                      IF t = {} THEN base
                      ELSE Turn(results, keepExt, g[t \ {Max(t)}], msgs[Max(t)])]
           iter == CHOOSE g : g = F(g)
<1>1. Translate(first, results, keepExt, msgs) = iter[DOMAIN msgs].out
  BY DEF Translate, FoldLeft, MapThenFoldSet
<1>2. N \in Nat /\ DOMAIN msgs = 1..N
  OBVIOUS
<1>3. base \in Loop
  BY DEF Loop
<1>4. op \in [Loop \X (1..N) -> Loop]
  BY TurnType
<1>5. \A x \in Loop, k \in 1..N : op[<<x, k>>] = Turn(results, keepExt, x, msgs[k])
  BY DEF TurnAt
<1> HIDE DEF N, base, op
<1>6. PICK g \in [SUBSET (1..N) -> Loop] : FoldsOver(g, base, op, N)
  BY <1>2, <1>3, <1>4, SubsetRecursion, Zenon
<1>7. \A t \in SUBSET (1..N) : t # {} => Max(t) \in 1..N /\ t \ {Max(t)} \in SUBSET (1..N)
  BY <1>2, MaxOfSubset
<1>8. g = F(g)
  BY <1>2, <1>5, <1>6, <1>7 DEF FoldsOver
<1> HIDE DEF F
<1>9. iter = F(iter)
  BY <1>8
<1> HIDE DEF iter
<1>10. Folding(iter, Loop, base, op, N)
  BY <1>2, <1>3, <1>4, <1>5, <1>7, <1>9 DEF F, Folding
<1>11. Reaches(iter[1..N], Loop, base, op, N)
  BY <1>10, FoldPrefixes, Zenon
<1>12. iter[1..N] \in Loop
  BY <1>2, <1>11 DEF Reaches
<1> QED
  BY <1>1, <1>2, <1>11, <1>12 DEF N, base, op

\* The conversation after k messages: what the translation begins with, the task, and
\* for each action its call and the answer, under the action's number.
Conversation(s, k, first, results, keepExt, acts) ==
  /\ s \in Loop /\ Len(s.out) = Len(first) + k
  /\ \A j \in 1..Len(first) : s.out[j] = first[j]
  /\ k >= 1 => s.out[Len(first) + 1] = Text("user")
  /\ \A i \in 1..Len(acts) :
       /\ 2 * i <= k => s.out[Len(first) + 2 * i] = CallOf(keepExt, acts[i], i - 1)
       /\ 2 * i + 1 <= k => s.out[Len(first) + 2 * i + 1] = AnswerTo(results, acts[i], i - 1)
  /\ k = 0 => s.n = 0
  /\ \A j \in Nat : k = 2 * j + 1 \/ k = 2 * j + 2 => s.n = j

Evens == \A m \in Nat : \E j \in Nat : m = 2 * j \/ m = 2 * j + 1
LEMMA EvenOrOdd == Evens
<1> SUFFICES ASSUME NEW m \in Nat PROVE \E j \in Nat : m = 2 * j \/ m = 2 * j + 1
  BY DEF Evens
<1>1. PICK j \in Nat : j = m \div 2
  OBVIOUS
<1>2. m = 2 * j \/ m = 2 * j + 1
  BY <1>1
<1> QED
  BY <1>2

LEMMA Appended ==
  ASSUME NEW S, NEW o \in Seq(S), NEW x \in S
  PROVE  /\ Len(Append(o, x)) = Len(o) + 1 /\ Append(o, x)[Len(o) + 1] = x
         /\ \A j \in 1..Len(o) : Append(o, x)[j] = o[j]
  OBVIOUS

\* One more message is appended to what is there.
LEMMA ConversationGrows ==
  ASSUME NEW first \in Seq(Wire), NEW results \in {"user", "tool"}, NEW keepExt \in BOOLEAN,
         NEW acts \in Seq(Action), NEW k \in Nat, NEW s,
         Conversation(s, k, first, results, keepExt, acts),
         NEW t \in Loop, NEW x \in Wire, t.out = Append(s.out, x),
         k = 0 => x = Text("user") /\ t.n = 0,
         \A i \in 1..Len(acts) :
           /\ k + 1 = 2 * i => x = CallOf(keepExt, acts[i], i - 1) /\ t.n = i - 1
           /\ k + 1 = 2 * i + 1 => x = AnswerTo(results, acts[i], i - 1) /\ t.n = i,
         k + 1 <= 2 * Len(acts) + 1
  PROVE  Conversation(t, k + 1, first, results, keepExt, acts)
<1>1. PICK f \in Nat, n \in Nat : f = Len(first) /\ n = Len(acts)
  OBVIOUS
<1>2. s \in Loop /\ s.out \in Seq(Wire) /\ Len(s.out) = f + k
  BY <1>1 DEF Conversation, Loop
<1>3. /\ Len(t.out) = f + (k + 1) /\ t.out[f + k + 1] = x
      /\ \A j \in 1..(f + k) : t.out[j] = s.out[j]
  <2>1. PICK o \in Seq(Wire), q \in Nat : o = s.out /\ q = f + k /\ Len(o) = q
    BY <1>2
  <2>2. PICK z : z = t.out /\ z = Append(o, x)
    BY <2>1
  <2>3. Len(z) = q + 1 /\ z[q + 1] = x /\ \A j \in 1..q : z[j] = o[j]
    <3>1. x \in Wire
      OBVIOUS
    <3>2. Len(z) = Len(o) + 1 /\ z[Len(o) + 1] = x /\ \A j \in 1..Len(o) : z[j] = o[j]
      BY <2>2, <3>1, Appended
    <3> QED
      BY <2>1, <3>2
  <2>4. q + 1 = f + (k + 1) /\ q + 1 = f + k + 1
    BY <2>1
  <2> QED
    BY <2>1, <2>2, <2>3, <2>4
<1>4. \A j \in 1..f : t.out[j] = first[j]
  BY <1>1, <1>3 DEF Conversation
<1>5. t.out[f + 1] = Text("user")
  <2>1. CASE k = 0
    BY <1>1, <1>3, <2>1
  <2>2. CASE k # 0
    <3>1. k >= 1 /\ f + 1 \in 1..(f + k)
      BY <2>2
    <3> QED
      BY <1>1, <1>3, <3>1 DEF Conversation
  <2> QED
    BY <2>1, <2>2
<1>6. ASSUME NEW i \in 1..n, 2 * i <= k + 1
      PROVE  t.out[f + 2 * i] = CallOf(keepExt, acts[i], i - 1)
  <2>1. CASE 2 * i = k + 1
    <3>1. f + 2 * i = f + k + 1
      BY <2>1
    <3> QED
      BY <1>1, <1>3, <2>1, <3>1
  <2>2. CASE 2 * i # k + 1
    <3>1. 2 * i <= k /\ f + 2 * i \in 1..(f + k)
      BY <1>6, <2>2
    <3> QED
      BY <1>1, <1>3, <3>1 DEF Conversation
  <2> QED
    BY <2>1, <2>2
<1>7. ASSUME NEW i \in 1..n, 2 * i + 1 <= k + 1
      PROVE  t.out[f + 2 * i + 1] = AnswerTo(results, acts[i], i - 1)
  <2>1. CASE 2 * i + 1 = k + 1
    <3>1. f + 2 * i + 1 = f + k + 1
      BY <2>1
    <3> QED
      BY <1>1, <1>3, <2>1, <3>1
  <2>2. CASE 2 * i + 1 # k + 1
    <3>1. 2 * i + 1 <= k /\ f + 2 * i + 1 \in 1..(f + k)
      BY <1>7, <2>2
    <3> QED
      BY <1>1, <1>3, <3>1 DEF Conversation
  <2> QED
    BY <2>1, <2>2
<1>8. ASSUME NEW j \in Nat, k + 1 = 2 * j + 1 \/ k + 1 = 2 * j + 2 PROVE t.n = j
  <2>1. CASE k = 0
    BY <1>8, <2>1
  <2>2. CASE k # 0 /\ k + 1 = 2 * j + 1
    <3>1. j \in 1..n
      BY <1>1, <2>2
    <3> QED
      BY <1>1, <2>2, <3>1
  <2>3. CASE k # 0 /\ k + 1 = 2 * j + 2
    <3>1. PICK i \in 1..n : i = j + 1 /\ k + 1 = 2 * i /\ i - 1 = j
      BY <1>1, <2>3
    <3> QED
      BY <1>1, <3>1
  <2> QED
    BY <1>8, <2>1, <2>2, <2>3
<1>9. k + 1 # 0 /\ k + 1 >= 1
  OBVIOUS
<1> QED
  BY <1>1, <1>3, <1>4, <1>5, <1>6, <1>7, <1>8, <1>9 DEF Conversation

\* The next message of a history takes its turn.
LEMMA ConversationStep ==
  ASSUME NEW first \in Seq(Wire), NEW results \in {"user", "tool"}, NEW keepExt \in BOOLEAN,
         NEW acts \in Seq(Action), NEW msgs, IsHistory(msgs, Len(acts), acts),
         NEW k \in Nat, k < 2 * Len(acts) + 1, NEW s,
         Conversation(s, k, first, results, keepExt, acts)
  PROVE  Conversation(Turn(results, keepExt, s, msgs[k + 1]), k + 1, first, results, keepExt, acts)
<1>1. PICK f \in Nat, n \in Nat : f = Len(first) /\ n = Len(acts)
  OBVIOUS
<1>2. s \in Loop /\ s.n \in Nat /\ s.out \in Seq(Wire)
  BY DEF Conversation, Loop
<1>3. PICK t : t = Turn(results, keepExt, s, msgs[k + 1])
  OBVIOUS
<1>4. CASE k = 0
  <2>1. msgs[k + 1] = TaskMsg /\ s.n = 0
    BY <1>4 DEF IsHistory, Conversation
  <2>2. t \in Loop /\ t.out = Append(s.out, Text("user")) /\ t.n = 0
    BY <1>2, <1>3, <2>1, TurnTask
  <2>3. PICK x \in Wire : x = Text("user")
    BY TextFacts
  <2>4. \A i \in 1..Len(acts) : k + 1 # 2 * i /\ k + 1 # 2 * i + 1
    BY <1>1, <1>4
  <2>5. k + 1 <= 2 * Len(acts) + 1
    BY <1>1
  <2> QED
    BY <1>3, <1>4, <2>2, <2>3, <2>4, <2>5, ConversationGrows
<1>5. ASSUME NEW i \in 1..n, k + 1 = 2 * i
      PROVE  Conversation(t, k + 1, first, results, keepExt, acts)
  <2>1. PICK j \in Nat : j = i - 1 /\ k = 2 * j + 1
    BY <1>5
  <2>2. msgs[k + 1] = ActionMsg(acts[i]) /\ s.n = j /\ acts[i] \in Action
    <3>1. msgs[2 * i] = ActionMsg(acts[i])
      BY <1>1 DEF IsHistory
    <3>2. s.n = j
      BY <2>1 DEF Conversation
    <3>3. acts[i] \in Action
      BY <1>1
    <3> QED
      BY <1>5, <3>1, <3>2, <3>3
  <2>3. t \in Loop /\ t.out = Append(s.out, CallOf(keepExt, acts[i], j)) /\ t.n = j
    <3>1. t = Turn(results, keepExt, s, ActionMsg(acts[i]))
      BY <1>3, <2>2, Zenon
    <3>2. t \in Loop /\ t.out = Append(s.out, CallOf(keepExt, acts[i], s.n)) /\ t.n = s.n
      BY <1>2, <2>2, <3>1, TurnAction, Zenon
    <3> QED
      BY <2>2, <3>2, Zenon
  <2>4. PICK x \in Wire : x = CallOf(keepExt, acts[i], j)
    BY <2>2, CallFacts
  <2>5. ASSUME NEW h \in 1..Len(acts)
        PROVE  /\ k + 1 = 2 * h => x = CallOf(keepExt, acts[h], h - 1) /\ t.n = h - 1
               /\ k + 1 # 2 * h + 1
    <3>1. k + 1 = 2 * h => h = i
      BY <1>1, <1>5
    <3>2. k + 1 # 2 * h + 1
      BY <1>1, <1>5
    <3> QED
      BY <2>1, <2>3, <2>4, <3>1, <3>2
  <2>6. k + 1 <= 2 * Len(acts) + 1 /\ k # 0
    BY <1>1, <2>1
  <2> QED
    BY <2>3, <2>4, <2>5, <2>6, ConversationGrows
<1>6. ASSUME NEW i \in 1..n, k + 1 = 2 * i + 1
      PROVE  Conversation(t, k + 1, first, results, keepExt, acts)
  <2>1. PICK j \in Nat : j = i - 1 /\ k = 2 * j + 2 /\ k = 2 * i
    BY <1>6
  <2>2. msgs[k + 1] = ObservationMsg /\ s.n = j /\ acts[i] \in Action
    <3>1. msgs[2 * i + 1] = ObservationMsg
      BY <1>1 DEF IsHistory
    <3>2. s.n = j
      BY <2>1 DEF Conversation
    <3>3. acts[i] \in Action
      BY <1>1
    <3> QED
      BY <1>6, <3>1, <3>2, <3>3
  <2>3. /\ t \in Loop /\ t.n = j + 1
        /\ t.out = Append(s.out, IF Last(s.out).what = "call" THEN Msg(results, "result", j, FALSE)
                                 ELSE Text("user"))
    BY <1>2, <1>3, <2>2, TurnObservation
  <2>4. Last(s.out) = CallOf(keepExt, acts[i], j)
    <3>1. Len(s.out) = f + 2 * i
      BY <1>1, <2>1 DEF Conversation
    <3>2. s.out[f + 2 * i] = CallOf(keepExt, acts[i], j)
      <4>1. \A h \in 1..Len(acts) :
              2 * h <= k => s.out[Len(first) + 2 * h] = CallOf(keepExt, acts[h], h - 1)
        BY Zenon DEF Conversation
      <4>2. i \in 1..Len(acts) /\ 2 * i <= k
        BY <1>1, <2>1
      <4>3. s.out[Len(first) + 2 * i] = CallOf(keepExt, acts[i], i - 1)
        BY <4>1, <4>2, Zenon
      <4> QED
        BY <1>1, <2>1, <4>3, Zenon
    <3> QED
      BY <3>1, <3>2, Zenon DEF Last
  <2>5. (Last(s.out).what = "call") <=> (acts[i].tool # "invalid")
    <3>1. PICK w : w = (IF acts[i].tool = "invalid" THEN "text" ELSE "call")
      OBVIOUS
    <3>2. CallOf(keepExt, acts[i], j).what = w
      BY <2>2, <3>1, CallFacts, Zenon
    <3>3. (w = "call") <=> (acts[i].tool # "invalid")
      BY <3>1
    <3> QED
      BY <2>4, <3>2, <3>3, Zenon
  <2>6. PICK x \in Wire : x = AnswerTo(results, acts[i], j)
    BY <2>2, AnswerFacts
  <2>7. t.out = Append(s.out, x)
    BY <2>3, <2>5, <2>6, Zenon DEF AnswerTo
  <2>8. ASSUME NEW h \in 1..Len(acts)
        PROVE  /\ k + 1 = 2 * h + 1 => x = AnswerTo(results, acts[h], h - 1) /\ t.n = h
               /\ k + 1 # 2 * h
    <3>1. k + 1 = 2 * h + 1 => h = i
      BY <1>1, <1>6
    <3>2. k + 1 # 2 * h
      BY <1>1, <1>6
    <3>3. j + 1 = i
      BY <2>1
    <3> QED
      BY <2>1, <2>3, <2>6, <3>1, <3>2, <3>3
  <2>9. k + 1 <= 2 * Len(acts) + 1 /\ k # 0
    BY <1>1, <2>1
  <2> QED
    BY <2>3, <2>6, <2>7, <2>8, <2>9, ConversationGrows
<1>7. k = 0 \/ \E i \in 1..n : k + 1 = 2 * i \/ k + 1 = 2 * i + 1
  <2>0. k + 1 \in Nat
    OBVIOUS
  <2>1. PICK j \in Nat : k + 1 = 2 * j \/ k + 1 = 2 * j + 1
    BY <2>0, EvenOrOdd DEF Evens
  <2>2. k = 0 \/ j \in 1..n
    BY <1>1, <2>1
  <2> QED
    BY <2>1, <2>2
<1> QED
  BY <1>3, <1>4, <1>5, <1>6, <1>7

\* The translation of a history.
IsTranslated(out, first, results, keepExt, acts) ==
  /\ Len(out) = Len(first) + 2 * Len(acts) + 1
  /\ \A j \in 1..Len(first) : out[j] = first[j]
  /\ out[Len(first) + 1] = Text("user")
  /\ \A i \in 1..Len(acts) :
       /\ out[Len(first) + 2 * i] = CallOf(keepExt, acts[i], i - 1)
       /\ out[Len(first) + 2 * i + 1] = AnswerTo(results, acts[i], i - 1)

LEMMA TranslatedIs ==
  ASSUME NEW first \in Seq(Wire), NEW results \in {"user", "tool"}, NEW keepExt \in BOOLEAN,
         NEW acts \in Seq(Action)
  PROVE  /\ Translate(first, results, keepExt, Messages(acts)) \in Seq(Wire)
         /\ IsTranslated(Translate(first, results, keepExt, Messages(acts)),
                         first, results, keepExt, acts)
<1>1. PICK msgs : msgs = Messages(acts) /\ IsHistory(msgs, Len(acts), acts)
  BY MessagesAre
<1>2. msgs \in Seq(Message) /\ Len(msgs) = 2 * Len(acts) + 1 /\ Len(acts) \in Nat
  BY <1>1 DEF IsHistory
<1> DEFINE N == Len(msgs)
           base == [out |-> first, n |-> 0]
           op == TurnAt(results, keepExt, msgs)
           Good == {y \in Nat \X Loop : Conversation(y[2], y[1], first, results, keepExt, acts)}
<1>3. PICK s \in Loop : Reaches(s, Loop, base, op, N) /\ Translate(first, results, keepExt, msgs) = s.out
  BY <1>2, TranslateReaches
<1>4. N \in Nat
  BY <1>2
<1>5. base \in Loop /\ Conversation(base, 0, first, results, keepExt, acts)
  <2>1. base \in Loop /\ base.out = first /\ base.n = 0
    BY DEF Loop
  <2>2. PICK f \in Nat, n \in Nat : f = Len(first) /\ n = Len(acts)
    OBVIOUS
  <2>3. /\ \A i \in 1..n : ~(2 * i <= 0) /\ ~(2 * i + 1 <= 0)
        /\ \A j \in Nat : ~(0 = 2 * j + 1) /\ ~(0 = 2 * j + 2)
        /\ ~(0 >= 1) /\ f = f + 0
    BY <2>2
  <2> HIDE DEF base
  <2> QED
    BY <2>1, <2>2, <2>3 DEF Conversation
<1>6. <<0, base>> \in Good
  BY <1>5
<1>7. ASSUME NEW k \in 1..N, NEW x \in Loop, <<k - 1, x>> \in Good
      PROVE  <<k, op[<<x, k>>]>> \in Good
  <2>1. PICK j \in Nat : j = k - 1 /\ k = j + 1 /\ j < 2 * Len(acts) + 1
    BY <1>2
  <2>2. Conversation(x, j, first, results, keepExt, acts)
    BY <1>7, <2>1
  <2>3. PICK t : t = Turn(results, keepExt, x, msgs[k])
    OBVIOUS
  <2>4. Conversation(t, k, first, results, keepExt, acts)
    BY <1>1, <2>1, <2>2, <2>3, ConversationStep
  <2>5. op[<<x, k>>] = t
    BY <2>3 DEF TurnAt
  <2>6. t \in Loop /\ k \in Nat
    BY <2>1, <2>4 DEF Conversation
  <2> HIDE DEF op
  <2> QED
    BY <2>4, <2>5, <2>6
<1> HIDE DEF Good, base, op, N
<1>8. Keeping(Good, Loop, base, op, N)
  BY <1>4, <1>5, <1>6, <1>7 DEF Keeping
<1>9. <<N, s>> \in Good
  BY <1>3, <1>8, ReachesKeep
<1>10. Conversation(s, 2 * Len(acts) + 1, first, results, keepExt, acts)
  BY <1>2, <1>9 DEF Good, N
<1>11. s.out \in Seq(Wire)
  BY DEF Loop
<1>12. IsTranslated(s.out, first, results, keepExt, acts)
  <2>1. PICK f \in Nat, n \in Nat : f = Len(first) /\ n = Len(acts)
    OBVIOUS
  <2>2. /\ 2 * n + 1 >= 1 /\ f + (2 * n + 1) = f + 2 * n + 1
        /\ \A i \in 1..n : 2 * i <= 2 * n + 1 /\ 2 * i + 1 <= 2 * n + 1
    OBVIOUS
  <2> QED
    BY <1>10, <2>1, <2>2 DEF Conversation, IsTranslated
<1> QED
  BY <1>1, <1>3, <1>11, <1>12

\* Calls and answers belong together, as ConversationWellFormed has it.
CallsIn(out) == {i \in DOMAIN out : out[i].what = "call"}
AllAnswered(out) ==
  /\ \A i \in CallsIn(out) :
       /\ i < Len(out) /\ out[i + 1].what = "result" /\ out[i + 1].id = out[i].id
       /\ \A j \in CallsIn(out) : out[i].id = out[j].id => i = j
  /\ \A i \in DOMAIN out : out[i].what = "result" => i - 1 \in CallsIn(out)

LEMMA Places ==
  ASSUME NEW f \in Nat, NEW n \in Nat, NEW x \in 1..(f + 2 * n + 1)
  PROVE  x <= f \/ x = f + 1 \/ \E i \in 1..n : x = f + 2 * i \/ x = f + 2 * i + 1
<1>1. CASE x <= f
  BY <1>1
<1>2. CASE x > f
  <2>1. PICK m \in Nat : x = f + m /\ m >= 1 /\ m <= 2 * n + 1
    <3>1. x - f \in Nat /\ x = f + (x - f) /\ x - f >= 1 /\ x - f <= 2 * n + 1
      BY <1>2
    <3> QED
      BY <3>1
  <2>2. PICK j \in Nat : m = 2 * j \/ m = 2 * j + 1
    BY EvenOrOdd DEF Evens
  <2>3. m = 1 \/ j \in 1..n
    BY <2>1, <2>2
  <2>4. CASE m = 1
    BY <2>1, <2>4
  <2>5. CASE j \in 1..n
    <3>1. x = f + 2 * j \/ x = f + 2 * j + 1
      BY <2>1, <2>2
    <3> QED
      BY <2>5, <3>1
  <2> QED
    BY <2>3, <2>4, <2>5
<1> QED
  BY <1>1, <1>2

LEMMA AnswersHold ==
  ASSUME NEW first \in Seq(Wire), NEW results \in {"user", "tool"}, NEW keepExt \in BOOLEAN,
         NEW acts \in Seq(Action), NEW out \in Seq(Wire),
         IsTranslated(out, first, results, keepExt, acts),
         \A j \in 1..Len(first) : first[j].what = "text"
  PROVE  AllAnswered(out)
<1>1. PICK f \in Nat, n \in Nat : f = Len(first) /\ n = Len(acts)
  OBVIOUS
<1>2. Len(out) = f + 2 * n + 1 /\ DOMAIN out = 1..(f + 2 * n + 1)
  BY <1>1 DEF IsTranslated
<1>3. ASSUME NEW i \in 1..n
      PROVE  /\ out[f + 2 * i].what = (IF acts[i].tool = "invalid" THEN "text" ELSE "call")
             /\ out[f + 2 * i + 1].what = (IF acts[i].tool = "invalid" THEN "text" ELSE "result")
             /\ acts[i].tool # "invalid" => out[f + 2 * i].id = i - 1 /\ out[f + 2 * i + 1].id = i - 1
  <2>1. acts[i] \in Action /\ i - 1 \in Nat
    BY <1>1
  <2>2. /\ out[f + 2 * i] = CallOf(keepExt, acts[i], i - 1)
        /\ out[f + 2 * i + 1] = AnswerTo(results, acts[i], i - 1)
    BY <1>1 DEF IsTranslated
  <2> QED
    BY <2>1, <2>2, CallFacts, AnswerFacts
<1>4. (\A x \in 1..f : out[x].what = "text") /\ out[f + 1].what = "text"
  <2>1. out[f + 1] = Text("user") /\ \A x \in 1..f : out[x] = first[x]
    BY <1>1 DEF IsTranslated
  <2>2. Text("user").what = "text"
    BY TextFacts
  <2> QED
    BY <1>1, <2>1, <2>2
<1>5. ASSUME NEW x \in 1..(f + 2 * n + 1), out[x].what # "text"
      PROVE  \E i \in 1..n : /\ x = f + 2 * i \/ x = f + 2 * i + 1
                             /\ acts[i].tool # "invalid"
  <2>1. ~(x <= f) /\ x # f + 1
    <3>1. x <= f => x \in 1..f
      OBVIOUS
    <3> QED
      BY <1>4, <1>5, <3>1, Zenon
  <2>2. PICK i \in 1..n : x = f + 2 * i \/ x = f + 2 * i + 1
    BY <2>1, Places
  <2>3. acts[i].tool # "invalid"
    BY <1>3, <1>5, <2>2
  <2> QED
    BY <2>2, <2>3
<1>6. ASSUME NEW x \in CallsIn(out)
      PROVE  \E i \in 1..n : x = f + 2 * i /\ acts[i].tool # "invalid"
  <2>1. x \in 1..(f + 2 * n + 1) /\ out[x].what = "call"
    BY <1>2 DEF CallsIn
  <2>2. PICK i \in 1..n : (x = f + 2 * i \/ x = f + 2 * i + 1) /\ acts[i].tool # "invalid"
    BY <1>5, <2>1
  <2>3. x = f + 2 * i
    BY <1>3, <2>1, <2>2
  <2> QED
    BY <2>2, <2>3
<1>7. ASSUME NEW x \in CallsIn(out)
      PROVE  /\ x < Len(out) /\ out[x + 1].what = "result" /\ out[x + 1].id = out[x].id
             /\ \A y \in CallsIn(out) : out[x].id = out[y].id => x = y
  <2>1. PICK i \in 1..n : x = f + 2 * i /\ acts[i].tool # "invalid"
    BY <1>6
  <2>2. x < Len(out) /\ x + 1 = f + 2 * i + 1
    BY <1>2, <2>1
  <2>3. out[x + 1].what = "result" /\ out[x + 1].id = i - 1 /\ out[x].id = i - 1
    BY <1>3, <2>1, <2>2
  <2>4. ASSUME NEW y \in CallsIn(out), out[x].id = out[y].id PROVE x = y
    <3>1. PICK j \in 1..n : y = f + 2 * j /\ acts[j].tool # "invalid"
      BY <1>6
    <3>2. out[y].id = j - 1
      BY <1>3, <3>1
    <3>3. i = j
      BY <2>3, <2>4, <3>2
    <3> QED
      BY <2>1, <3>1, <3>3
  <2> QED
    BY <2>2, <2>3, <2>4
<1>8. ASSUME NEW x \in DOMAIN out, out[x].what = "result" PROVE x - 1 \in CallsIn(out)
  <2>1. PICK i \in 1..n : (x = f + 2 * i \/ x = f + 2 * i + 1) /\ acts[i].tool # "invalid"
    BY <1>2, <1>5, <1>8
  <2>2. x = f + 2 * i + 1
    BY <1>3, <1>8, <2>1
  <2>3. x - 1 = f + 2 * i /\ f + 2 * i \in 1..(f + 2 * n + 1)
    BY <2>2
  <2>4. out[f + 2 * i].what = "call"
    BY <1>3, <2>1
  <2> QED
    BY <1>2, <2>3, <2>4 DEF CallsIn
<1> QED
  BY <1>7, <1>8 DEF AllAnswered

\* Anthropic's roles alternate from user.
LEMMA RolesAlternate ==
  ASSUME NEW acts \in Seq(Action), NEW out \in Seq(Wire), NEW none \in Seq(Wire), Len(none) = 0,
         IsTranslated(out, none, "user", FALSE, acts)
  PROVE  \A x \in DOMAIN out : out[x].role = IF x % 2 = 1 THEN "user" ELSE "assistant"
<1> SUFFICES ASSUME NEW x \in DOMAIN out
             PROVE  out[x].role = IF x % 2 = 1 THEN "user" ELSE "assistant"
  OBVIOUS
<1>1. PICK n \in Nat : n = Len(acts)
  OBVIOUS
<1>2. /\ x \in 1..(0 + 2 * n + 1) /\ out[1] = Text("user")
      /\ \A i \in 1..n : /\ out[2 * i] = CallOf(FALSE, acts[i], i - 1)
                         /\ out[2 * i + 1] = AnswerTo("user", acts[i], i - 1)
  <2>1. /\ Len(out) = 0 + 2 * n + 1 /\ out[0 + 1] = Text("user")
        /\ \A i \in 1..n : /\ out[0 + 2 * i] = CallOf(FALSE, acts[i], i - 1)
                           /\ out[0 + 2 * i + 1] = AnswerTo("user", acts[i], i - 1)
    BY <1>1, Zenon DEF IsTranslated
  <2>2. 0 + 1 = 1 /\ \A i \in 1..n : 0 + 2 * i = 2 * i /\ 0 + 2 * i + 1 = 2 * i + 1
    OBVIOUS
  <2>3. x \in 1..Len(out)
    OBVIOUS
  <2> QED
    BY <2>1, <2>2, <2>3, Zenon
<1>3. x = 1 \/ \E i \in 1..n : x = 2 * i \/ x = 2 * i + 1
  <2>1. 0 \in Nat
    OBVIOUS
  <2>2. x <= 0 \/ x = 0 + 1 \/ \E i \in 1..n : x = 0 + 2 * i \/ x = 0 + 2 * i + 1
    BY <1>2, <2>1, Places
  <2> QED
    BY <1>2, <2>2
<1>4. CASE x = 1
  BY <1>2, <1>4, TextFacts
<1>5. ASSUME NEW i \in 1..n, x = 2 * i PROVE out[x].role = IF x % 2 = 1 THEN "user" ELSE "assistant"
  <2>1. x % 2 = 0
    BY <1>5
  <2>2. acts[i] \in Action /\ i - 1 \in Nat /\ FALSE \in BOOLEAN
    BY <1>1
  <2>3. out[x].role = "assistant"
    <3>1. CallOf(FALSE, acts[i], i - 1).role = "assistant"
      BY <2>2, CallFacts, Zenon
    <3> QED
      BY <1>2, <1>5, <3>1, Zenon
  <2> QED
    BY <2>1, <2>3
<1>6. ASSUME NEW i \in 1..n, x = 2 * i + 1 PROVE out[x].role = IF x % 2 = 1 THEN "user" ELSE "assistant"
  <2>1. x % 2 = 1
    BY <1>6
  <2>2. acts[i] \in Action /\ i - 1 \in Nat /\ "user" \in {"user", "tool"}
    BY <1>1
  <2>3. out[x].role = "user"
    <3>1. AnswerTo("user", acts[i], i - 1).role = (IF acts[i].tool = "invalid" THEN "user" ELSE "user")
      BY <2>2, AnswerFacts, Zenon
    <3> QED
      BY <1>2, <1>6, <3>1, Zenon
  <2> QED
    BY <2>1, <2>3
<1> QED
  BY <1>3, <1>4, <1>5, <1>6

\* OpenAI's thought signatures come back on their call.
LEMMA SignaturesKept ==
  ASSUME NEW acts \in Seq(Action), NEW out \in Seq(Wire), NEW first \in Seq(Wire), Len(first) = 1,
         IsTranslated(out, first, "tool", TRUE, acts), NEW i \in DOMAIN acts
  PROVE  out[2 * i + 1].ext = (acts[i].ext /\ acts[i].tool # "invalid")
<1>1. i \in 1..Len(acts) /\ i \in Nat /\ i - 1 \in Nat /\ acts[i] \in Action /\ TRUE \in BOOLEAN
  OBVIOUS
<1>2. 1 + 2 * i = 2 * i + 1
  BY <1>1
<1>3. out[1 + 2 * i] = CallOf(TRUE, acts[i], i - 1)
  BY <1>1 DEF IsTranslated
<1>4. PICK c : c = CallOf(TRUE, acts[i], i - 1)
  OBVIOUS
<1>5. c.ext = (acts[i].tool # "invalid" /\ TRUE /\ acts[i].ext)
  BY <1>1, <1>4, CallFacts, Zenon
<1>6. out[2 * i + 1] = c
  BY <1>2, <1>3, <1>4
<1> QED
  BY <1>5, <1>6, Zenon

\* Every history, however long and whatever the answers were, is one that both services
\* accept.
LEMMA HistoriesWellFormed ==
  ASSUME actions \in [Runs -> Seq(Action)]
  PROVE  ConversationWellFormed
<1> SUFFICES ASSUME NEW r \in Runs
             PROVE  LET openai == to_openai_messages(Messages(actions[r]))
                        anthropic == to_anthropic_messages(Messages(actions[r]))
                    IN /\ AllAnswered(openai) /\ AllAnswered(anthropic)
                       /\ \A i \in DOMAIN anthropic :
                            anthropic[i].role = IF i % 2 = 1 THEN "user" ELSE "assistant"
                       /\ \A i \in DOMAIN actions[r] :
                            openai[2 * i + 1].ext = (actions[r][i].ext /\ actions[r][i].tool # "invalid")
  BY Zenon DEF ConversationWellFormed, AllAnswered, CallsIn
<1>1. PICK acts \in Seq(Action) : acts = actions[r]
  OBVIOUS
<1>2. PICK system \in Seq(Wire) : /\ system = <<Text("system")>> /\ Len(system) = 1
                                  /\ system[1].what = "text"
  <2>1. PICK x \in Wire : x = Text("system") /\ x.what = "text"
    BY TextFacts
  <2>2. <<x>> \in Seq(Wire) /\ Len(<<x>>) = 1 /\ <<x>>[1] = x
    OBVIOUS
  <2> QED
    BY <2>1, <2>2
<1>3. PICK none \in Seq(Wire) : none = <<>> /\ Len(none) = 0
  <2>1. <<>> \in Seq(Wire) /\ Len(<<>>) = 0
    OBVIOUS
  <2> QED
    BY <2>1, Zenon
<1>4. PICK openai : openai = to_openai_messages(Messages(actions[r]))
  OBVIOUS
<1>5. PICK anthropic : anthropic = to_anthropic_messages(Messages(actions[r]))
  OBVIOUS
<1>6. /\ "tool" \in {"user", "tool"} /\ "user" \in {"user", "tool"}
      /\ TRUE \in BOOLEAN /\ FALSE \in BOOLEAN
  OBVIOUS
<1>7. openai \in Seq(Wire) /\ IsTranslated(openai, system, "tool", TRUE, acts)
  BY <1>1, <1>2, <1>4, <1>6, TranslatedIs, Zenon DEF to_openai_messages
<1>8. anthropic \in Seq(Wire) /\ IsTranslated(anthropic, none, "user", FALSE, acts)
  BY <1>1, <1>3, <1>5, <1>6, TranslatedIs, Zenon DEF to_anthropic_messages
<1>9. AllAnswered(openai)
  <2>1. \A j \in 1..Len(system) : system[j].what = "text"
    BY <1>2
  <2> QED
    BY <1>6, <1>7, <2>1, AnswersHold
<1>10. AllAnswered(anthropic)
  <2>1. \A j \in 1..Len(none) : none[j].what = "text"
    BY <1>3
  <2> QED
    BY <1>6, <1>8, <2>1, AnswersHold
<1>11. \A i \in DOMAIN anthropic : anthropic[i].role = IF i % 2 = 1 THEN "user" ELSE "assistant"
  BY <1>3, <1>8, RolesAlternate
<1>12. \A i \in DOMAIN acts : openai[2 * i + 1].ext = (acts[i].ext /\ acts[i].tool # "invalid")
  BY <1>2, <1>7, SignaturesKept
<1> QED
  BY <1>1, <1>4, <1>5, <1>9, <1>10, <1>11, <1>12, Zenon

\* An answer is an action whatever its tool calls are.
LEMMA ActionsTyped ==
  ASSUME NEW reply \in Replies
  PROVE  parse_action(reply) \in Action /\ FirstToolUse(reply) \in Action
<1>1. reply \in Seq([name: BOOLEAN, ext: BOOLEAN])
  BY ConstantsAssumption
<1>2. FirstToolUse(reply) \in Action
  BY DEF FirstToolUse, Action
<1>3. CASE reply = <<>>
  BY <1>2, <1>3 DEF parse_action, Action
<1>4. CASE reply # <<>>
  <2>1. PICK h \in [name: BOOLEAN, ext: BOOLEAN] : h = Head(reply)
    <3> DEFINE T == [name: BOOLEAN, ext: BOOLEAN]
    <3> HIDE DEF T
    <3>1. reply \in Seq(T)
      BY <1>1 DEF T
    <3>2. Head(reply) \in T
      BY <1>4, <3>1
    <3> QED
      BY <3>2 DEF T
  <2>2. PICK t \in {"tool", "invalid"} : t = IF h.name THEN "tool" ELSE "invalid"
    OBVIOUS
  <2>3. parse_action(reply) = [tool |-> t, ext |-> h.ext]
    BY <1>4, <2>1, <2>2, Zenon DEF parse_action
  <2>4. h.ext = TRUE \/ h.ext = FALSE
    OBVIOUS
  <2>5. [tool |-> t, ext |-> TRUE] \in Action /\ [tool |-> t, ext |-> FALSE] \in Action
    BY DEF Action
  <2>6. parse_action(reply) \in Action
    BY <2>3, <2>4, <2>5, Zenon
  <2> QED
    BY <1>2, <2>6
<1> QED
  BY <1>3, <1>4

\* build_messages, to_openai_messages, to_anthropic_messages: whatever was answered, the
\* next request is a conversation that the service accepts.
THEOREM ConversationsAccepted == Spec => []ConversationWellFormed
<1> DEFINE Inv == actions \in [Runs -> Seq(Action)]
<1>1. Init => Inv
  BY DEF Init
<1>2. Inv /\ [Next]_vars => Inv'
  <2> SUFFICES ASSUME Inv, [Next]_vars PROVE Inv'
    OBVIOUS
  <2>1. CASE actions' = actions
    BY <2>1
  <2>2. ASSUME NEW r \in Runs, Answered(r) PROVE Inv'
    <3>1. PICK reply \in Replies :
            actions' = [actions EXCEPT ![r] = Append(@, IF kind = "anthropic" THEN FirstToolUse(reply)
                                                        ELSE parse_action(reply))]
      BY <2>2 DEF Answered
    <3>2. PICK a \in Action : a = IF kind = "anthropic" THEN FirstToolUse(reply) ELSE parse_action(reply)
      BY ActionsTyped
    <3>3. actions' = [actions EXCEPT ![r] = Append(actions[r], a)]
      BY <3>1, <3>2, Zenon
    <3>4. Append(actions[r], a) \in Seq(Action)
      OBVIOUS
    <3> QED
      BY <3>3, <3>4
  <2>3. CASE UNCHANGED vars \/ Tick
    BY <2>1, <2>3 DEF vars, Tick
  <2>4. ASSUME NEW r \in Runs, Step(r) \/ Cancelled(r) PROVE Inv'
    <3>1. CASE BuildFails(r) \/ Complete(r) \/ Pace(r) \/ PaceDone(r) \/ BackoffDone(r)
      BY <2>1, <3>1 DEF BuildFails, Complete, Pace, PaceDone, BackoffDone
    <3>2. CASE PostQuota(r) \/ PostFails(r) \/ PostRetry(r) \/ Cancelled(r)
      BY <2>1, <3>2 DEF PostQuota, PostFails, PostRetry, Cancelled
    <3>3. CASE PostOk(r)
      BY <2>2, <3>3 DEF PostOk
    <3>4. CASE Sdk(r)
      BY <2>1, <2>2, <3>4 DEF Sdk
    <3> QED
      BY <2>4, <3>1, <3>2, <3>3, <3>4 DEF Step
  <2> QED
    BY <2>3, <2>4 DEF Next
<1>3. Inv => ConversationWellFormed
  BY HistoriesWellFormed
<1> QED
  BY <1>1, <1>2, <1>3, PTL DEF Spec
=============================================================================
