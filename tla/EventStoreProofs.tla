-------------------------- MODULE EventStoreProofs --------------------------
(***************************************************************************)
(* store.append_event and the readers of a run's log, for any number of    *)
(* connections, runs, keys and transactions. The argument is the row lock: *)
(* between its SELECT ... FOR UPDATE and its COMMIT a transaction owns its *)
(* run's log, so what it read of it stays true until it commits.           *)
(***************************************************************************)
EXTENDS Timeline, FiniteSetTheorems, TLAPS

\* The statements between the row lock and the end of the transaction.
Holding == {"find", "number", "insert", "end"}

\* A log: finitely many rows, numbered 1..n, no key twice.
LogOK ==
  \A r \in Runs :
    /\ IsFiniteSet(rows[r])
    /\ {row.seq : row \in rows[r]} = 1..Cardinality(rows[r])
    /\ \A x, y \in rows[r] : x.key = y.key => x = y

\* Past the lock the connection owns the row of an existing run.
LocksOK ==
  \A c \in Clients :
    /\ tx[c].pc \notin {"idle", "notfound"} => tx[c].run \in Runs /\ tx[c].key \in Keys
    /\ tx[c].pc \in Holding => tx[c].run \in Existing /\ rowLock[tx[c].run] = c
    /\ tx[c].inserted => tx[c].pc = "end"

\* What append_event's locals say of the log while it owns it.
Fresh(c) == tx[c].pc \in {"number", "insert"} \/ Pending(c)
Numbered(c) == tx[c].pc = "insert" \/ Pending(c)

LocalsOK ==
  \A c \in Clients :
    /\ Fresh(c) => \A row \in rows[tx[c].run] : row.key # tx[c].key
    /\ Numbered(c) => tx[c].seq = Cardinality(rows[tx[c].run]) + 1
    /\ tx[c].pc = "end" /\ ~tx[c].inserted =>
         [seq |-> tx[c].seq, key |-> tx[c].key] \in rows[tx[c].run]

AnswersTyped == \A x \in answers : x.run \in Runs

\* The inductive invariant of append_event.
StoreInv == TypeOK /\ LogOK /\ LocksOK /\ LocalsOK /\ BackstopUnused /\ AnswersTyped /\ AnswersTrue

\* The reader's side: what it has fetched is a prefix of the log as it is now.
ReaderInv ==
  /\ rpc # "KeyError"
  /\ view \in [run: Runs \cup {NULL}, count: Nat, shown: SUBSET Nat, times: SUBSET Nat]
  /\ rpc \in {"events", "times", "render", "rendered"} =>
       view.run \in Runs /\ view.count <= Cardinality(rows[view.run])
  /\ rpc \in {"times", "render", "rendered"} =>
       \E n \in 0..Cardinality(rows[view.run]) : view.shown = 1..n /\ view.count <= n
  /\ rpc = "render" => view.shown \subseteq view.times
-----------------------------------------------------------------------------
\* COALESCE(MAX(seq), 0) of a gapless log is its length.
LEMMA MaxSeqOfLog ==
  ASSUME TypeOK, LogOK, NEW r \in Runs
  PROVE  Cardinality(rows[r]) \in Nat /\ MaxSeq(rows[r]) = Cardinality(rows[r])
<1> DEFINE S == rows[r]
           n == Cardinality(S)
<1>1. S \subseteq Row /\ IsFiniteSet(S) /\ {row.seq : row \in S} = 1..n
  BY DEF TypeOK, LogOK
<1>2. n \in Nat
  BY <1>1, FS_CardinalityType
<1>3. S = {} <=> n = 0
  BY <1>1, FS_EmptySet
<1>4. CASE S = {}
  BY <1>2, <1>3, <1>4 DEF MaxSeq
<1>5. CASE S # {}
  <2> DEFINE Top(s) == s \in {row.seq : row \in S} /\ \A row \in S : row.seq <= s
  <2>1. n \in {row.seq : row \in S}
    BY <1>1, <1>2, <1>3, <1>5
  <2>2. \A row \in S : row.seq \in {x.seq : x \in S}
    OBVIOUS
  <2>3. \A row \in S : row.seq \in 1..n
    BY <2>2, <1>1
  <2>4. Top(n)
    BY <2>1, <2>3, <1>2
  <2>5. \A s : Top(s) => s = n
    <3> SUFFICES ASSUME NEW s, Top(s) PROVE s = n
      OBVIOUS
    <3>1. s \in 1..n
      BY <1>1
    <3>2. PICK row \in S : row.seq = n
      BY <2>1
    <3> QED
      BY <3>1, <3>2, <1>2
  <2>6. MaxSeq(S) = CHOOSE s : Top(s)
    BY <1>5 DEF MaxSeq
  <2> HIDE DEF Top
  <2> QED
    BY <2>4, <2>5, <2>6, <1>2
<1> QED
  BY <1>4, <1>5

\* SELECT seq ... WHERE idem_key = k returns the one row with the key.
LEMMA MaxSeqOfKey ==
  ASSUME TypeOK, LogOK, NEW r \in Runs, NEW k,
         {row \in rows[r] : row.key = k} # {}
  PROVE  LET found == {row \in rows[r] : row.key = k}
         IN  MaxSeq(found) \in Nat /\ [seq |-> MaxSeq(found), key |-> k] \in rows[r]
<1> DEFINE found == {row \in rows[r] : row.key = k}
<1>1. PICK x \in rows[r] : x.key = k
  OBVIOUS
<1>2. rows[r] \subseteq Row
  BY DEF TypeOK
<1>3. found = {x}
  BY <1>1 DEF LogOK
<1>4. {row.seq : row \in found} = {x.seq}
  BY <1>3
<1>5. x.seq \in Nat
  BY <1>1, <1>2 DEF Row
<1>6. MaxSeq(found) = CHOOSE s \in {x.seq} : \A row \in {x} : row.seq <= s
  BY <1>3, <1>4 DEF MaxSeq
<1>7. MaxSeq(found) = x.seq
  BY <1>5, <1>6
<1>8. x = [seq |-> x.seq, key |-> k]
  BY <1>1, <1>2 DEF Row
<1> QED
  BY <1>1, <1>5, <1>7, <1>8

\* INSERT of the next number and a new key keeps a log gapless.
LEMMA AddRow ==
  ASSUME TypeOK, LogOK, NEW r \in Runs, NEW k \in Keys,
         \A row \in rows[r] : row.key # k
  PROVE  LET n == Cardinality(rows[r])
             T == rows[r] \cup {[seq |-> n + 1, key |-> k]}
         IN  /\ T \subseteq Row /\ IsFiniteSet(T) /\ Cardinality(T) = n + 1
             /\ {row.seq : row \in T} = 1..(n + 1)
             /\ \A x, y \in T : x.key = y.key => x = y
             /\ \A old \in rows[r] : old.seq < n + 1
<1> DEFINE S == rows[r]
           n == Cardinality(S)
           new == [seq |-> n + 1, key |-> k]
           T == S \cup {new}
<1>1. S \subseteq Row /\ IsFiniteSet(S) /\ {row.seq : row \in S} = 1..n
  BY DEF TypeOK, LogOK
<1>2. n \in Nat
  BY <1>1, FS_CardinalityType
<1>3. new \in Row /\ new \notin S /\ new.seq = n + 1 /\ new.key = k
  BY <1>2 DEF Row
<1> HIDE DEF new
<1>4. IsFiniteSet(T) /\ Cardinality(T) = n + 1
  BY <1>1, <1>3, FS_AddElement
<1>5. {row.seq : row \in T} = {row.seq : row \in S} \cup {n + 1}
  BY <1>3
<1>6. {row.seq : row \in T} = 1..(n + 1)
  BY <1>1, <1>2, <1>5
<1>7. \A x, y \in T : x.key = y.key => x = y
  BY <1>3 DEF LogOK
<1>8. \A old \in S : old.seq < n + 1
  <2>1. \A old \in S : old.seq \in {row.seq : row \in S}
    OBVIOUS
  <2>2. \A old \in S : old.seq \in 1..n
    BY <2>1, <1>1
  <2> HIDE DEF n, S
  <2> QED
    BY <2>2, <1>2
<1> QED
  BY <1>1, <1>3, <1>4, <1>6, <1>7, <1>8 DEF new
-----------------------------------------------------------------------------
\* What a committed transaction may do to a log: it adds the next numbers.
Growth ==
  \A r \in Runs :
    /\ rows[r] \subseteq rows'[r]
    /\ \A old \in rows[r], new \in rows'[r] \ rows[r] : old.seq < new.seq

\* What StoreInv asks of the transaction t of connection c after a step that
\* leaves the logs alone.
Accounted(c, t) ==
  /\ t.pc # "conflict"
  /\ t.pc \notin {"idle", "notfound"} => t.run \in Runs /\ t.key \in Keys
  /\ t.pc \in Holding => t.run \in Existing /\ rowLock'[t.run] = c
  /\ t.inserted => t.pc = "end"
  /\ t.pc \in {"number", "insert"} \/ (t.pc = "end" /\ t.inserted) =>
       \A row \in rows[t.run] : row.key # t.key
  /\ t.pc = "insert" \/ (t.pc = "end" /\ t.inserted) =>
       t.seq = Cardinality(rows[t.run]) + 1
  /\ t.pc = "end" /\ ~t.inserted => [seq |-> t.seq, key |-> t.key] \in rows[t.run]

TxType == [pc: PCs, run: Runs \cup {NULL}, key: Keys \cup {NULL}, seq: Nat, inserted: BOOLEAN]

\* A step that leaves the logs and the answers alone only has its own
\* transaction and its lock to answer for.
LEMMA QuietStep ==
  ASSUME StoreInv, NEW c \in Clients, NEW t \in TxType,
         tx' = [tx EXCEPT ![c] = t], UNCHANGED <<rows, answers>>,
         rowLock' \in [Runs -> Clients \cup {NULL}], begun' \in Nat,
         \A r \in Runs : rowLock[r] \in Clients \ {c} => rowLock'[r] = rowLock[r],
         Accounted(c, t)
  PROVE  StoreInv' /\ Growth
<1>1. tx'[c] = t /\ \A d \in Clients \ {c} : tx'[d] = tx[d]
  BY DEF StoreInv, TypeOK
<1>2. TypeOK'
  BY DEF StoreInv, TypeOK, TxType
<1>3. LogOK' /\ AnswersTyped' /\ AnswersTrue'
  BY DEF StoreInv, LogOK, AnswersTyped, AnswersTrue
<1>4. BackstopUnused'
  BY <1>1 DEF StoreInv, BackstopUnused, Accounted
<1>5. LocksOK'
  <2> SUFFICES ASSUME NEW d \in Clients
               PROVE  /\ tx'[d].pc \notin {"idle", "notfound"} => tx'[d].run \in Runs /\ tx'[d].key \in Keys
                      /\ tx'[d].pc \in Holding => tx'[d].run \in Existing /\ rowLock'[tx'[d].run] = d
                      /\ tx'[d].inserted => tx'[d].pc = "end"
    BY DEF LocksOK
  <2>1. CASE d = c
    BY <1>1, <2>1 DEF Accounted
  <2>2. CASE d # c
    BY <1>1, <2>2, ConstantsAssumption DEF StoreInv, LocksOK
  <2> QED
    BY <2>1, <2>2
<1>6. LocalsOK'
  BY <1>1 DEF StoreInv, LocalsOK, Fresh, Numbered, Pending, Accounted
<1>7. Growth
  BY DEF Growth
<1> QED
  BY <1>2, <1>3, <1>4, <1>5, <1>6, <1>7 DEF StoreInv

\* COMMIT: of all open transactions on this log only its own owns the row, so
\* the others' knowledge of their logs is not disturbed.
LEMMA CommitStep ==
  ASSUME StoreInv, NEW c \in Clients, Commit(c)
  PROVE  StoreInv' /\ Growth
<1> DEFINE t == tx[c]
           new == [seq |-> t.seq, key |-> t.key]
           ans == [tx |-> c, run |-> t.run, key |-> t.key, seq |-> t.seq,
                   inserted |-> t.inserted, at |-> Cardinality(answers)]
<1>1. /\ TypeOK /\ LogOK /\ LocksOK /\ LocalsOK /\ BackstopUnused /\ AnswersTyped /\ AnswersTrue
      /\ tx \in [Clients -> TxType]
  BY DEF StoreInv, TypeOK, TxType
<1>2. /\ t.pc = "end" /\ t.run \in Runs /\ t.run \in Existing /\ t.key \in Keys
      /\ rowLock[t.run] = c
  BY <1>1 DEF Commit, LocksOK, Holding
<1>3. /\ rows' = [rows EXCEPT ![t.run] = IF t.inserted THEN @ \cup {new} ELSE @]
      /\ answers' = answers \cup {ans}
      /\ tx' = [tx EXCEPT ![c] = NoTx]
      /\ rowLock' = [r \in Runs |-> IF rowLock[r] = c THEN NULL ELSE rowLock[r]]
      /\ begun' = begun
  BY DEF Commit, Unlock
<1>4. ans.run = t.run /\ ans.key = t.key /\ ans.seq = t.seq /\ ans.inserted = t.inserted
  OBVIOUS
<1> HIDE DEF ans
<1>5. tx'[c] = NoTx /\ NoTx.pc = "idle" /\ ~NoTx.inserted /\ NoTx \in TxType
  BY <1>1, <1>3 DEF NoTx, TxType, PCs
<1>6. \A d \in Clients \ {c} : tx'[d] = tx[d]
  BY <1>1, <1>3
<1>7. t.inserted => /\ t.seq = Cardinality(rows[t.run]) + 1
                    /\ \A row \in rows[t.run] : row.key # t.key
  BY <1>1, <1>2 DEF LocalsOK, Fresh, Numbered, Pending
<1>8. ~t.inserted => new \in rows[t.run]
  BY <1>1, <1>2 DEF LocalsOK
<1>9. /\ \A r \in Runs : r # t.run => rows'[r] = rows[r]
      /\ rows'[t.run] = IF t.inserted THEN rows[t.run] \cup {new} ELSE rows[t.run]
  BY <1>1, <1>2, <1>3 DEF TypeOK
<1>10. new \in rows'[t.run] /\ \A r \in Runs : rows[r] \subseteq rows'[r]
  BY <1>8, <1>9
<1>11. new.seq = t.seq /\ new.key = t.key
  OBVIOUS
<1>12. LET T == rows'[t.run] IN
       /\ T \subseteq Row /\ IsFiniteSet(T) /\ {row.seq : row \in T} = 1..Cardinality(T)
       /\ \A x, y \in T : x.key = y.key => x = y
       /\ \A old \in rows[t.run], x \in T \ rows[t.run] : old.seq < x.seq
  <2>1. CASE t.inserted
    <3> DEFINE n == Cardinality(rows[t.run])
               T == rows[t.run] \cup {[seq |-> n + 1, key |-> t.key]}
    <3>1. /\ T \subseteq Row /\ IsFiniteSet(T) /\ Cardinality(T) = n + 1
          /\ {row.seq : row \in T} = 1..(n + 1)
          /\ \A x, y \in T : x.key = y.key => x = y
          /\ \A old \in rows[t.run] : old.seq < n + 1
      BY <1>1, <1>2, <1>7, <2>1, AddRow
    <3>2. rows'[t.run] = T
      BY <1>7, <1>9, <2>1
    <3>3. \A x \in T \ rows[t.run] : x.seq = n + 1
      OBVIOUS
    <3> HIDE DEF T, n
    <3> QED
      BY <3>1, <3>2, <3>3
  <2>2. CASE ~t.inserted
    BY <1>1, <1>2, <1>9, <2>2 DEF TypeOK, LogOK
  <2> QED
    BY <2>1, <2>2
<1> HIDE DEF new
<1>13. LogOK'
  BY <1>1, <1>9, <1>12 DEF LogOK
<1>14. Growth
  BY <1>9, <1>10, <1>12 DEF Growth
<1>15. TypeOK'
  <2>1. rows' \in [Runs -> SUBSET Row]
    BY <1>1, <1>3, <1>9, <1>12 DEF TypeOK
  <2>2. tx' \in [Clients -> TxType]
    BY <1>1, <1>3, <1>5
  <2>3. rowLock' \in [Runs -> Clients \cup {NULL}] /\ begun' \in Nat
    BY <1>1, <1>3 DEF TypeOK
  <2> QED
    BY <2>1, <2>2, <2>3 DEF TypeOK, TxType
<1>16. BackstopUnused'
  BY <1>1, <1>5, <1>6 DEF BackstopUnused
<1>17. LocksOK'
  <2> SUFFICES ASSUME NEW d \in Clients
               PROVE  /\ tx'[d].pc \notin {"idle", "notfound"} => tx'[d].run \in Runs /\ tx'[d].key \in Keys
                      /\ tx'[d].pc \in Holding => tx'[d].run \in Existing /\ rowLock'[tx'[d].run] = d
                      /\ tx'[d].inserted => tx'[d].pc = "end"
    BY DEF LocksOK
  <2>1. CASE d = c
    BY <1>5, <2>1 DEF Holding
  <2>2. CASE d # c
    BY <1>1, <1>3, <1>6, <2>2, ConstantsAssumption DEF LocksOK
  <2> QED
    BY <2>1, <2>2
<1>18. LocalsOK'
  <2> SUFFICES ASSUME NEW d \in Clients
               PROVE  /\ Fresh(d)' => \A row \in rows'[tx'[d].run] : row.key # tx'[d].key
                      /\ Numbered(d)' => tx'[d].seq = Cardinality(rows'[tx'[d].run]) + 1
                      /\ tx'[d].pc = "end" /\ ~tx'[d].inserted =>
                           [seq |-> tx'[d].seq, key |-> tx'[d].key] \in rows'[tx'[d].run]
    BY DEF LocalsOK
  <2>1. CASE d = c
    BY <1>5, <2>1 DEF Fresh, Numbered, Pending
  <2>2. CASE d # c
    <3>1. tx[d].pc \in Holding => rows'[tx[d].run] = rows[tx[d].run]
      BY <1>1, <1>2, <1>9, <2>2, ConstantsAssumption DEF LocksOK
    <3> QED
      BY <1>1, <1>6, <2>2, <3>1 DEF LocalsOK, Fresh, Numbered, Pending, Holding
  <2> QED
    BY <2>1, <2>2
<1>19. AnswersTyped'
  BY <1>1, <1>2, <1>3, <1>4 DEF AnswersTyped
<1>20. AnswersTrue'
  <2>1. \A x \in answers' : [seq |-> x.seq, key |-> x.key] \in rows'[x.run]
    <3>1. [seq |-> ans.seq, key |-> ans.key] \in rows'[ans.run]
      BY <1>4, <1>10 DEF new
    <3> QED
      BY <1>1, <1>3, <1>10, <3>1 DEF AnswersTrue, AnswersTyped
  <2>2. \A x \in answers : x.run = ans.run /\ x.key = ans.key => ~ans.inserted
    <3> SUFFICES ASSUME NEW x \in answers, x.run = ans.run, x.key = ans.key, ans.inserted
                 PROVE  FALSE
      OBVIOUS
    <3>1. [seq |-> x.seq, key |-> x.key] \in rows[t.run]
      BY <1>1, <1>4 DEF AnswersTrue
    <3> QED
      BY <1>4, <1>7, <3>1
  <2>3. ASSUME NEW x \in answers', NEW y \in answers', x # y, x.run = y.run, x.key = y.key
        PROVE  ~(x.inserted /\ y.inserted)
    BY <1>1, <1>3, <2>2, <2>3 DEF AnswersTrue
  <2> QED
    BY <2>1, <2>3 DEF AnswersTrue
<1> QED
  BY <1>13, <1>14, <1>15, <1>16, <1>17, <1>18, <1>19, <1>20 DEF StoreInv

\* Every statement of append_event keeps the invariant and the order of the log.
LEMMA StoreStep ==
  ASSUME StoreInv, [Next]_vars
  PROVE  StoreInv' /\ Growth
<1>0. /\ TypeOK /\ LogOK /\ LocksOK /\ LocalsOK /\ tx \in [Clients -> TxType]
      /\ rowLock \in [Runs -> Clients \cup {NULL}] /\ begun \in Nat
  BY DEF StoreInv, TypeOK, TxType
<1>1. CASE UNCHANGED vars
  BY <1>1 DEF StoreInv, vars, TypeOK, LogOK, LocksOK, LocalsOK, Fresh, Numbered, Pending,
              BackstopUnused, AnswersTyped, AnswersTrue, Growth
<1>2. ASSUME NEW c \in Clients, NEW r \in Runs, NEW k \in Keys, Begin(c, r, k)
      PROVE  StoreInv' /\ Growth
  <2> DEFINE t == [NoTx EXCEPT !.pc = "lock", !.run = r, !.key = k]
  <2>1. NoTx \in TxType /\ ~NoTx.inserted
    BY DEF NoTx, TxType, PCs
  <2>2. /\ tx' = [tx EXCEPT ![c] = t] /\ UNCHANGED <<rows, rowLock, answers>>
        /\ begun' \in Nat
    BY <1>0, <1>2 DEF Begin
  <2>3. /\ t \in TxType /\ t.pc = "lock" /\ t.run = r /\ t.key = k
        /\ t.inserted = NoTx.inserted
    BY <2>1 DEF TxType, PCs
  <2> HIDE DEF t
  <2>4. Accounted(c, t)
    BY <2>1, <2>3 DEF Accounted, Holding
  <2> QED
    BY <1>0, <2>2, <2>3, <2>4, QuietStep
<1>3. ASSUME NEW c \in Clients, LockRun(c)
      PROVE  StoreInv' /\ Growth
  <2>1. CASE /\ tx[c].run \in Existing /\ rowLock[tx[c].run] = NULL
             /\ Step(c, "lock", "find")
             /\ rowLock' = [rowLock EXCEPT ![tx[c].run] = c]
             /\ UNCHANGED <<rows, answers, begun>>
    <3> DEFINE t == [tx[c] EXCEPT !.pc = "find"]
    <3>1. tx' = [tx EXCEPT ![c] = t] /\ tx[c].pc = "lock"
      BY <2>1 DEF Step
    <3>2. /\ tx[c].run \in Runs /\ rowLock'[tx[c].run] = c
          /\ rowLock' \in [Runs -> Clients \cup {NULL}]
          /\ \A x \in Runs : rowLock[x] \in Clients \ {c} => rowLock'[x] = rowLock[x]
      BY <1>0, <2>1, ConstantsAssumption
    <3>3. t \in TxType /\ t.run = tx[c].run /\ t.key = tx[c].key /\ t.pc = "find"
          /\ t.inserted = tx[c].inserted
      BY <1>0 DEF TxType, PCs
    <3>4. Accounted(c, t)
      BY <1>0, <2>1, <3>1, <3>2, <3>3 DEF Accounted, Holding, LocksOK
    <3> HIDE DEF t
    <3> QED
      BY <1>0, <2>1, <3>1, <3>2, <3>3, <3>4, QuietStep
  <2>2. CASE /\ tx[c].run \notin Existing
             /\ Step(c, "lock", "notfound")
             /\ UNCHANGED <<rows, rowLock, answers, begun>>
    <3> DEFINE t == [tx[c] EXCEPT !.pc = "notfound"]
    <3>1. tx' = [tx EXCEPT ![c] = t] /\ tx[c].pc = "lock"
      BY <2>2 DEF Step
    <3>2. t \in TxType /\ t.pc = "notfound" /\ t.inserted = tx[c].inserted
      BY <1>0 DEF TxType, PCs
    <3>3. Accounted(c, t)
      BY <1>0, <3>1, <3>2 DEF Accounted, Holding, LocksOK
    <3> HIDE DEF t
    <3> QED
      BY <1>0, <2>2, <3>1, <3>2, <3>3, QuietStep
  <2> QED
    BY <1>3, <2>1, <2>2 DEF LockRun
<1>4. ASSUME NEW c \in Clients, Find(c)
      PROVE  StoreInv' /\ Growth
  <2> DEFINE found == {row \in rows[tx[c].run] : row.key = tx[c].key}
             m == MaxSeq(found)
             next == IF found = {} THEN "number" ELSE "end"
             t == [tx[c] EXCEPT !.pc = next, !.seq = m]
  <2>1. /\ tx[c].pc = "find" /\ tx[c].run \in Runs /\ tx[c].run \in Existing
        /\ tx[c].key \in Keys /\ rowLock[tx[c].run] = c /\ ~tx[c].inserted
    BY <1>0, <1>4 DEF Find, LocksOK, Holding
  <2>2. m \in Nat
    BY <1>0, <2>1, MaxSeqOfKey DEF MaxSeq
  <2>3. next = "end" => [seq |-> m, key |-> tx[c].key] \in rows[tx[c].run]
    BY <1>0, <2>1, MaxSeqOfKey
  <2>4. next = "number" => \A row \in rows[tx[c].run] : row.key # tx[c].key
    OBVIOUS
  <2>5. next \in {"number", "end"}
    OBVIOUS
  <2>6. UNCHANGED <<rows, rowLock, answers, begun>> /\ tx' = [tx EXCEPT ![c] = t]
    BY <1>4 DEF Find
  <2> HIDE DEF next, m
  <2>7. /\ t \in TxType /\ t.pc = next /\ t.run = tx[c].run /\ t.key = tx[c].key
        /\ t.seq = m /\ t.inserted = tx[c].inserted
    BY <1>0, <2>2, <2>5 DEF TxType, PCs
  <2> HIDE DEF t
  <2>8. Accounted(c, t)
    BY <2>1, <2>3, <2>4, <2>5, <2>6, <2>7 DEF Accounted, Holding
  <2> QED
    BY <1>0, <2>6, <2>7, <2>8, QuietStep
<1>5. ASSUME NEW c \in Clients, Number(c)
      PROVE  StoreInv' /\ Growth
  <2> DEFINE n == Cardinality(rows[tx[c].run])
             t == [tx[c] EXCEPT !.pc = "insert", !.seq = n + 1]
  <2>1. /\ tx[c].pc = "number" /\ tx[c].run \in Runs /\ tx[c].run \in Existing
        /\ tx[c].key \in Keys /\ rowLock[tx[c].run] = c /\ ~tx[c].inserted
    BY <1>0, <1>5 DEF Number, LocksOK, Holding
  <2>2. n \in Nat /\ MaxSeq(rows[tx[c].run]) = n
    BY <1>0, <2>1, MaxSeqOfLog
  <2>3. UNCHANGED <<rows, rowLock, answers, begun>> /\ tx' = [tx EXCEPT ![c] = t]
    BY <1>5, <2>2 DEF Number
  <2>4. \A row \in rows[tx[c].run] : row.key # tx[c].key
    BY <1>0, <2>1 DEF LocalsOK, Fresh
  <2>5. /\ t \in TxType /\ t.pc = "insert" /\ t.run = tx[c].run /\ t.key = tx[c].key
        /\ t.seq = n + 1 /\ t.inserted = tx[c].inserted
    <3> DEFINE m == n + 1
    <3>1. m \in Nat
      BY <2>2
    <3> HIDE DEF m
    <3>2. [tx[c] EXCEPT !.pc = "insert", !.seq = m] \in TxType
      BY <1>0, <3>1 DEF TxType, PCs
    <3> QED
      BY <1>0, <3>2 DEF m, TxType
  <2> HIDE DEF t
  <2>6. Accounted(c, t)
    BY <2>1, <2>3, <2>4, <2>5 DEF Accounted, Holding
  <2> QED
    BY <1>0, <2>3, <2>5, <2>6, QuietStep
<1>6. ASSUME NEW c \in Clients, Insert(c)
      PROVE  StoreInv' /\ Growth
  <2> DEFINE n == Cardinality(rows[tx[c].run])
             t == [tx[c] EXCEPT !.pc = "end", !.inserted = TRUE]
  <2>1. /\ tx[c].pc = "insert" /\ tx[c].run \in Runs /\ tx[c].run \in Existing
        /\ tx[c].key \in Keys /\ rowLock[tx[c].run] = c /\ ~tx[c].inserted
    BY <1>0, <1>6 DEF Insert, LocksOK, Holding
  <2>2. tx[c].seq = n + 1 /\ \A row \in rows[tx[c].run] : row.key # tx[c].key
    BY <1>0, <2>1 DEF LocalsOK, Fresh, Numbered
  <2>3. n \in Nat /\ rows[tx[c].run] \subseteq Row
    BY <1>0, <2>1, MaxSeqOfLog DEF TypeOK
  <2>4. \A row \in rows[tx[c].run] : row.seq < n + 1
    BY <1>0, <2>1, <2>2, AddRow
  <2>5. ~\E row \in rows[tx[c].run] : Clash(tx[c].seq, tx[c].key, row)
    <3>1. \A row \in rows[tx[c].run] : row.seq # n + 1
      <4> HIDE DEF n
      <4> QED
        BY <2>3, <2>4 DEF Row
    <3> QED
      BY <2>2, <3>1 DEF Clash
  <2>6. UNCHANGED <<rows, rowLock, answers, begun>> /\ tx' = [tx EXCEPT ![c] = t]
    BY <1>6, <2>5 DEF Insert
  <2>7. /\ t \in TxType /\ t.pc = "end" /\ t.run = tx[c].run /\ t.key = tx[c].key
        /\ t.seq = tx[c].seq /\ t.inserted
    BY <1>0 DEF TxType, PCs
  <2> HIDE DEF t
  <2>8. Accounted(c, t)
    BY <2>1, <2>2, <2>6, <2>7 DEF Accounted, Holding
  <2> QED
    BY <1>0, <2>6, <2>7, <2>8, QuietStep
<1>7. ASSUME NEW c \in Clients, Rollback(c)
      PROVE  StoreInv' /\ Growth
  <2>1. NoTx \in TxType /\ Accounted(c, NoTx)
    BY DEF NoTx, TxType, PCs, Accounted, Holding
  <2>2. /\ rowLock' \in [Runs -> Clients \cup {NULL}]
        /\ \A r \in Runs : rowLock[r] \in Clients \ {c} => rowLock'[r] = rowLock[r]
    BY <1>0, <1>7 DEF Rollback, Unlock
  <2> QED
    BY <1>0, <1>7, <2>1, <2>2, QuietStep DEF Rollback
<1>8. ASSUME NEW c \in Clients, Commit(c)
      PROVE  StoreInv' /\ Growth
  BY <1>8, CommitStep
<1> QED
  BY <1>1, <1>2, <1>3, <1>4, <1>5, <1>6, <1>7, <1>8 DEF Next

LEMMA StoreInit ==
  ASSUME Init PROVE StoreInv
<1> USE DEF Init
<1>1. NoTx \in TxType /\ NoTx.pc = "idle" /\ ~NoTx.inserted
  BY DEF NoTx, TxType, PCs
<1>2. TypeOK
  BY <1>1 DEF TypeOK, TxType
<1>3. LogOK
  <2>1. \A r \in Runs : rows[r] = {}
    OBVIOUS
  <2>2. {row.seq : row \in {}} = 1..0
    OBVIOUS
  <2> QED
    BY <2>1, <2>2, FS_EmptySet DEF LogOK
<1>4. LocksOK /\ LocalsOK /\ BackstopUnused
  BY <1>1 DEF LocksOK, LocalsOK, Fresh, Numbered, Pending, BackstopUnused, Holding
<1>5. AnswersTyped /\ AnswersTrue
  BY DEF AnswersTyped, AnswersTrue
<1> QED
  BY <1>2, <1>3, <1>4, <1>5 DEF StoreInv

\* The invariant of append_event under any interleaving of its statements,
\* commits and rollbacks.
THEOREM StoreInvariant == Spec => []StoreInv
<1>1. Init => StoreInv
  BY StoreInit
<1>2. StoreInv /\ [Next]_vars => StoreInv'
  BY StoreStep
<1> QED
  BY <1>1, <1>2, PTL DEF Spec

\* The readers (api.py, timeline.py) only read: with them the store behaves as
\* without them, and what is proved of it holds while it is being read.
THEOREM ReadersOnlyRead == TimelineSpec => Spec
<1>1. TimelineInit => Init
  BY DEF TimelineInit
<1>2. [TimelineNext]_<<vars, readerVars>> => [Next]_vars
  BY DEF TimelineNext, ReadRun, ReadEvents, ReadTimes, Render, Answered
<1> QED
  BY <1>1, <1>2, PTL DEF TimelineSpec, Spec

\* append_event's locals and the table have their types.
THEOREM TypeCorrect == TimelineSpec => []TypeOK
<1>1. StoreInv => TypeOK
  BY DEF StoreInv
<1> QED
  BY <1>1, StoreInvariant, ReadersOnlyRead, PTL

\* append_event: "seq gapless". A run's log is numbered 1..n whichever
\* transactions roll back.
THEOREM Gapless == TimelineSpec => []SeqsGapless
<1>1. StoreInv => SeqsGapless
  BY DEF StoreInv, LogOK, SeqsGapless
<1> QED
  BY <1>1, StoreInvariant, ReadersOnlyRead, PTL

\* append_event: under the row lock no INSERT meets the UNIQUE constraints.
THEOREM NoConflict == TimelineSpec => []BackstopUnused
<1>1. StoreInv => BackstopUnused
  BY DEF StoreInv
<1> QED
  BY <1>1, StoreInvariant, ReadersOnlyRead, PTL

\* AppendResult: what an append reported stays in the log, and of the appends of
\* one key at most one was told that it inserted the event.
THEOREM AnswersStay == TimelineSpec => []AnswersTrue
<1>1. StoreInv => AnswersTrue
  BY DEF StoreInv
<1> QED
  BY <1>1, StoreInvariant, ReadersOnlyRead, PTL

\* read_events: rows are never changed or removed and become visible in the
\* order of their numbers.
THEOREM InOrder == TimelineSpec => CommitsInOrder
<1>1. StoreInv /\ [Next]_vars =>
        [\A r \in Runs :
           /\ rows[r] \subseteq rows'[r]
           /\ \A old \in rows[r], new \in rows'[r] \ rows[r] : old.seq < new.seq]_vars
  BY StoreStep DEF Growth
<1>2. Spec => CommitsInOrder
  BY <1>1, StoreInvariant, PTL DEF Spec, CommitsInOrder
<1> QED
  BY <1>2, ReadersOnlyRead, PTL
-----------------------------------------------------------------------------
\* A log that grows stays behind what a reader has seen of it.
LEMMA LongerLog ==
  ASSUME StoreInv, [Next]_vars, NEW r \in Runs
  PROVE  /\ Cardinality(rows[r]) \in Nat /\ Cardinality(rows'[r]) \in Nat
         /\ Cardinality(rows[r]) <= Cardinality(rows'[r])
<1>1. StoreInv' /\ rows[r] \subseteq rows'[r]
  BY StoreStep DEF Growth
<1>2. IsFiniteSet(rows[r]) /\ IsFiniteSet(rows'[r])
  BY <1>1 DEF StoreInv, LogOK
<1> QED
  BY <1>1, <1>2, FS_Subset, FS_CardinalityType

\* What a query of a run's events returns.
LEMMA SeqsOfLog ==
  ASSUME StoreInv, NEW r \in Runs
  PROVE  Cardinality(rows[r]) \in Nat /\ Seqs(r) = 1..Cardinality(rows[r])
BY FS_CardinalityType DEF StoreInv, LogOK, Seqs

ViewType == [run: Runs \cup {NULL}, count: Nat, shown: SUBSET Nat, times: SUBSET Nat]

\* Every query of a reader, and every step of the store between two of them,
\* leaves it with a prefix of the log.
LEMMA ReaderStep ==
  ASSUME StoreInv, ReaderInv, [TimelineNext]_<<vars, readerVars>>
  PROVE  ReaderInv'
<1>0. view \in ViewType
  BY DEF ReaderInv, ViewType
<1>1. ASSUME UNCHANGED readerVars, [Next]_vars
      PROVE  ReaderInv'
  <2>1. view' = view /\ rpc' = rpc
    BY <1>1 DEF readerVars
  <2>2. \A r \in Runs : /\ Cardinality(rows[r]) \in Nat /\ Cardinality(rows'[r]) \in Nat
                        /\ Cardinality(rows[r]) <= Cardinality(rows'[r])
    BY <1>1, LongerLog
  <2>3. ReaderInv!3' /\ ReaderInv!4'
    <3>1. view.count \in Nat
      BY <1>0 DEF ViewType
    <3> QED
      BY <2>1, <2>2, <3>1 DEF ReaderInv
  <2> QED
    BY <2>1, <2>3 DEF ReaderInv
<1>2. ASSUME NEW r \in Runs, ReadRun(r)
      PROVE  ReaderInv'
  <2> DEFINE n == Cardinality(rows[r])
             v == [NoView EXCEPT !.run = r, !.count = n]
  <2>1. n \in Nat
    BY SeqsOfLog
  <2>2. NoView \in ViewType
    BY DEF NoView, ViewType
  <2>3. /\ view' = v /\ rpc' \in {"events", "not found"} /\ rows' = rows
    BY <1>2 DEF ReadRun, vars
  <2> HIDE DEF n
  <2>4. v \in ViewType /\ v.run = r /\ v.count = n
    BY <2>1, <2>2 DEF ViewType
  <2> HIDE DEF v
  <2>5. view'.run = r /\ view'.count = n
    BY <2>3, <2>4, Zenon
  <2>6. view'.count <= Cardinality(rows'[view'.run])
    <3>1. Cardinality(rows'[view'.run]) = n
      BY <2>3, <2>5, Zenon DEF n
    <3>2. n <= n
      BY <2>1
    <3> QED
      BY <2>5, <3>1, <3>2, Zenon
  <2> QED
    BY <2>3, <2>4, <2>5, <2>6 DEF ReaderInv, ViewType
<1>3. ASSUME ReadEvents
      PROVE  ReaderInv'
  <2> DEFINE n == Cardinality(rows[view.run])
             v == [view EXCEPT !.shown = Seqs(view.run)]
  <2>1. view.run \in Runs /\ view.count <= n
    BY <1>3 DEF ReadEvents, ReaderInv
  <2>2. n \in Nat /\ Seqs(view.run) = 1..n
    BY <2>1, SeqsOfLog
  <2>3. view' = v /\ rpc' = "times" /\ rows' = rows
    BY <1>3 DEF ReadEvents, vars
  <2>4. 1..n \in SUBSET Nat
    BY <2>2
  <2>5. /\ v \in ViewType /\ v.run = view.run /\ v.count = view.count /\ v.shown = 1..n
    BY <1>0, <2>2, <2>4 DEF ViewType
  <2> HIDE DEF v
  <2>6. v.shown = 1..n /\ v.count <= n /\ n \in 0..n
    BY <2>1, <2>2, <2>5
  <2> QED
    BY <2>1, <2>3, <2>5, <2>6 DEF ReaderInv, ViewType
<1>4. ASSUME ReadTimes
      PROVE  ReaderInv'
  <2> DEFINE n == Cardinality(rows[view.run])
             v == [view EXCEPT !.times = Seqs(view.run)]
  <2>1. /\ view.run \in Runs /\ view.count <= n
        /\ \E m \in 0..n : view.shown = 1..m /\ view.count <= m
    BY <1>4 DEF ReadTimes, ReaderInv
  <2>2. n \in Nat /\ Seqs(view.run) = 1..n
    BY <2>1, SeqsOfLog
  <2>3. view' = v /\ rpc' = "render" /\ rows' = rows
    BY <1>4 DEF ReadTimes, vars
  <2>4. 1..n \in SUBSET Nat /\ view.shown \subseteq 1..n
    BY <2>1, <2>2
  <2>5. /\ v \in ViewType /\ v.run = view.run /\ v.count = view.count /\ v.times = 1..n
        /\ v.shown = view.shown
    BY <1>0, <2>2, <2>4 DEF ViewType
  <2> HIDE DEF v
  <2> QED
    BY <2>1, <2>3, <2>4, <2>5 DEF ReaderInv, ViewType
<1>5. ASSUME Render
      PROVE  ReaderInv'
  BY <1>5 DEF Render, ReaderInv, vars
<1>6. ASSUME Answered
      PROVE  ReaderInv'
  <2>1. NoView \in ViewType
    BY DEF NoView, ViewType
  <2> QED
    BY <1>6, <2>1 DEF Answered, ReaderInv, ViewType
<1>7. ASSUME UNCHANGED <<vars, readerVars>>
      PROVE  ReaderInv'
  BY <1>1, <1>7 DEF vars
<1> QED
  BY <1>1, <1>2, <1>3, <1>4, <1>5, <1>6, <1>7 DEF TimelineNext

\* build_timeline: its three queries never tear, whatever commits in between.
\* Every event shown has its time, the events are the log from 1 without a hole,
\* no fewer than were counted before, and they stay in the log.
THEOREM TimelineHolds == TimelineSpec => []TimelineTrue
<1>1. TimelineInit => ReaderInv
  <2>1. NoView \in ViewType
    BY DEF NoView, ViewType
  <2> QED
    BY <2>1 DEF TimelineInit, ReaderInv, ViewType
<1>2. StoreInv /\ ReaderInv /\ [TimelineNext]_<<vars, readerVars>> => ReaderInv'
  BY ReaderStep
<1>3. StoreInv /\ ReaderInv => TimelineTrue
  <2> SUFFICES ASSUME StoreInv, ReaderInv, rpc = "rendered"
               PROVE  /\ view.shown = 1..Cardinality(view.shown)
                      /\ Cardinality(view.shown) >= view.count
                      /\ view.shown \subseteq Seqs(view.run)
    BY DEF TimelineTrue, ReaderInv
  <2> DEFINE len == Cardinality(rows[view.run])
  <2>1. view.run \in Runs /\ \E n \in 0..len : view.shown = 1..n /\ view.count <= n
    BY DEF ReaderInv
  <2>2. PICK n \in 0..len : view.shown = 1..n /\ view.count <= n
    BY <2>1
  <2>3. len \in Nat /\ Seqs(view.run) = 1..len
    BY <2>1, SeqsOfLog
  <2>4. n \in Nat /\ n <= len /\ view.count \in Nat
    BY <2>2, <2>3 DEF ReaderInv
  <2>5. Cardinality(1..n) = n
    <3>1. Cardinality(1..n) = IF 1 > n THEN 0 ELSE n - 1 + 1
      <4>1. 1 \in Int /\ n \in Int
        BY <2>4
      <4> QED
        BY <4>1, FS_Interval, Zenon
    <3> QED
      BY <3>1, <2>4
  <2>6. Cardinality(view.shown) = n
    BY <2>2, <2>5
  <2>7. 1..n \subseteq 1..len
    BY <2>3, <2>4
  <2> QED
    BY <2>2, <2>3, <2>4, <2>6, <2>7
<1>4. TimelineSpec => []StoreInv
  BY StoreInvariant, ReadersOnlyRead, PTL
<1> QED
  BY <1>1, <1>2, <1>3, <1>4, PTL DEF TimelineSpec
=============================================================================
