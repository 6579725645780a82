----------------------------- MODULE EventStore -----------------------------
(***************************************************************************)
(* store.append_event statement by statement: concurrent transactions      *)
(* append to the logs of a few runs in PostgreSQL's READ COMMITTED mode,   *)
(* serialised by a row lock on `runs`, with the primary key and the unique *)
(* key of `events` as the backstop. Engine takes the whole append as one   *)
(* step; this module shows that it may. Source: store.py.                  *)
(***************************************************************************)
EXTENDS Integers, FiniteSets

CONSTANTS
  Clients,   \* connections
  Runs,      \* run ids
  Existing,  \* those with a row in table runs
  Keys,      \* idempotency keys
  MaxTx,     \* bound: transactions begun per behaviour
  NULL

ASSUME ConstantsAssumption ==
  /\ Existing \subseteq Runs
  /\ MaxTx \in Nat
  /\ NULL \notin Clients \cup Runs \cup Keys

VARIABLES
  rows,     \* rows[r]: committed rows of events, as [seq, key]
  rowLock,  \* rowLock[r]: the connection that locks run r's row, or NULL
  tx,       \* tx[c]: the transaction of connection c and append_event's locals
  answers,  \* history: the AppendResults of committed transactions
  begun     \* how many transactions have begun

vars == <<rows, rowLock, tx, answers, begun>>

Row == [seq: Nat, key: Keys]
PCs == {"idle", "lock", "find", "number", "insert", "end", "conflict", "notfound"}
NoTx == [pc |-> "idle", run |-> NULL, key |-> NULL, seq |-> 0, inserted |-> FALSE]

\* The row an open transaction has inserted and not yet committed.
Pending(c) == tx[c].pc = "end" /\ tx[c].inserted

\* UNIQUE (run_id, seq) and UNIQUE (run_id, idem_key).
Clash(s, k, row) == row.seq = s \/ row.key = k

MaxSeq(S) == IF S = {} THEN 0 ELSE CHOOSE s \in {row.seq : row \in S} : \A row \in S : row.seq <= s

Step(c, from, to) == tx[c].pc = from /\ tx' = [tx EXCEPT ![c].pc = to]

Init ==
  /\ rows = [r \in Runs |-> {}]
  /\ rowLock = [r \in Runs |-> NULL]
  /\ tx = [c \in Clients |-> NoTx]
  /\ answers = {}
  /\ begun = 0

Begin(c, r, k) ==
  /\ tx[c].pc = "idle" /\ begun < MaxTx
  /\ tx' = [tx EXCEPT ![c] = [NoTx EXCEPT !.pc = "lock", !.run = r, !.key = k]]
  /\ begun' = begun + 1
  /\ UNCHANGED <<rows, rowLock, answers>>

\* Mutant: SELECT 1 FROM runs without FOR UPDATE.
LockRunFree(c) ==
  /\ Step(c, "lock", IF tx[c].run \in Existing THEN "find" ELSE "notfound")
  /\ UNCHANGED <<rows, rowLock, answers, begun>>

\* SELECT 1 FROM runs ... FOR UPDATE waits for the lock; no row: RunNotFoundError.
LockRun(c) ==
  \/ /\ tx[c].run \in Existing /\ rowLock[tx[c].run] = NULL
     /\ Step(c, "lock", "find")
     /\ rowLock' = [rowLock EXCEPT ![tx[c].run] = c]
     /\ UNCHANGED <<rows, answers, begun>>
  \/ /\ tx[c].run \notin Existing
     /\ Step(c, "lock", "notfound")
     /\ UNCHANGED <<rows, rowLock, answers, begun>>

\* Mutant: an existing key is reported as a new event.
FindForgets(c) ==
  /\ tx[c].pc = "find"
  /\ LET found == {row \in rows[tx[c].run] : row.key = tx[c].key} IN
       tx' = [tx EXCEPT ![c].pc = IF found = {} THEN "number" ELSE "end",
                        ![c].seq = MaxSeq(found), ![c].inserted = found # {}]
  /\ UNCHANGED <<rows, rowLock, answers, begun>>

\* SELECT seq ... WHERE idem_key: an existing event is the answer.
Find(c) ==
  /\ tx[c].pc = "find"
  /\ LET found == {row \in rows[tx[c].run] : row.key = tx[c].key} IN
       tx' = [tx EXCEPT ![c].pc = IF found = {} THEN "number" ELSE "end",
                        ![c].seq = MaxSeq(found)]
  /\ UNCHANGED <<rows, rowLock, answers, begun>>

\* Mutant: the numbers start at zero and the first two collide.
NumberFromZero(c) ==
  /\ tx[c].pc = "number"
  /\ tx' = [tx EXCEPT ![c].pc = "insert", ![c].seq = Cardinality(rows[tx[c].run])]
  /\ UNCHANGED <<rows, rowLock, answers, begun>>

\* Mutant: MAX(seq) + 1 without COALESCE is NULL for an empty log.
NumberNull(c) ==
  /\ tx[c].pc = "number"
  /\ tx' = [tx EXCEPT ![c].pc = "insert",
                      ![c].seq = IF rows[tx[c].run] = {} THEN NULL ELSE MaxSeq(rows[tx[c].run]) + 1]
  /\ UNCHANGED <<rows, rowLock, answers, begun>>

\* SELECT COALESCE(MAX(seq), 0) + 1.
Number(c) ==
  /\ tx[c].pc = "number"
  /\ tx' = [tx EXCEPT ![c].pc = "insert", ![c].seq = MaxSeq(rows[tx[c].run]) + 1]
  /\ UNCHANGED <<rows, rowLock, answers, begun>>

\* INSERT: waits for an open transaction with a clashing row, then raises a
\* unique violation if a clashing row is committed.
Insert(c) ==
  LET t == tx[c] IN
  /\ t.pc = "insert"
  /\ \A d \in Clients \ {c} :
       ~(Pending(d) /\ tx[d].run = t.run /\ Clash(t.seq, t.key, tx[d]))
  /\ tx' = [tx EXCEPT ![c] =
              IF \E row \in rows[t.run] : Clash(t.seq, t.key, row)
              THEN [@ EXCEPT !.pc = "conflict"]
              ELSE [@ EXCEPT !.pc = "end", !.inserted = TRUE]]
  /\ UNCHANGED <<rows, rowLock, answers, begun>>

Unlock(c) == rowLock' = [r \in Runs |-> IF rowLock[r] = c THEN NULL ELSE rowLock[r]]

\* COMMIT, by append_event itself or by the caller's transaction around it.
Commit(c) ==
  LET t == tx[c] IN
  /\ t.pc = "end"
  /\ rows' = [rows EXCEPT ![t.run] =
                IF t.inserted THEN @ \cup {[seq |-> t.seq, key |-> t.key]} ELSE @]
  /\ answers' = answers \cup {[tx |-> c, run |-> t.run, key |-> t.key, seq |-> t.seq,
                               inserted |-> t.inserted, at |-> Cardinality(answers)]}
  /\ tx' = [tx EXCEPT ![c] = NoTx]
  /\ Unlock(c)
  /\ UNCHANGED begun

\* Mutant: instead of a rollback, the event is deleted by its key.
RollbackDeletes(c) ==
  /\ tx[c].pc # "idle"
  /\ rows' = [rows EXCEPT ![tx[c].run] = {row \in @ : row.key # tx[c].key}]
  /\ tx' = [tx EXCEPT ![c] = NoTx]
  /\ Unlock(c)
  /\ UNCHANGED <<answers, begun>>

\* An exception, a cancelled task or a dead client: the transaction rolls back.
Rollback(c) ==
  /\ tx[c].pc # "idle"
  /\ tx' = [tx EXCEPT ![c] = NoTx]
  /\ Unlock(c)
  /\ UNCHANGED <<rows, answers, begun>>

Next ==
  \E c \in Clients :
    \/ \E r \in Runs, k \in Keys : Begin(c, r, k)
    \/ LockRun(c) \/ Find(c) \/ Number(c) \/ Insert(c) \/ Commit(c) \/ Rollback(c)

Spec == Init /\ [][Next]_vars
-----------------------------------------------------------------------------
\* The type invariant.
TypeOK ==
  /\ rows \in [Runs -> SUBSET Row]
  /\ rowLock \in [Runs -> Clients \cup {NULL}]
  /\ tx \in [Clients -> [pc: PCs, run: Runs \cup {NULL}, key: Keys \cup {NULL},
                         seq: Nat, inserted: BOOLEAN]]
  /\ begun \in Nat

\* append_event: "seq gapless". Committed rows are numbered 1..n, also when
\* transactions in between rolled back.
SeqsGapless == \A r \in Runs : {row.seq : row \in rows[r]} = 1..Cardinality(rows[r])

\* append_event: the key check is race-free, so the UNIQUE constraint "remains as
\* the backstop" and no insert ever meets it.
BackstopUnused == \A c \in Clients : tx[c].pc # "conflict"

\* What an append reported is in the log for good: its key has that seq, and
\* only one append of a key was told that it inserted the event.
AnswersTrue ==
  \A x \in answers :
    /\ [seq |-> x.seq, key |-> x.key] \in rows[x.run]
    /\ \A y \in answers :
         x # y /\ x.run = y.run /\ x.key = y.key => ~(x.inserted /\ y.inserted)

\* Rows become visible in the order of their seq: what a reader replayed stays a
\* prefix of what the next reader replays.
CommitsInOrder ==
  [][\A r \in Runs :
       /\ rows[r] \subseteq rows'[r]
       /\ \A old \in rows[r], new \in rows'[r] \ rows[r] : old.seq < new.seq]_vars
=============================================================================
