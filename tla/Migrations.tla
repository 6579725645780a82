----------------------------- MODULE Migrations -----------------------------
(***************************************************************************)
(* store.apply_migrations in several processes at once (`phoenix migrate`, *)
(* chaos, eval all begin with it): the table of applied names, then each   *)
(* file in a transaction of its own under an advisory lock.                *)
(* Source: store.py, __main__._migrate; PostgreSQL is external.            *)
(***************************************************************************)
EXTENDS Integers

CONSTANTS
  Procs,   \* processes that migrate the same database
  NFiles,  \* the migrations, numbered in name order
  NoProc

ASSUME MigrationsAssumption == NFiles \in Nat \ {0} /\ NoProc \notin Procs

VARIABLES
  mpc,       \* mpc[p]: where apply_migrations of p is
  file,      \* file[p]: the migration it is at
  table,     \* schema_migrations exists
  names,     \* its rows
  advisory   \* the process whose transaction holds the advisory lock

migrationVars == <<mpc, file, table, names, advisory>>

MigrationsInit ==
  /\ mpc = [p \in Procs |-> "create"] /\ file = [p \in Procs |-> 1]
  /\ table = FALSE /\ names = {} /\ advisory = NoProc

Mgoto(p, from, to) == mpc[p] = from /\ mpc' = [mpc EXCEPT ![p] = to]
NextFile(p) == IF file[p] = NFiles THEN "returned" ELSE "lock"

\* CREATE TABLE IF NOT EXISTS, outside any lock: it looks, ...
CreateLooks(p) ==
  /\ Mgoto(p, "create", IF table THEN "lock" ELSE "creating")
  /\ UNCHANGED <<file, table, names, advisory>>

\* ... and creates; one created meanwhile is a unique violation in the catalog.
Creates(p) ==
  /\ Mgoto(p, "creating", IF table THEN "raised" ELSE "lock")
  /\ table' = TRUE
  /\ UNCHANGED <<file, names, advisory>>

\* Mutant: no advisory lock.
LockNothing(p) ==
  /\ Mgoto(p, "lock", "look")
  /\ UNCHANGED <<file, table, names, advisory>>

\* BEGIN; pg_advisory_xact_lock.
LockAdvisory(p) ==
  /\ advisory = NoProc /\ Mgoto(p, "lock", "look") /\ advisory' = p
  /\ UNCHANGED <<file, table, names>>

\* SELECT 1: a file already applied is skipped and the transaction ends.
LooksUp(p) ==
  /\ UNCHANGED <<table, names>>
  /\ \/ /\ file[p] \in names /\ Mgoto(p, "look", NextFile(p))
        /\ file' = [file EXCEPT ![p] = @ + 1] /\ advisory' = NoProc
     \/ /\ file[p] \notin names /\ Mgoto(p, "look", "apply")
        /\ UNCHANGED <<file, advisory>>

\* The file's statements, its row and COMMIT. They cannot run twice: the
\* statements or the primary key would fail.
Apply(p) ==
  /\ UNCHANGED table
  /\ \/ /\ file[p] \notin names /\ Mgoto(p, "apply", NextFile(p))
        /\ names' = names \cup {file[p]}
        /\ file' = [file EXCEPT ![p] = @ + 1]
     \/ /\ file[p] \in names /\ Mgoto(p, "apply", "duplicate")
        /\ UNCHANGED <<names, file>>
  /\ advisory' = NoProc

\* The process dies or its connection breaks: the server rolls back.
MigrationDies(p) ==
  /\ mpc[p] \notin {"returned", "raised", "duplicate"}
  /\ mpc' = [mpc EXCEPT ![p] = "raised"]
  /\ advisory' = IF advisory = p THEN NoProc ELSE advisory
  /\ UNCHANGED <<file, table, names>>

MigrationStep(p) ==
  CreateLooks(p) \/ Creates(p) \/ LockAdvisory(p) \/ LooksUp(p) \/ Apply(p) \/ MigrationDies(p)
-----------------------------------------------------------------------------
\* apply_migrations: "in name order, once each", with processes that migrate at
\* once and die half-way: what is applied is a prefix, nothing is applied twice,
\* and who returns finds all of them. (The CREATE TABLE is not under the lock:
\* on a fresh database the slower process may raise, and its command with it.)
MigratedOnce ==
  /\ \E n \in 0..NFiles : names = 1..n
  /\ \A p \in Procs : /\ mpc[p] # "duplicate"
                      /\ mpc[p] = "returned" => names = 1..NFiles
=============================================================================
