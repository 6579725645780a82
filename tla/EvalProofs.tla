----------------------------- MODULE EvalProofs -----------------------------
(***************************************************************************)
(* Proofs about the migrations and the eval command, for any number of     *)
(* migrating processes and files, and any suite, budget and prices.        *)
(***************************************************************************)
EXTENDS EvalRun, InductionFacts, FiniteSetTheorems

MigrationPCs == {"create", "creating", "lock", "look", "apply", "returned", "raised", "duplicate"}

\* A process works on the first file it has not seen applied; inside the advisory
\* lock it is alone, and what it saw missing is still missing.
ProcOK(p) ==
  /\ advisory = p <=> mpc[p] \in {"look", "apply"}
  /\ mpc[p] \in {"create", "creating", "lock", "look", "apply"} =>
       file[p] \in 1..NFiles /\ 1..(file[p] - 1) \subseteq names
  /\ mpc[p] = "apply" => file[p] \notin names
  /\ mpc[p] # "duplicate"
  /\ mpc[p] = "returned" => names = 1..NFiles

MigrationInv ==
  /\ mpc \in [Procs -> MigrationPCs] /\ file \in [Procs -> 1..(NFiles + 1)]
  /\ \E n \in 0..NFiles : names = 1..n
  /\ \A p \in Procs : ProcOK(p)

\* A process moves on without applying a file.
LEMMA MigrationMoves ==
  ASSUME MigrationInv, NEW p \in Procs, NEW to \in MigrationPCs,
         mpc' = [mpc EXCEPT ![p] = to], names' = names,
         file' = file \/ (file' = [file EXCEPT ![p] = file[p] + 1] /\ file[p] \in 1..NFiles),
         \/ advisory' = advisory
         \/ advisory = NoProc /\ advisory' = p
         \/ advisory = p /\ advisory' = NoProc,
         advisory' = p <=> to \in {"look", "apply"},
         to \in {"create", "creating", "lock", "look", "apply"} =>
           file'[p] \in 1..NFiles /\ 1..(file'[p] - 1) \subseteq names,
         to = "apply" => file'[p] \notin names,
         to # "duplicate", to = "returned" => names = 1..NFiles
  PROVE  MigrationInv'
<1>0. NFiles \in Nat /\ NoProc \notin Procs
  BY MigrationsAssumption
<1>1. /\ mpc \in [Procs -> MigrationPCs] /\ file \in [Procs -> 1..(NFiles + 1)]
      /\ \A q \in Procs : ProcOK(q)
  BY DEF MigrationInv
<1>2. mpc' \in [Procs -> MigrationPCs] /\ mpc'[p] = to /\ \A q \in Procs \ {p} : mpc'[q] = mpc[q]
  BY <1>1
<1>3. file' \in [Procs -> 1..(NFiles + 1)] /\ \A q \in Procs \ {p} : file'[q] = file[q]
  <2>1. CASE file' = file
    BY <1>1, <2>1
  <2>2. CASE file' = [file EXCEPT ![p] = file[p] + 1] /\ file[p] \in 1..NFiles
    <3>1. file[p] + 1 \in 1..(NFiles + 1)
      BY <1>0, <2>2
    <3> QED
      BY <1>1, <2>2, <3>1
  <2> QED
    BY <2>1, <2>2
<1>4. ProcOK(p)'
  BY <1>2 DEF ProcOK
<1>5. ASSUME NEW q \in Procs \ {p} PROVE ProcOK(q)'
  <2>1. ProcOK(q) /\ mpc'[q] = mpc[q] /\ file'[q] = file[q]
    BY <1>1, <1>2, <1>3
  <2>2. advisory' = q <=> advisory = q
    BY <1>0
  <2> QED
    BY <2>1, <2>2 DEF ProcOK
<1>6. \E n \in 0..NFiles : names' = 1..n
  BY DEF MigrationInv
<1> QED
  BY <1>2, <1>3, <1>4, <1>5, <1>6 DEF MigrationInv

\* What is applied is exactly the files before the first missing one.
LEMMA FirstMissing ==
  ASSUME MigrationInv, NEW k \in 1..NFiles, 1..(k - 1) \subseteq names, k \notin names
  PROVE  names = 1..(k - 1) /\ names \cup {k} = 1..k
<1>0. NFiles \in Nat
  BY MigrationsAssumption
<1>1. PICK n \in 0..NFiles : names = 1..n
  BY DEF MigrationInv
<1>2. k > n
  BY <1>0, <1>1
<1>3. k - 1 <= n
  <2>1. CASE k = 1
    BY <1>0, <1>1, <2>1
  <2>2. CASE k # 1
    <3>1. k - 1 \in 1..(k - 1)
      BY <1>0, <2>2
    <3> QED
      BY <1>0, <1>1, <3>1
  <2> QED
    BY <2>1, <2>2
<1>4. n = k - 1
  BY <1>0, <1>2, <1>3
<1> QED
  BY <1>0, <1>1, <1>4

LEMMA FileApplied ==
  ASSUME MigrationInv, NEW p \in Procs, Apply(p)
  PROVE  MigrationInv'
<1>0. NFiles \in Nat /\ NoProc \notin Procs
  BY MigrationsAssumption
<1>1. /\ mpc \in [Procs -> MigrationPCs] /\ file \in [Procs -> 1..(NFiles + 1)]
      /\ \A q \in Procs : ProcOK(q)
  BY DEF MigrationInv
<1>2. mpc[p] = "apply"
  BY DEF Apply, Mgoto
<1>3. /\ advisory = p /\ file[p] \in 1..NFiles /\ file[p] \notin names
      /\ 1..(file[p] - 1) \subseteq names
  BY <1>1, <1>2 DEF ProcOK
<1>4. /\ mpc' = [mpc EXCEPT ![p] = NextFile(p)] /\ names' = names \cup {file[p]}
      /\ file' = [file EXCEPT ![p] = file[p] + 1] /\ advisory' = NoProc
  BY <1>3 DEF Apply, Mgoto
<1>5. PICK k \in 1..NFiles : k = file[p]
  BY <1>3
<1>6. names' = 1..k
  BY <1>3, <1>4, <1>5, FirstMissing
<1>7. k \in Nat /\ k + 1 \in 1..(NFiles + 1) /\ k \in 0..NFiles
      /\ (k # NFiles => k + 1 \in 1..NFiles) /\ (k + 1) - 1 = k
  BY <1>0
<1>8. /\ file' \in [Procs -> 1..(NFiles + 1)] /\ file'[p] = k + 1
      /\ \A q \in Procs \ {p} : file'[q] = file[q]
  BY <1>1, <1>4, <1>5, <1>7
<1>9. NextFile(p) = IF k = NFiles THEN "returned" ELSE "lock"
  BY <1>5 DEF NextFile
<1>10. NextFile(p) \in MigrationPCs
  BY <1>9 DEF MigrationPCs
<1>11. /\ mpc' \in [Procs -> MigrationPCs] /\ mpc'[p] = NextFile(p)
       /\ \A q \in Procs \ {p} : mpc'[q] = mpc[q]
  BY <1>1, <1>4, <1>10
<1>12. ProcOK(p)'
  BY <1>0, <1>4, <1>6, <1>7, <1>8, <1>9, <1>11 DEF ProcOK
<1>13. ASSUME NEW q \in Procs \ {p} PROVE ProcOK(q)'
  <2>1. ProcOK(q) /\ mpc'[q] = mpc[q] /\ file'[q] = file[q]
    BY <1>1, <1>8, <1>11
  <2>2. mpc[q] \notin {"look", "apply"} /\ advisory' # q
    BY <1>0, <1>3, <1>4, <2>1 DEF ProcOK
  <2>3. mpc[q] # "returned"
    BY <1>3, <2>1 DEF ProcOK
  <2>4. names \subseteq names'
    BY <1>4
  <2> QED
    BY <2>1, <2>2, <2>3, <2>4 DEF ProcOK
<1> QED
  BY <1>6, <1>7, <1>8, <1>11, <1>12, <1>13 DEF MigrationInv

LEMMA FileSkipped ==
  ASSUME MigrationInv, NEW p \in Procs, LooksUp(p)
  PROVE  MigrationInv'
<1>0. NFiles \in Nat /\ NoProc \notin Procs
  BY MigrationsAssumption
<1>1. mpc[p] = "look" /\ ProcOK(p) /\ file \in [Procs -> 1..(NFiles + 1)] /\ names' = names
  BY DEF LooksUp, Mgoto, MigrationInv
<1>2. advisory = p /\ file[p] \in 1..NFiles /\ 1..(file[p] - 1) \subseteq names
  BY <1>1 DEF ProcOK
<1>3. CASE file[p] \notin names
  <2>1. mpc' = [mpc EXCEPT ![p] = "apply"] /\ file' = file /\ advisory' = advisory
    BY <1>3 DEF LooksUp, Mgoto
  <2>2. "apply" \in MigrationPCs
    BY DEF MigrationPCs
  <2> QED
    BY <1>1, <1>2, <1>3, <2>1, <2>2, MigrationMoves
<1>4. CASE file[p] \in names
  <2>1. PICK k \in 1..NFiles : k = file[p]
    BY <1>2
  <2>2. /\ mpc' = [mpc EXCEPT ![p] = NextFile(p)] /\ advisory' = NoProc
        /\ file' = [file EXCEPT ![p] = file[p] + 1]
    BY <1>4 DEF LooksUp, Mgoto
  <2>3. PICK n \in 0..NFiles : names = 1..n
    BY DEF MigrationInv
  <2>4. k <= n /\ 1..k \subseteq names /\ (k = NFiles => names = 1..NFiles) /\ (k + 1) - 1 = k
        /\ (k # NFiles => k + 1 \in 1..NFiles)
    BY <1>0, <1>4, <2>1, <2>3
  <2>5. file'[p] = k + 1
    BY <1>1, <2>1, <2>2
  <2>6. PICK to : to = NextFile(p)
    OBVIOUS
  <2>7. to \in MigrationPCs /\ to = IF k = NFiles THEN "returned" ELSE "lock"
    BY <2>1, <2>6 DEF MigrationPCs, NextFile
  <2>8. p # NoProc
    BY <1>0
  <2> QED
    BY <1>1, <1>2, <2>2, <2>4, <2>5, <2>6, <2>7, <2>8, MigrationMoves
<1> QED
  BY <1>3, <1>4

LEMMA MigrationNext ==
  ASSUME MigrationInv, NEW p \in Procs, MigrationStep(p)
  PROVE  MigrationInv'
<1>0. NFiles \in Nat /\ NoProc \notin Procs
  BY MigrationsAssumption
<1>1. ProcOK(p) /\ mpc[p] \in MigrationPCs
  BY DEF MigrationInv
<1>2. {"create", "creating", "lock", "look", "apply", "returned", "raised"} \subseteq MigrationPCs
  BY DEF MigrationPCs
<1>3. CASE CreateLooks(p)
  <2>1. PICK to \in {"lock", "creating"} : mpc' = [mpc EXCEPT ![p] = to]
    BY <1>3 DEF CreateLooks, Mgoto
  <2>2. mpc[p] = "create" /\ UNCHANGED <<file, names, advisory>>
    BY <1>3 DEF CreateLooks, Mgoto
  <2> QED
    BY <1>1, <1>2, <2>1, <2>2, MigrationMoves DEF ProcOK
<1>4. CASE Creates(p)
  <2>1. PICK to \in {"lock", "raised"} : mpc' = [mpc EXCEPT ![p] = to]
    BY <1>4 DEF Creates, Mgoto
  <2>2. mpc[p] = "creating" /\ UNCHANGED <<file, names, advisory>>
    BY <1>4 DEF Creates, Mgoto
  <2> QED
    BY <1>1, <1>2, <2>1, <2>2, MigrationMoves DEF ProcOK
<1>5. CASE LockAdvisory(p)
  <2>1. /\ mpc[p] = "lock" /\ mpc' = [mpc EXCEPT ![p] = "look"] /\ advisory = NoProc /\ advisory' = p
        /\ UNCHANGED <<file, names>>
    BY <1>5 DEF LockAdvisory, Mgoto
  <2> QED
    BY <1>1, <1>2, <2>1, MigrationMoves DEF ProcOK
<1>6. CASE MigrationDies(p)
  <2>1. /\ mpc' = [mpc EXCEPT ![p] = "raised"] /\ UNCHANGED <<file, names>>
        /\ advisory' = IF advisory = p THEN NoProc ELSE advisory
    BY <1>6 DEF MigrationDies
  <2> QED
    BY <1>0, <1>2, <2>1, MigrationMoves
<1> QED
  BY <1>3, <1>4, <1>5, <1>6, FileApplied, FileSkipped DEF MigrationStep

LEMMA MigrationsStart == MigrationsInit => MigrationInv
<1> SUFFICES ASSUME MigrationsInit PROVE MigrationInv
  OBVIOUS
<1>1. NFiles \in Nat \ {0} /\ NoProc \notin Procs
  BY MigrationsAssumption
<1>2. /\ mpc = [p \in Procs |-> "create"] /\ file = [p \in Procs |-> 1]
      /\ names = {} /\ advisory = NoProc
  BY DEF MigrationsInit
<1>3. 0 \in 0..NFiles /\ 1..0 = {} /\ 1 \in 1..NFiles /\ 1 \in 1..(NFiles + 1) /\ 1 - 1 = 0
  BY <1>1
<1>4. mpc \in [Procs -> MigrationPCs] /\ file \in [Procs -> 1..(NFiles + 1)]
  BY <1>2, <1>3 DEF MigrationPCs
<1>5. \A p \in Procs : ProcOK(p)
  BY <1>1, <1>2, <1>3 DEF ProcOK
<1> QED
  BY <1>2, <1>3, <1>4, <1>5 DEF MigrationInv

\* The eval command's own steps leave the migrations alone.
LEMMA EvalCases ==
  ASSUME [EvalNext]_allVars
  PROVE  \/ (\E p \in Procs : MigrationStep(p)) /\ UNCHANGED evalVars
         \/ UNCHANGED migrationVars
<1>1. CASE UNCHANGED allVars
  BY <1>1 DEF allVars
<1>2. CASE \E p \in Procs : MigrationStep(p) /\ UNCHANGED evalVars
  BY <1>2
<1>3. CASE MigrationFailed
  BY <1>3, Zenon DEF MigrationFailed, OfMigrations
<1>4. CASE Configure
  BY <1>4, Zenon DEF Configure, OfMigrations
<1>5. CASE WaitTerminal
  BY <1>5, Zenon DEF WaitTerminal, OfMigrations
<1>6. CASE GradeEvents
  BY <1>6, Zenon DEF GradeEvents, OfMigrations
<1>7. CASE GradeRaises
  BY <1>7, Zenon DEF GradeRaises, OfMigrations
<1>8. CASE EvalShutdown
  BY <1>8, Zenon DEF EvalShutdown, OfMigrations
<1>9. CASE Report
  BY <1>9, Zenon DEF Report, OfMigrations
<1>10. CASE WorkerDies
  BY <1>10, Zenon DEF WorkerDies, OfMigrations
<1>11. CASE GradeRow
  BY <1>11, Zenon DEF GradeRow, OfMigrations
<1>12. CASE \E i \in DOMAIN Suite : Submit(i)
  BY <1>12, Zenon DEF Submit, OfMigrations
<1>13. CASE \E t \in Tasks : WorkerStep(t)
  BY <1>13, Zenon DEF WorkerStep, OfMigrations
<1>14. CASE \E t \in Tasks : PlatformFails(t)
  BY <1>14, Zenon DEF PlatformFails, OfMigrations
<1> QED
  BY <1>1, <1>2, <1>3, <1>4, <1>5, <1>6, <1>7, <1>8, <1>9, <1>10, <1>11, <1>12, <1>13, <1>14, Zenon DEF EvalNext

\* apply_migrations applies the files "in name order, once each", for any number of
\* processes that migrate at once and die anywhere.
THEOREM AppliedOnce == EvalSpec => []MigratedOnce
<1>1. EvalInit => MigrationInv
  BY MigrationsStart DEF EvalInit
<1>2. MigrationInv /\ [EvalNext]_allVars => MigrationInv'
  <2> SUFFICES ASSUME MigrationInv, [EvalNext]_allVars PROVE MigrationInv'
    OBVIOUS
  <2>1. CASE UNCHANGED migrationVars
    BY <2>1 DEF migrationVars, MigrationInv, ProcOK
  <2> QED
    BY <2>1, EvalCases, MigrationNext
<1>3. MigrationInv => MigratedOnce
  BY DEF MigrationInv, ProcOK, MigratedOnce
<1> QED
  BY <1>1, <1>2, <1>3, PTL DEF EvalSpec
-----------------------------------------------------------------------------
\* The eval command's state.
Logged == {"check", "draft", "run", "good", "bad", "finish"}
RunStatus == {"absent", "running"} \cup TERMINAL
RunRow == [status: RunStatus, log: Seq(Logged), spent: Nat, infra: BOOLEAN]

EvalTypes ==
  /\ args \in [real: BOOLEAN, enabled: BOOLEAN, cap: Nat]
  /\ run \in [Tasks -> RunRow]

LEMMA SuiteFacts ==
  /\ Len(Suite) \in Nat /\ DOMAIN Suite = 1..Len(Suite) /\ \A i \in 1..Len(Suite) : Suite[i] \in Tasks
  /\ Cardinality(Tasks) = Len(Suite)
<1>1. /\ Len(Suite) \in Nat /\ DOMAIN Suite = 1..Len(Suite)
      /\ \A i \in 1..Len(Suite) : Suite[i] \in Tasks
  BY EvalAssumption DEF Tasks
<1>2. Suite \in Bijection(1..Len(Suite), Tasks)
  BY <1>1, EvalAssumption DEF Tasks, Bijection, Injection, Surjection, IsInjective
<1>3. Cardinality(Tasks) = Len(Suite)
  BY <1>1, <1>2, FS_CountingElements DEF ExistsBijection
<1> QED
  BY <1>1, <1>3

LEMMA Joined ==
  ASSUME NEW S, NEW a \in Seq(S), NEW b \in Seq(S)
  PROVE  /\ a \o b \in Seq(S) /\ Len(a \o b) = Len(a) + Len(b)
         /\ \A k \in 1..(Len(a) + Len(b)) :
              (a \o b)[k] = IF k <= Len(a) THEN a[k] ELSE b[k - Len(a)]
  OBVIOUS

\* mock_script ends with the solution, a run of it and the finish, and has no other finish.
LEMMA ScriptFacts ==
  ASSUME NEW t \in Tasks
  PROVE  \E n \in Nat :
           /\ n >= 4 /\ mock_script(t) \in Seq(Logged) /\ Len(mock_script(t)) = n
           /\ mock_script(t)[n] = "finish" /\ mock_script(t)[n - 1] = "run"
           /\ mock_script(t)[n - 2] = IF Outcome[t] = "wrong" THEN "bad" ELSE "good"
           /\ \A k \in 1..(n - 1) : mock_script(t)[k] # "finish"
<1>1. 2 * Drafts(t) \in Nat
  BY EvalAssumption DEF Drafts
<1>2. PICK d \in Nat : d = 2 * Drafts(t)
  BY <1>1
<1> DEFINE D == [i \in 1..d |-> IF i % 2 = 1 THEN "draft" ELSE "run"]
           last == IF Outcome[t] = "wrong" THEN "bad" ELSE "good"
           E == <<last, "run", "finish">>
           H == <<"check">> \o D
<1>3. mock_script(t) = H \o E
  BY <1>2 DEF mock_script
<1>4. D \in Seq(Logged) /\ Len(D) = d /\ \A i \in 1..d : D[i] # "finish"
  BY DEF Logged
<1>5. last \in Logged /\ last # "finish"
  BY DEF Logged
<1> HIDE DEF D, last
<1>6. /\ E \in Seq(Logged) /\ Len(E) = 3 /\ E[1] = last /\ E[2] = "run" /\ E[3] = "finish"
  BY <1>5 DEF Logged
<1>7. <<"check">> \in Seq(Logged) /\ Len(<<"check">>) = 1
  BY DEF Logged
<1>8. /\ H \in Seq(Logged) /\ Len(H) = d + 1
      /\ \A k \in 1..(d + 1) : H[k] # "finish"
  <2>1. \A k \in 1..(d + 1) : H[k] = IF k <= 1 THEN "check" ELSE D[k - 1]
    BY <1>4, <1>7
  <2>2. \A k \in 1..(d + 1) : ~(k <= 1) => k - 1 \in 1..d
    OBVIOUS
  <2>3. H \in Seq(Logged) /\ Len(H) = d + 1
    BY <1>4, <1>7
  <2> HIDE DEF H
  <2> QED
    BY <1>4, <2>1, <2>2, <2>3
<1> HIDE DEF H, E
<1>9. /\ H \o E \in Seq(Logged) /\ Len(H \o E) = d + 4
      /\ \A k \in 1..(d + 4) : (H \o E)[k] = IF k <= d + 1 THEN H[k] ELSE E[k - (d + 1)]
  <2>1. PICK m \in Nat, n \in Nat : m = d + 1 /\ n = 3 /\ m + n = d + 4
    OBVIOUS
  <2>2. Len(H) = m /\ Len(E) = n /\ H \in Seq(Logged) /\ E \in Seq(Logged)
    BY <1>6, <1>8, <2>1
  <2>3. /\ H \o E \in Seq(Logged) /\ Len(H \o E) = m + n
        /\ \A k \in 1..(m + n) : (H \o E)[k] = IF k <= m THEN H[k] ELSE E[k - m]
    BY <2>2, Joined, Zenon
  <2> QED
    BY <2>1, <2>3
<1>10. /\ (H \o E)[d + 4] = "finish" /\ (H \o E)[d + 3] = "run" /\ (H \o E)[d + 2] = last
  <2>1. /\ d + 4 \in 1..(d + 4) /\ d + 3 \in 1..(d + 4) /\ d + 2 \in 1..(d + 4)
        /\ (d + 4) - (d + 1) = 3 /\ (d + 3) - (d + 1) = 2 /\ (d + 2) - (d + 1) = 1
        /\ ~(d + 4 <= d + 1) /\ ~(d + 3 <= d + 1) /\ ~(d + 2 <= d + 1)
    OBVIOUS
  <2> QED
    BY <1>6, <1>9, <2>1
<1>11. ASSUME NEW k \in 1..(d + 3) PROVE (H \o E)[k] # "finish"
  <2>1. k \in 1..(d + 4)
    OBVIOUS
  <2>2. CASE k <= d + 1
    <3>1. k \in 1..(d + 1)
      BY <2>2
    <3>2. (H \o E)[k] = H[k]
      BY <1>9, <2>1, <2>2
    <3> QED
      BY <1>8, <3>1, <3>2
  <2>3. CASE k = d + 2
    BY <1>5, <1>10, <2>3
  <2>4. CASE k = d + 3
    BY <1>10, <2>4
  <2>5. k <= d + 1 \/ k = d + 2 \/ k = d + 3
    OBVIOUS
  <2> QED
    BY <2>2, <2>3, <2>4, <2>5
<1>12. PICK n \in Nat : n = d + 4 /\ n - 1 = d + 3 /\ n - 2 = d + 2 /\ n >= 4
  OBVIOUS
<1> QED
  BY <1>3, <1>9, <1>10, <1>11, <1>12 DEF last

\* MockAction: the script in order, its last action from then on.
LEMMA MockFacts ==
  ASSUME NEW t \in Tasks, NEW n \in Nat
  PROVE  /\ MockAction(t, n) \in Logged
         /\ n < Len(mock_script(t)) => MockAction(t, n) = mock_script(t)[n + 1]
<1>1. PICK m \in Nat : m >= 4 /\ mock_script(t) \in Seq(Logged) /\ Len(mock_script(t)) = m
  BY ScriptFacts
<1> DEFINE s == mock_script(t)
<1>2. PICK k \in 1..m : k = (IF n < m THEN n + 1 ELSE m) /\ (n < m => k = n + 1)
  BY <1>1
<1> HIDE DEF s
<1>3. MockAction(t, n) = s[k]
  BY <1>1, <1>2 DEF MockAction, s
<1> QED
  BY <1>1, <1>2, <1>3 DEF s

\* A row updated at a status and the rest of what a step may change is a row.
LEMMA RowUpdates ==
  ASSUME NEW r \in RunRow, NEW st \in RunStatus, NEW l \in Seq(Logged), NEW c \in Nat
  PROVE  /\ [r EXCEPT !.status = st] \in RunRow
         /\ [r EXCEPT !.status = st, !.infra = TRUE] \in RunRow
         /\ [r EXCEPT !.log = l, !.spent = c, !.status = st] \in RunRow
         /\ [r EXCEPT !.log = l, !.spent = c, !.status = st].log = l
         /\ [r EXCEPT !.log = l, !.spent = c, !.status = st].spent = c
         /\ [r EXCEPT !.log = l, !.spent = c, !.status = st].status = st
         /\ [r EXCEPT !.log = l, !.spent = c, !.status = st].infra = r.infra
  BY DEF RunRow

\* What an answer may cost, the mock's too.
Prices == Costs \cup {MOCK_COST}

\* What the next step of a run leaves: an end, or one more action at its price.
Grows(t, s) ==
  /\ s \in RunRow /\ s.infra = run[t].infra
  /\ \/ /\ s.log = run[t].log /\ s.spent = run[t].spent
        /\ s.status \in {"failed", "budget_exceeded"}
     \/ \E a \in Logged, c \in Nat :
          /\ s.log = Append(run[t].log, a) /\ s.spent = run[t].spent + c
          /\ s.status = IF a = "finish" THEN "succeeded" ELSE "running"
          /\ run[t].spent < PerRun /\ c \in Prices
          /\ ~args.real => a = MockAction(t, Len(run[t].log))

LEMMA CommitFacts ==
  ASSUME EvalTypes, NEW t \in Tasks, WorkerStep(t)
  PROVE  \E s : run' = [run EXCEPT ![t] = s] /\ Grows(t, s)
<1>1. PICK r : r = run[t]
  OBVIOUS
<1>2. r \in RunRow /\ r.log \in Seq(Logged) /\ r.spent \in Nat
  BY <1>1 DEF EvalTypes, RunRow
<1>3. {"running", "succeeded", "failed", "budget_exceeded"} \subseteq RunStatus
  BY DEF RunStatus, TERMINAL
<1>4. r.status = "running"
  BY <1>1, Zenon DEF WorkerStep
<1>5. PerRun \in Nat /\ Prices \subseteq Nat /\ Costs \subseteq Prices /\ MOCK_COST \in Prices
  BY EvalAssumption DEF Prices
<1>6. ASSUME NEW st \in {"failed", "budget_exceeded"} PROVE Grows(t, Ends(r, st))
  BY <1>1, <1>2, <1>3 DEF RunRow, Ends, Grows
<1>7. ASSUME NEW a \in Logged, NEW c \in Nat, c \in Prices, r.spent < PerRun,
             ~args.real => a = MockAction(t, Len(r.log))
      PROVE  Grows(t, Acts(r, a, c))
  <2>1. PICK l, m, st : /\ l = Append(r.log, a) /\ m = r.spent + c
                        /\ st = (IF a = "finish" THEN "succeeded" ELSE r.status)
    OBVIOUS
  <2>2. l \in Seq(Logged) /\ m \in Nat /\ st \in RunStatus
    BY <1>2, <1>3, <1>4, <2>1
  <2>3. PICK s : s = Acts(r, a, c)
    OBVIOUS
  <2>4. s = [r EXCEPT !.log = l, !.spent = m, !.status = st]
    BY <2>1, <2>3 DEF Acts
  <2>5. s \in RunRow /\ s.log = l /\ s.spent = m /\ s.status = st /\ s.infra = r.infra
    BY <1>2, <2>2, <2>4 DEF RunRow
  <2> QED
    BY <1>1, <1>4, <1>7, <2>1, <2>3, <2>5 DEF Grows
<1>8. CASE Commit(t, Ends(r, "budget_exceeded")) \/ Commit(t, Ends(r, "failed"))
  BY <1>6, <1>8 DEF Commit
<1>9. CASE r.spent < PerRun /\ args.real /\ \E a \in {"good", "bad", "finish"}, c \in Costs : Commit(t, Acts(r, a, c))
  <2>1. PICK a \in {"good", "bad", "finish"}, c \in Costs : Commit(t, Acts(r, a, c))
    BY <1>9
  <2>2. a \in Logged /\ c \in Prices /\ c \in Nat
    BY <1>5 DEF Logged
  <2> QED
    BY <1>7, <1>9, <2>1, <2>2 DEF Commit
<1>10. CASE r.spent < PerRun /\ Commit(t, Acts(r, MockAction(t, Len(r.log)), MOCK_COST))
  <2>1. Len(r.log) \in Nat
    BY <1>2
  <2>2. MockAction(t, Len(r.log)) \in Logged /\ MOCK_COST \in Prices
    BY <1>5, <2>1, MockFacts
  <2> QED
    BY <1>5, <1>7, <1>10, <2>2 DEF Commit
<1> QED
  BY <1>1, <1>8, <1>9, <1>10, Zenon DEF WorkerStep

\* How the runs change in one step.
RunStep ==
  \/ run' = run
  \/ \E t \in Tasks : /\ epc = "submit" /\ run[t].status = "absent"
                      /\ run' = [run EXCEPT ![t].status = "running"]
  \/ \E t \in Tasks : /\ workers > 0 /\ run[t].status = "running"
                      /\ \E s : run' = [run EXCEPT ![t] = s] /\ Grows(t, s)
  \/ \E t \in Tasks : /\ workers > 0 /\ run[t].status = "running"
                      /\ run' = [run EXCEPT ![t].status = "failed", ![t].infra = TRUE]

LEMMA RunSteps ==
  ASSUME EvalTypes, [EvalNext]_allVars
  PROVE  args' = args /\ RunStep
<1>1. CASE UNCHANGED allVars
  BY <1>1 DEF allVars, evalVars, RunStep
<1>2. CASE \E p \in Procs : MigrationStep(p) /\ UNCHANGED evalVars
  BY <1>2 DEF evalVars, RunStep
<1>3. CASE MigrationFailed \/ Configure \/ WaitTerminal \/ GradeEvents \/ GradeRaises
  BY <1>3 DEF MigrationFailed, Configure, WaitTerminal, GradeEvents, GradeRaises, RunStep
<1>4. CASE EvalShutdown \/ Report \/ WorkerDies \/ GradeRow
  BY <1>4 DEF EvalShutdown, Report, WorkerDies, GradeRow, RunStep
<1>5. CASE \E i \in DOMAIN Suite : Submit(i)
  <2>1. PICK i \in DOMAIN Suite : Submit(i)
    BY <1>5
  <2>2. Suite[i] \in Tasks
    BY DEF Tasks
  <2> QED
    BY <2>1, <2>2 DEF Submit, RunStep
<1>6. CASE \E t \in Tasks : WorkerStep(t)
  <2>1. PICK t \in Tasks : WorkerStep(t)
    BY <1>6
  <2>2. args' = args /\ workers > 0 /\ run[t].status = "running"
    BY <2>1, Zenon DEF WorkerStep
  <2> QED
    BY <2>1, <2>2, CommitFacts DEF RunStep
<1>7. CASE \E t \in Tasks : PlatformFails(t)
  BY <1>7, Zenon DEF PlatformFails, RunStep
<1> QED
  BY <1>1, <1>2, <1>3, <1>4, <1>5, <1>6, <1>7, Zenon DEF EvalNext

LEMMA TypesStart == EvalInit => EvalTypes
<1> SUFFICES ASSUME EvalInit PROVE EvalTypes
  OBVIOUS
<1>1. NoRun \in RunRow
  <2>1. <<>> \in Seq(Logged) /\ 0 \in Nat /\ "absent" \in RunStatus
    BY DEF RunStatus
  <2> QED
    BY <2>1 DEF NoRun, RunRow
<1>2. args \in [real: BOOLEAN, enabled: BOOLEAN, cap: Caps] /\ Caps \subseteq Nat
  BY EvalAssumption DEF EvalInit
<1>3. run = [t \in Tasks |-> NoRun]
  BY DEF EvalInit
<1> QED
  BY <1>1, <1>2, <1>3 DEF EvalTypes

LEMMA TypesNext ==
  ASSUME EvalTypes, [EvalNext]_allVars
  PROVE  EvalTypes'
<1>1. args' = args /\ RunStep
  BY RunSteps
<1>2. run' \in [Tasks -> RunRow]
  <2>1. run \in [Tasks -> RunRow] /\ \A t \in Tasks : run[t] \in RunRow
    BY DEF EvalTypes
  <2>2. {"running", "failed"} \subseteq RunStatus
    BY DEF RunStatus, TERMINAL
  <2>3. ASSUME NEW t \in Tasks, run' = [run EXCEPT ![t].status = "running"]
        PROVE  run' \in [Tasks -> RunRow]
    <3>1. [run[t] EXCEPT !.status = "running"] \in RunRow
      BY <2>1, <2>2 DEF RunRow
    <3> QED
      BY <2>1, <2>3, <3>1
  <2>4. ASSUME NEW t \in Tasks, run' = [run EXCEPT ![t].status = "failed", ![t].infra = TRUE]
        PROVE  run' \in [Tasks -> RunRow]
    <3>1. [run[t] EXCEPT !.status = "failed", !.infra = TRUE] \in RunRow
      BY <2>1, <2>2 DEF RunRow
    <3>2. run' = [run EXCEPT ![t] = [run[t] EXCEPT !.status = "failed", !.infra = TRUE]]
      BY <2>1, <2>4
    <3> QED
      BY <2>1, <3>1, <3>2
  <2>5. ASSUME NEW t \in Tasks, NEW s, run' = [run EXCEPT ![t] = s], Grows(t, s)
        PROVE  run' \in [Tasks -> RunRow]
    BY <2>1, <2>5 DEF Grows
  <2> QED
    BY <1>1, <2>1, <2>3, <2>4, <2>5 DEF RunStep
<1> QED
  BY <1>1, <1>2 DEF EvalTypes
-----------------------------------------------------------------------------
\* A suite that could cost more than --max-total-usd is refused before anything is
\* started; a run stops at the first answer that takes it to its budget.
Dearest == CHOOSE c \in Prices : \A d \in Prices : d <= c

CostsSomething == Suite # <<>> /\ \E c \in Prices : c > 0 /\ \A d \in Prices : d <= c

Refused ==
  args.cap < PerRun * Cardinality(Tasks) =>
    /\ epc \in {"migrate", "raised", "done"} /\ workers = 0
    /\ \A t \in Tasks : run[t].status = "absent" /\ run[t].spent = 0

SpentBounded == \A t \in Tasks : run[t].spent < PerRun + Dearest

LEMMA DearestFacts ==
  ASSUME CostsSomething
  PROVE  Dearest \in Nat /\ Dearest > 0 /\ \A c \in Prices : c <= Dearest
<1>1. PICK c \in Prices : c > 0 /\ \A d \in Prices : d <= c
  BY DEF CostsSomething
<1>2. Dearest \in Prices /\ \A d \in Prices : d <= Dearest
  BY <1>1 DEF Dearest
<1>3. Prices \subseteq Nat
  BY EvalAssumption DEF Prices
<1> QED
  BY <1>1, <1>2, <1>3

LEMMA RefusedNext ==
  ASSUME EvalTypes, Refused, [EvalNext]_allVars
  PROVE  Refused'
<1> SUFFICES ASSUME (args.cap < PerRun * Cardinality(Tasks))'
             PROVE  /\ epc' \in {"migrate", "raised", "done"} /\ workers' = 0
                    /\ \A t \in Tasks : run'[t].status = "absent" /\ run'[t].spent = 0
  BY DEF Refused
<1>1. args' = args /\ RunStep
  BY RunSteps
<1>2. /\ args.cap < PerRun * Cardinality(Tasks)
      /\ epc \in {"migrate", "raised", "done"} /\ workers = 0
      /\ \A t \in Tasks : run[t].status = "absent" /\ run[t].spent = 0
  BY <1>1 DEF Refused
<1>3. ~(workers > 0) /\ epc \notin {"submit", "grade", "events", "report"}
  BY <1>2
<1>4. run' = run
  BY <1>1, <1>3, Zenon DEF RunStep
<1>5. ~check_real_mode
  <2>1. args.cap \in Nat /\ PerRun * Cardinality(Tasks) \in Nat
    BY EvalAssumption, SuiteFacts DEF EvalTypes
  <2> QED
    BY <1>2, <2>1 DEF check_real_mode
<1>6. epc' \in {"migrate", "raised", "done"} /\ workers' = 0
  <2>1. CASE UNCHANGED evalVars
    BY <1>2, <2>1 DEF evalVars
  <2>2. CASE MigrationFailed
    BY <1>2, <2>2 DEF MigrationFailed, Egoto
  <2>3. CASE Configure
    BY <1>2, <1>5, <2>3 DEF Configure, Egoto
  <2>4. CASE WaitTerminal \/ GradeEvents \/ GradeRaises \/ EvalShutdown \/ Report \/ GradeRow
    BY <1>3, <2>4, Zenon DEF WaitTerminal, GradeEvents, GradeRaises, EvalShutdown, Report, GradeRow, Egoto
  <2>5. CASE WorkerDies \/ \E t \in Tasks : WorkerStep(t) \/ PlatformFails(t)
    BY <1>3, <2>5, Zenon DEF WorkerDies, WorkerStep, PlatformFails
  <2>6. CASE \E i \in DOMAIN Suite : Submit(i)
    BY <1>3, <2>6, Zenon DEF Submit
  <2> QED
    BY <2>1, <2>2, <2>3, <2>4, <2>5, <2>6, Zenon DEF EvalNext, allVars
<1> QED
  BY <1>2, <1>4, <1>6

LEMMA SpentNext ==
  ASSUME CostsSomething, EvalTypes, SpentBounded, [EvalNext]_allVars
  PROVE  SpentBounded'
<1>1. RunStep
  BY RunSteps
<1>2. run \in [Tasks -> RunRow] /\ \A t \in Tasks : run[t].spent \in Nat
  BY DEF EvalTypes, RunRow
<1>3. PerRun \in Nat /\ Dearest \in Nat /\ Dearest > 0 /\ \A c \in Prices : c <= Dearest
  BY DearestFacts, EvalAssumption
<1>4. ASSUME NEW t \in Tasks, NEW s, run' = [run EXCEPT ![t] = s], s.spent < PerRun + Dearest
      PROVE  SpentBounded'
  BY <1>2, <1>4 DEF SpentBounded
<1>5. ASSUME NEW t \in Tasks, NEW s, run' = [run EXCEPT ![t] = s], Grows(t, s)
      PROVE  SpentBounded'
  <2>1. CASE s.spent = run[t].spent
    BY <1>4, <1>5, <2>1 DEF SpentBounded
  <2>2. CASE \E c \in Nat : /\ s.spent = run[t].spent + c /\ run[t].spent < PerRun
                            /\ c \in Prices
    <3>1. s.spent < PerRun + Dearest
      BY <1>2, <1>3, <2>2
    <3> QED
      BY <1>4, <1>5, <3>1
  <2> QED
    BY <1>5, <2>1, <2>2 DEF Grows
<1>6. ASSUME NEW t \in Tasks, \/ run' = [run EXCEPT ![t].status = "running"]
                              \/ run' = [run EXCEPT ![t].status = "failed", ![t].infra = TRUE]
      PROVE  SpentBounded'
  <2>1. run[t] \in RunRow
    BY DEF EvalTypes
  <2>2. \A u \in Tasks : run'[u].spent = run[u].spent
    BY <1>2, <1>6, <2>1 DEF RunRow
  <2> QED
    BY <2>2 DEF SpentBounded
<1> QED
  BY <1>1, <1>5, <1>6 DEF RunStep, SpentBounded

\* The sum over the suite, as FoldLeft computes it.
Total == FoldLeft(LAMBDA s, t : s + run[t].spent, 0, Suite)
AddRun == [p \in Nat \X (1..Len(Suite)) |-> p[1] + run[Suite[p[2]]].spent]

LEMMA AddRunType ==
  ASSUME EvalTypes
  PROVE  /\ \A k \in 1..Len(Suite) : run[Suite[k]].spent \in Nat
         /\ AddRun \in [Nat \X (1..Len(Suite)) -> Nat]
<1>1. \A k \in 1..Len(Suite) : Suite[k] \in Tasks
  BY SuiteFacts
<1>2. \A t \in Tasks : run[t].spent \in Nat
  BY DEF EvalTypes, RunRow
<1>3. \A k \in 1..Len(Suite) : run[Suite[k]].spent \in Nat
  BY <1>1, <1>2
<1> QED
  BY <1>3 DEF AddRun

LEMMA TotalReaches ==
  ASSUME EvalTypes
  PROVE  Reaches(Total, Nat, 0, AddRun, Len(Suite))
<1> DEFINE N == Len(Suite)
           F(g) == [t \in SUBSET DOMAIN Suite |->
                      IF t = {} THEN 0
                      ELSE g[t \ {Max(t)}] + run[Suite[Max(t)]].spent]
           iter == CHOOSE g : g = F(g)
<1>1. Total = iter[DOMAIN Suite]
  BY DEF Total, FoldLeft, MapThenFoldSet
<1>2. N \in Nat /\ DOMAIN Suite = 1..N
  BY SuiteFacts
<1>3. AddRun \in [Nat \X (1..N) -> Nat]
  BY AddRunType
<1>4. \A x \in Nat, k \in 1..N : AddRun[<<x, k>>] = x + run[Suite[k]].spent
  BY DEF AddRun
<1> HIDE DEF N
<1>5. PICK g \in [SUBSET (1..N) -> Nat] : FoldsOver(g, 0, AddRun, N)
  BY <1>2, <1>3, SubsetRecursion
<1>6. \A t \in SUBSET (1..N) : t # {} => Max(t) \in 1..N /\ t \ {Max(t)} \in SUBSET (1..N)
  BY <1>2, MaxOfSubset
<1>7. g = F(g)
  BY <1>2, <1>4, <1>5, <1>6 DEF FoldsOver
<1> HIDE DEF F
<1>8. iter = F(iter)
  BY <1>7
<1> HIDE DEF iter
<1>9. Folding(iter, Nat, 0, AddRun, N)
  BY <1>2, <1>3, <1>4, <1>6, <1>8 DEF F, Folding
<1>10. Reaches(iter[1..N], Nat, 0, AddRun, N)
  BY <1>9, FoldPrefixes
<1> QED
  BY <1>1, <1>2, <1>10 DEF N

\* Runs that each spend at most B spend at most B per task together.
LEMMA TotalBounded ==
  ASSUME EvalTypes, NEW B \in Nat, \A t \in Tasks : run[t].spent <= B
  PROVE  Total \in Nat /\ Total <= Len(Suite) * B
<1> DEFINE N == Len(Suite)
           Good == {y \in Nat \X Nat : y[2] <= y[1] * B}
<1>1. N \in Nat
  BY SuiteFacts
<1>2. <<0, 0>> \in Good
  OBVIOUS
<1>3. ASSUME NEW k \in 1..N, NEW x \in Nat, <<k - 1, x>> \in Good
      PROVE  <<k, AddRun[<<x, k>>]>> \in Good
  <2>1. PICK e \in Nat : e = run[Suite[k]].spent /\ e <= B
    BY AddRunType, SuiteFacts
  <2>2. AddRun[<<x, k>>] = x + e
    BY <2>1 DEF AddRun
  <2>3. k \in Nat /\ k - 1 \in Nat /\ x <= (k - 1) * B
    BY <1>1, <1>3
  <2>4. \A i, b \in Nat : i > 0 => (i - 1) * b + b = i * b /\ (i - 1) * b \in Nat /\ i * b \in Nat
    OBVIOUS
  <2>5. k > 0
    BY <1>1
  <2>6. PICK y, z \in Nat : y = (k - 1) * B /\ z = k * B /\ y + B = z
    BY <2>3, <2>4, <2>5
  <2>7. x <= y
    BY <2>3, <2>6, Zenon
  <2>8. e <= B /\ y + B = z
    BY <2>1, <2>6, Zenon
  <2>9. x + e <= z /\ x + e \in Nat
    BY <2>7, <2>8
  <2>10. x + e <= k * B
    BY <2>6, <2>9, Zenon
  <2> QED
    BY <2>2, <2>3, <2>9, <2>10
<1> HIDE DEF Good, N
<1>4. Keeping(Good, Nat, 0, AddRun, N)
  BY <1>1, <1>2, <1>3 DEF Keeping
<1>5. Reaches(Total, Nat, 0, AddRun, N)
  BY TotalReaches DEF N
<1>6. Total \in Nat /\ <<N, Total>> \in Good
  BY <1>4, <1>5, ReachesKeep
<1> QED
  BY <1>6 DEF Good, N

\* check_real_mode: "--max-total-usd" bounds what the whole suite records, but for one
\* answer per task, for any suite, budget, cap and prices with a dearest one.
THEOREM CapKept == ASSUME CostsSomething PROVE EvalSpec => []CapHolds
<1> DEFINE Inv == EvalTypes /\ Refused /\ SpentBounded
<1>1. EvalInit => Inv
  <2> SUFFICES ASSUME EvalInit PROVE Inv
    OBVIOUS
  <2>1. EvalTypes
    BY TypesStart
  <2>2. /\ epc = "migrate" /\ workers = 0
        /\ \A t \in Tasks : run[t].status = "absent" /\ run[t].spent = 0
    BY DEF EvalInit, NoRun
  <2>3. 0 < PerRun + Dearest
    BY DearestFacts, EvalAssumption
  <2> QED
    BY <2>1, <2>2, <2>3 DEF Refused, SpentBounded
<1>2. Inv /\ [EvalNext]_allVars => Inv'
  BY TypesNext, RefusedNext, SpentNext
<1>3. Inv => CapHolds
  <2> SUFFICES ASSUME Inv PROVE CapHolds
    OBVIOUS
  <2>1. PICK n \in Nat : n = Cardinality(Tasks) /\ n = Len(Suite)
    BY SuiteFacts
  <2>2. n > 0
    BY <2>1, EvalAssumption DEF CostsSomething
  <2>3. PICK d \in Nat : d = Dearest /\ d > 0
    BY DearestFacts
  <2>4. args.cap \in Nat /\ PerRun \in Nat
    BY EvalAssumption DEF EvalTypes
  <2>5. \A t \in Tasks : run[t].spent \in Nat /\ run[t].spent < PerRun + d
    BY <2>3 DEF EvalTypes, RunRow, SpentBounded
  <2>6. Total < args.cap + n * d
    <3>1. CASE args.cap < PerRun * n
      <4>1. \A t \in Tasks : run[t].spent <= 0
        BY <2>1, <2>5, <3>1 DEF Refused
      <4>2. Total \in Nat /\ Total <= n * 0
        BY <2>1, <4>1, TotalBounded
      <4>3. n * d > 0 /\ n * 0 = 0
        BY <2>2, <2>3
      <4> QED
        BY <2>4, <4>2, <4>3
    <3>2. CASE ~(args.cap < PerRun * n)
      <4>1. PICK B \in Nat : B = PerRun + (d - 1)
        BY <2>3, <2>4
      <4>2. \A t \in Tasks : run[t].spent <= B
        BY <2>3, <2>4, <2>5, <4>1
      <4>3. Total \in Nat /\ Total <= n * B
        BY <2>1, <4>2, TotalBounded
      <4>4. \A p, q, m \in Nat : q > 0 => /\ m * (p + (q - 1)) = p * m + m * q - m
                                          /\ p * m \in Nat /\ m * q \in Nat
        OBVIOUS
      <4>5. PICK x, y \in Nat : x = PerRun * n /\ y = n * d /\ n * B = x + y - n
        BY <2>3, <2>4, <4>1, <4>4
      <4> QED
        BY <2>2, <2>4, <3>2, <4>3, <4>5
    <3> QED
      BY <3>1, <3>2
  <2> QED
    BY <2>1, <2>3, <2>6 DEF CapHolds, Total, Dearest, Prices
<1> QED
  BY <1>1, <1>2, <1>3, PTL DEF EvalSpec
-----------------------------------------------------------------------------
\* A run that has ended stays as it is: what _grade reads of it in two queries and
\* what it read earlier belong together.
LEMMA EndedStays ==
  ASSUME EvalTypes, RunStep, NEW t \in Tasks, run[t].status \in TERMINAL
  PROVE  run'[t] = run[t]
<1>1. run[t].status # "absent" /\ run[t].status # "running"
  BY DEF TERMINAL
<1>2. run \in [Tasks -> RunRow]
  BY DEF EvalTypes
<1>3. ASSUME NEW u \in Tasks, run[u].status \in {"absent", "running"}, NEW s,
             run' = [run EXCEPT ![u] = s]
      PROVE  run'[t] = run[t]
  BY <1>1, <1>2, <1>3
<1>4. ASSUME NEW u \in Tasks, run' = [run EXCEPT ![u].status = "failed", ![u].infra = TRUE]
      PROVE  run' = [run EXCEPT ![u] = [run[u] EXCEPT !.status = "failed", !.infra = TRUE]]
  BY <1>2, <1>4
<1>5. ASSUME NEW u \in Tasks, run' = [run EXCEPT ![u].status = "running"]
      PROVE  run' = [run EXCEPT ![u] = [run[u] EXCEPT !.status = "running"]]
  BY <1>2, <1>5
<1> QED
  BY <1>3, <1>4, <1>5 DEF RunStep

\* _grade has the row of an ended run as that run has it.
RowOK ==
  epc = "events" /\ row.task \in Tasks /\ row.status \in TERMINAL =>
    run[row.task].status = row.status /\ run[row.task].spent = row.spent

\* A result with a final status is that of the finished run.
Agrees(t) ==
  /\ results[t].status \in TERMINAL \cup {"error", "timeout"}
  /\ results[t].status \in TERMINAL =>
       /\ run[t].status = results[t].status /\ ~run[t].infra /\ run[t].spent = results[t].spent
       /\ results[t].passed <=> /\ run[t].status = "succeeded"
                                /\ Solution(run[t].log) = "good" /\ ~results[t].slow

\* Only a complete result, with every run ended by itself, is published.
Complete ==
  /\ epc = "report" => Tasks \subseteq DOMAIN results
  /\ exit = 0 => /\ epc = "done" /\ Tasks \subseteq DOMAIN results
                 /\ \A t \in Tasks : results[t].status \notin {"timeout", "error"}

\* A mock run has logged its script so far, and ends with it.
Scripted(t) ==
  ~args.real =>
    /\ Len(run[t].log) <= Len(mock_script(t))
    /\ \A k \in 1..Len(run[t].log) : run[t].log[k] = mock_script(t)[k]
    /\ run[t].status \in {"absent", "running"} => Len(run[t].log) < Len(mock_script(t))
    /\ run[t].status = "succeeded" => Len(run[t].log) = Len(mock_script(t))

Graded == \A t \in Tasks : t \in DOMAIN results => Agrees(t)
AllScripted == \A t \in Tasks : Scripted(t)

\* How what _grade has read and made of it changes in one step.
LEMMA GradeCases ==
  ASSUME [EvalNext]_allVars
  PROVE  \/ results' = results /\ row' = row /\ (epc' = "events" => epc = "events")
         \/ GradeRow
         \/ GradeEvents
<1>1. CASE UNCHANGED allVars
  BY <1>1 DEF allVars, evalVars
<1>2. CASE \E p \in Procs : MigrationStep(p) /\ UNCHANGED evalVars
  BY <1>2 DEF evalVars
<1>3. CASE MigrationFailed \/ WaitTerminal \/ GradeRaises \/ EvalShutdown \/ Report \/ WorkerDies
  BY <1>3 DEF MigrationFailed, WaitTerminal, GradeRaises, EvalShutdown, Report, WorkerDies, Egoto
<1>4. CASE Configure
  BY <1>4 DEF Configure, Egoto
<1>5. CASE \E i \in DOMAIN Suite : Submit(i)
  BY <1>5, Zenon DEF Submit
<1>6. CASE \E t \in Tasks : WorkerStep(t) \/ PlatformFails(t)
  BY <1>6, Zenon DEF WorkerStep, PlatformFails
<1> QED
  BY <1>1, <1>2, <1>3, <1>4, <1>5, <1>6, Zenon DEF EvalNext

LEMMA GradedNext ==
  ASSUME EvalTypes, RowOK, Graded, [EvalNext]_allVars
  PROVE  RowOK' /\ Graded'
<1>1. RunStep
  BY RunSteps
<1>2. \A t \in Tasks : run[t].status \in TERMINAL => run'[t] = run[t]
  BY <1>1, EndedStays
<1>3. ASSUME NEW t \in Tasks, Agrees(t), results'[t] = results[t]
      PROVE  Agrees(t)'
  <2>1. CASE results[t].status \in TERMINAL
    <3>1. run'[t] = run[t]
      BY <1>2, <1>3, <2>1 DEF Agrees
    <3> QED
      BY <1>3, <3>1, Zenon DEF Agrees
  <2>2. CASE results[t].status \notin TERMINAL
    BY <1>3, <2>2, Zenon DEF Agrees
  <2> QED
    BY <2>1, <2>2
<1>4. CASE results' = results /\ row' = row /\ (epc' = "events" => epc = "events")
  <2>1. Graded'
    BY <1>3, <1>4 DEF Graded
  <2>2. RowOK'
    BY <1>2, <1>4 DEF RowOK
  <2> QED
    BY <2>1, <2>2
<1>5. CASE GradeRow
  <2>1. /\ row'.status = run[row'.task].status /\ row'.spent = run[row'.task].spent
        /\ run' = run /\ results' = results
    BY <1>5 DEF GradeRow
  <2>2. Graded'
    BY <1>3, <2>1 DEF Graded
  <2>3. RowOK'
    BY <2>1 DEF RowOK
  <2> QED
    BY <2>2, <2>3
<1>6. CASE GradeEvents
  <2> DEFINE t == row.task
             status == IF run[t].infra THEN "error"
                       ELSE IF row.status \in TERMINAL THEN row.status ELSE "timeout"
             Result(slow) ==
               [status |-> status, spent |-> row.spent, slow |-> slow,
                passed |-> status = "succeeded" /\ Solution(run[t].log) = "good" /\ ~slow]
  <2>1. PICK slow :
          results' = [u \in DOMAIN results \cup {t} |-> IF u # t THEN results[u] ELSE Result(slow)]
    BY <1>6, Zenon DEF GradeEvents
  <2>2. PICK e : e = Result(slow)
    OBVIOUS
  <2>3. results' = [u \in DOMAIN results \cup {t} |-> IF u # t THEN results[u] ELSE e]
    BY <2>1, <2>2, Zenon
  <2>4. epc = "events" /\ epc' = "grade" /\ run' = run
    BY <1>6, Zenon DEF GradeEvents, Egoto
  <2>5. RowOK'
    BY <2>4 DEF RowOK
  <2>6. ASSUME NEW u \in Tasks, u \in DOMAIN results' PROVE Agrees(u)'
    <3>1. CASE u # t
      <4>1. results'[u] = results[u] /\ u \in DOMAIN results
        BY <2>3, <2>6, <3>1
      <4> QED
        BY <1>3, <4>1 DEF Graded
    <3>2. CASE u = t
      <4>1. results'[u] = e
        BY <2>3, <3>2
      <4>2. /\ e.status = status /\ e.spent = row.spent /\ e.slow = slow
            /\ e.passed = (status = "succeeded" /\ Solution(run[t].log) = "good" /\ ~slow)
        BY <2>2
      <4>3. e.status \in TERMINAL \cup {"error", "timeout"}
        BY <4>2
      <4>4. e.status \in TERMINAL =>
              /\ run[u].status = e.status /\ ~run[u].infra /\ run[u].spent = e.spent
        BY <2>4, <3>2, <4>2 DEF RowOK, TERMINAL
      <4> QED
        BY <2>4, <3>2, <4>1, <4>2, <4>3, <4>4, Zenon DEF Agrees
    <3> QED
      BY <3>1, <3>2
  <2> QED
    BY <2>5, <2>6 DEF Graded
<1> QED
  BY <1>4, <1>5, <1>6, GradeCases

LEMMA CompleteNext ==
  ASSUME Complete, [EvalNext]_allVars
  PROVE  Complete'
<1>1. CASE UNCHANGED <<epc, results, exit>>
  BY <1>1 DEF Complete
<1>2. CASE MigrationFailed \/ WaitTerminal \/ GradeRow \/ GradeRaises
  BY <1>2 DEF MigrationFailed, WaitTerminal, GradeRow, GradeRaises, Egoto, Complete
<1>3. CASE Configure
  BY <1>3 DEF Configure, Egoto, Complete
<1>4. CASE GradeEvents
  <2>1. epc = "events" /\ epc' = "grade" /\ exit' = exit
    BY <1>4, Zenon DEF GradeEvents, Egoto
  <2> QED
    BY <2>1 DEF Complete
<1>5. CASE EvalShutdown
  BY <1>5 DEF EvalShutdown, Egoto, Complete
<1>6. CASE Report
  <2>1. epc = "report" /\ epc' = "done" /\ results' = results /\ exit' = IF unfinished = {} THEN 0 ELSE 3
    BY <1>6 DEF Report, Egoto
  <2>2. unfinished = {} => \A t \in Tasks : results[t].status \notin {"timeout", "error"}
    BY DEF unfinished
  <2> QED
    BY <2>1, <2>2 DEF Complete
<1>7. CASE WorkerDies \/ \E t \in Tasks : WorkerStep(t) \/ PlatformFails(t)
  BY <1>1, <1>7, Zenon DEF WorkerDies, WorkerStep, PlatformFails
<1>8. CASE \E i \in DOMAIN Suite : Submit(i)
  BY <1>1, <1>8, Zenon DEF Submit
<1>9. CASE UNCHANGED evalVars
  BY <1>1, <1>9 DEF evalVars
<1> QED
  BY <1>2, <1>3, <1>4, <1>5, <1>6, <1>7, <1>8, <1>9, Zenon DEF EvalNext, allVars

LEMMA ScriptedNext ==
  ASSUME EvalTypes, AllScripted, [EvalNext]_allVars
  PROVE  AllScripted'
<1>1. args' = args /\ RunStep
  BY RunSteps
<1>2. run \in [Tasks -> RunRow] /\ \A t \in Tasks : run[t] \in RunRow /\ run[t].log \in Seq(Logged)
  BY DEF EvalTypes, RunRow
<1>3. ASSUME NEW t \in Tasks, NEW s, run' = [run EXCEPT ![t] = s], Scripted(t)'
      PROVE  AllScripted'
  <2>1. ASSUME NEW u \in Tasks \ {t} PROVE Scripted(u)'
    <3>1. run'[u] = run[u] /\ Scripted(u)
      BY <1>2, <1>3 DEF AllScripted
    <3> QED
      BY <1>1, <3>1, Zenon DEF Scripted
  <2> QED
    BY <1>3, <2>1 DEF AllScripted
<1>4. ASSUME NEW t \in Tasks, NEW s, run' = [run EXCEPT ![t] = s], s.log = run[t].log,
             \/ s.status \in {"failed", "budget_exceeded"}
             \/ run[t].status = "absent" /\ s.status = "running"
      PROVE  AllScripted'
  <2>1. run'[t] = s
    BY <1>2, <1>4
  <2>2. Scripted(t)
    BY DEF AllScripted
  <2>3. Scripted(t)'
    BY <1>1, <1>4, <2>1, <2>2 DEF Scripted
  <2> QED
    BY <1>3, <1>4, <2>3
<1>5. ASSUME NEW t \in Tasks, NEW s, run' = [run EXCEPT ![t] = s], run[t].status = "running",
             NEW a, s.log = Append(run[t].log, a),
             s.status = IF a = "finish" THEN "succeeded" ELSE "running",
             ~args.real => a = MockAction(t, Len(run[t].log))
      PROVE  AllScripted'
  <2>1. run'[t] = s
    BY <1>2, <1>5
  <2>2. CASE args.real
    <3>1. Scripted(t)'
      BY <1>1, <2>2 DEF Scripted
    <3> QED
      BY <1>3, <1>5, <3>1
  <2>3. CASE ~args.real
    <3>1. PICK n \in Nat :
            /\ Len(mock_script(t)) = n /\ mock_script(t)[n] = "finish"
            /\ \A k \in 1..(n - 1) : mock_script(t)[k] # "finish"
      BY ScriptFacts
    <3>2. PICK m \in Nat : m = Len(run[t].log)
      BY <1>2
    <3>3. m < n /\ \A k \in 1..m : run[t].log[k] = mock_script(t)[k]
      BY <1>5, <2>3, <3>1, <3>2 DEF AllScripted, Scripted
    <3>4. a = mock_script(t)[m + 1]
      BY <1>5, <2>3, <3>1, <3>2, <3>3, MockFacts
    <3>5. /\ Len(s.log) = m + 1 /\ s.log[m + 1] = a
          /\ \A k \in 1..m : s.log[k] = run[t].log[k]
      BY <1>2, <1>5, <3>2
    <3>6. m + 1 <= n /\ \A k \in 1..(m + 1) : s.log[k] = mock_script(t)[k]
      <4>1. \A k \in 1..(m + 1) : k = m + 1 \/ k \in 1..m
        OBVIOUS
      <4>2. m + 1 <= n
        BY <3>3
      <4> QED
        BY <3>3, <3>4, <3>5, <4>1, <4>2
    <3>7. a = "finish" <=> m + 1 = n
      <4>1. m + 1 # n => m + 1 \in 1..(n - 1)
        BY <3>3
      <4> QED
        BY <3>1, <3>4, <4>1
    <3>8. /\ s.status \in {"absent", "running"} => m + 1 < n
          /\ s.status = "succeeded" => m + 1 = n
      BY <1>5, <3>6, <3>7
    <3>9. Scripted(t)'
      BY <2>1, <3>1, <3>5, <3>6, <3>8 DEF Scripted
    <3> QED
      BY <1>3, <1>5, <3>9
  <2> QED
    BY <2>2, <2>3
<1>6. ASSUME NEW t \in Tasks, run' = [run EXCEPT ![t].status = "failed", ![t].infra = TRUE]
      PROVE  AllScripted'
  <2>1. PICK s : s = [run[t] EXCEPT !.status = "failed", !.infra = TRUE]
    OBVIOUS
  <2>2. run' = [run EXCEPT ![t] = s] /\ s.log = run[t].log /\ s.status = "failed"
    BY <1>2, <1>6, <2>1 DEF RunRow
  <2> QED
    BY <1>4, <2>2
<1>7. ASSUME NEW t \in Tasks, run[t].status = "absent", run' = [run EXCEPT ![t].status = "running"]
      PROVE  AllScripted'
  <2>1. PICK s : s = [run[t] EXCEPT !.status = "running"]
    OBVIOUS
  <2>2. run' = [run EXCEPT ![t] = s] /\ s.log = run[t].log /\ s.status = "running"
    BY <1>2, <1>7, <2>1 DEF RunRow
  <2> QED
    BY <1>4, <1>7, <2>2
<1>8. CASE run' = run
  BY <1>1, <1>8, Zenon DEF AllScripted, Scripted
<1>9. ASSUME NEW t \in Tasks, run[t].status = "running", NEW s, run' = [run EXCEPT ![t] = s], Grows(t, s)
      PROVE  AllScripted'
  BY <1>4, <1>5, <1>9 DEF Grows
<1> QED
  BY <1>1, <1>6, <1>7, <1>8, <1>9 DEF RunStep

\* The last write of a whole script is the solution, which is right if the catalogue
\* has it pass.
LEMMA MockSolution ==
  ASSUME NEW t \in Tasks, NEW log \in Seq(Logged), Len(log) = Len(mock_script(t)),
         \A k \in 1..Len(log) : log[k] = mock_script(t)[k]
  PROVE  Solution(log) = "good" <=> Outcome[t] = "pass"
<1>1. PICK n \in Nat :
        /\ n >= 4 /\ Len(mock_script(t)) = n
        /\ mock_script(t)[n] = "finish" /\ mock_script(t)[n - 1] = "run"
        /\ mock_script(t)[n - 2] = IF Outcome[t] = "wrong" THEN "bad" ELSE "good"
  BY ScriptFacts
<1>2. PICK w \in 1..n : w = n - 2 /\ n - 1 \in 1..n /\ n \in 1..n
  BY <1>1
<1>3. Len(log) = n /\ DOMAIN log = 1..n
  BY <1>1
<1>4. /\ log[n] = "finish" /\ log[n - 1] = "run"
      /\ log[w] = IF Outcome[t] = "wrong" THEN "bad" ELSE "good"
  BY <1>1, <1>2, <1>3
<1> DEFINE writes == {k \in DOMAIN log : log[k] \in {"draft", "good", "bad"}}
<1>5. w \in writes /\ n \notin writes /\ n - 1 \notin writes /\ writes \in SUBSET (1..n)
  BY <1>2, <1>3, <1>4
<1>6. Solution(log) = IF writes = {} THEN "none" ELSE log[Max(writes)]
  BY DEF Solution
<1> HIDE DEF writes
<1>7. Max(writes) \in writes /\ \A y \in writes : y <= Max(writes)
  BY <1>5, MaxOfSubset
<1>8. \A k \in 1..n : k >= w => k = w \/ k = n - 1 \/ k = n
  BY <1>2
<1>9. Max(writes) = w
  <2>1. PICK m \in 1..n : m = Max(writes) /\ m \in writes /\ w <= m
    BY <1>5, <1>7
  <2>2. m >= w
    BY <2>1
  <2> QED
    BY <1>5, <1>8, <2>1, <2>2
<1>10. Outcome[t] \in {"pass", "wrong"}
  BY EvalAssumption
<1> QED
  BY <1>4, <1>5, <1>6, <1>9, <1>10

\* _eval writes a result only if it is one: complete, each row the finished run's though
\* it was read while workers ran on, the verdict the hidden test's; and a mock run passes
\* as the catalogue says.
THEOREM PublishedResults == EvalSpec => []PublishedTrue
<1> DEFINE Inv == EvalTypes /\ RowOK /\ Graded /\ Complete /\ AllScripted
<1>1. EvalInit => Inv
  <2> SUFFICES ASSUME EvalInit PROVE Inv
    OBVIOUS
  <2>1. EvalTypes
    BY TypesStart
  <2>2. /\ epc = "migrate" /\ DOMAIN results = {} /\ exit = -1
        /\ \A t \in Tasks : run[t].status = "absent" /\ run[t].log = <<>>
    BY DEF EvalInit, NoRun
  <2>3. RowOK /\ Graded /\ Complete
    BY <2>2 DEF RowOK, Graded, Complete
  <2>4. ASSUME NEW t \in Tasks PROVE Scripted(t)
    <3>1. PICK n \in Nat : n >= 4 /\ Len(mock_script(t)) = n
      BY ScriptFacts
    <3>2. Len(run[t].log) = 0 /\ run[t].status = "absent"
      BY <2>2
    <3> QED
      BY <3>1, <3>2 DEF Scripted
  <2> QED
    BY <2>1, <2>3, <2>4 DEF AllScripted
<1>2. Inv /\ [EvalNext]_allVars => Inv'
  BY TypesNext, GradedNext, CompleteNext, ScriptedNext
<1>3. Inv => PublishedTrue
  <2> SUFFICES ASSUME Inv, exit = 0, NEW t \in Tasks
               PROVE  /\ run[t].status \in TERMINAL /\ ~run[t].infra
                      /\ results[t].status = run[t].status /\ results[t].spent = run[t].spent
                      /\ results[t].passed <=> /\ run[t].status = "succeeded"
                                               /\ Solution(run[t].log) = "good" /\ ~results[t].slow
                      /\ ~args.real /\ run[t].status = "succeeded" /\ ~results[t].slow =>
                           (results[t].passed <=> Outcome[t] = "pass")
    BY Zenon DEF PublishedTrue
  <2>1. Agrees(t) /\ results[t].status \notin {"timeout", "error"}
    BY DEF Complete, Graded
  <2>2. results[t].status \in TERMINAL
    BY <2>1 DEF Agrees
  <2>3. /\ run[t].status = results[t].status /\ ~run[t].infra /\ run[t].spent = results[t].spent
        /\ results[t].passed <=> /\ run[t].status = "succeeded"
                                 /\ Solution(run[t].log) = "good" /\ ~results[t].slow
    BY <2>1, <2>2, Zenon DEF Agrees
  <2>4. ~args.real /\ run[t].status = "succeeded" => (Solution(run[t].log) = "good" <=> Outcome[t] = "pass")
    <3> SUFFICES ASSUME ~args.real, run[t].status = "succeeded"
                 PROVE  Solution(run[t].log) = "good" <=> Outcome[t] = "pass"
      OBVIOUS
    <3>1. run[t].log \in Seq(Logged)
      BY DEF EvalTypes, RunRow
    <3>2. /\ Len(run[t].log) = Len(mock_script(t))
          /\ \A k \in 1..Len(run[t].log) : run[t].log[k] = mock_script(t)[k]
      BY DEF AllScripted, Scripted
    <3> QED
      BY <3>1, <3>2, MockSolution
  <2> QED
    BY <2>2, <2>3, <2>4, Zenon
<1> QED
  BY <1>1, <1>2, <1>3, PTL DEF EvalSpec
=============================================================================
