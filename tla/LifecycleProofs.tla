-------------------------- MODULE LifecycleProofs --------------------------
(***************************************************************************)
(* Proofs about Lifecycle, for every set of servers, every number of       *)
(* migrations of which the embedded ones do not fail, and every set of     *)
(* faults: what schema_migrations records has been applied, a server that  *)
(* serves has its migrations, and a stop loses only what its timeout, the  *)
(* collector or the moment of the signal costs.                            *)
(***************************************************************************)
EXTENDS Lifecycle, TLAPS

Migrating == {"apply", "run", "clean"}

\* The migrations of a process are among those there are, and the job is no
\* server.
LEMMA LastBound ==
  ASSUME NEW p \in Process
  PROVE  Last(p) \in Nat /\ Last(p) <= Available /\ (p \in Server => Last(p) = Embedded)
  BY LifecycleAssumption DEF Last, Process

\* A process moves; the others stay where they are.
LEMMA GoEffect ==
  ASSUME at \in [Process -> Stage], NEW p \in Process, NEW stage \in Stage, Go(p, stage)
  PROVE  /\ at' \in [Process -> Stage]
         /\ at'[p] = stage
         /\ \A q \in Process \ {p} : at'[q] = at[q]
  BY DEF Go

\* A process gives up the lock, if it has it.
LEMMA UnlockEffect ==
  ASSUME cur \in [Process -> 0 .. Available], lock \in Process \cup {NoProcess},
         NEW p \in Process, Unlock(p)
  PROVE  /\ cur' \in [Process -> 0 .. Available]
         /\ lock' \in Process \cup {NoProcess}
         /\ \A q \in Process \ {p} : cur'[q] = cur[q] /\ (lock' = q <=> lock = q)
  BY LifecycleAssumption DEF Unlock, Process

\* What TypeOK says of the database, its lock and who holds it; and that the
\* version at work in a migration is one.
Holds(p) == /\ at[p] \in Migrating => lock = p /\ cur[p] = version
            /\ at[p] \in {"run", "clean"} => version > 0

DatabaseOK ==
  /\ version \in 0 .. Available /\ dirty \in BOOLEAN
  /\ lock \in Process \cup {NoProcess}
  /\ schema \subseteq 1 .. Available
  /\ at \in [Process -> Stage]
  /\ cur \in [Process -> 0 .. Available]
  /\ \A p \in Process : Holds(p)

WorkOK ==
  /\ inflight \in [Server -> 0 .. MaxInFlight]
  /\ unexported \in [Server -> BOOLEAN]
  /\ pass \in [Server -> BOOLEAN] /\ ticking \in [Server -> BOOLEAN]
  /\ excuse \in [Server -> SUBSET {"drain", "flush", "pass"}]
  /\ damage \in [Server -> SUBSET {"handlers", "spans", "pass"}]

LEMMA TypeParts == DatabaseOK /\ WorkOK => TypeOK
  BY DEF TypeOK, DatabaseOK, WorkOK, Holds, Migrating

-----------------------------------------------------------------------------
(***************************************************************************)
(* Types.                                                                  *)
(***************************************************************************)
\* A process goes where it migrates nothing, and the database stays.
LEMMA PlainMove ==
  ASSUME DatabaseOK, NEW p \in Process, NEW stage \in Stage \ Migrating, Go(p, stage),
         UNCHANGED <<database, cur>>
  PROVE  DatabaseOK'
<1>1. /\ at' \in [Process -> Stage] /\ at'[p] = stage
      /\ \A q \in Process \ {p} : at'[q] = at[q]
  BY GoEffect DEF DatabaseOK
<1> QED
  BY <1>1 DEF DatabaseOK, Holds, Migrating, database

\* A process leaves the migrations, or is stopped in them.
LEMMA LeaveMove ==
  ASSUME DatabaseOK, NEW p \in Process, NEW stage \in Stage \ Migrating, Go(p, stage),
         Unlock(p), UNCHANGED <<version, dirty, schema>>
  PROVE  DatabaseOK'
<1>1. /\ at' \in [Process -> Stage] /\ at'[p] = stage
      /\ \A q \in Process \ {p} : at'[q] = at[q]
  BY GoEffect DEF DatabaseOK
<1>2. /\ cur' \in [Process -> 0 .. Available]
      /\ lock' \in Process \cup {NoProcess}
      /\ \A q \in Process \ {p} : cur'[q] = cur[q] /\ (lock' = q <=> lock = q)
  BY UnlockEffect DEF DatabaseOK
<1> QED
  BY <1>1, <1>2 DEF DatabaseOK, Holds, Migrating

\* Who migrates has the lock, and so nobody else migrates.
LEMMA OneMigrates ==
  ASSUME DatabaseOK, NEW p \in Process, at[p] \in Migrating
  PROVE  \A q \in Process \ {p} : at[q] \notin Migrating
  BY DEF DatabaseOK, Holds

\* A process that migrates goes on with the next step of a migration.
LEMMA MigrateMove ==
  ASSUME DatabaseOK, NEW p \in Process, at[p] \in Migrating,
         NEW stage \in Migrating, Go(p, stage),
         version' \in 0 .. Available, stage = "apply" \/ version' > 0,
         dirty' \in BOOLEAN, schema' \subseteq 1 .. Available,
         lock' = lock, cur' = [cur EXCEPT ![p] = version']
  PROVE  DatabaseOK'
<1>1. /\ at' \in [Process -> Stage] /\ at'[p] = stage
      /\ \A q \in Process \ {p} : at'[q] = at[q]
  BY GoEffect DEF DatabaseOK, Migrating, Stage
<1>2. \A q \in Process \ {p} : at'[q] \notin Migrating
  BY <1>1, OneMigrates
<1>3. lock = p
  BY DEF DatabaseOK, Holds
<1>4. cur' \in [Process -> 0 .. Available] /\ cur'[p] = version'
  BY DEF DatabaseOK
<1> QED
  BY <1>1, <1>2, <1>3, <1>4 DEF DatabaseOK, Holds, Migrating

LEMMA DatabaseStep == DatabaseOK /\ [Next]_vars => DatabaseOK'
<1> SUFFICES ASSUME DatabaseOK, [Next]_vars PROVE DatabaseOK'
  OBVIOUS
<1> USE LifecycleAssumption
<1>1. ASSUME NEW s \in Server, StartServer(s) \/ Start(s) \/ Signal(s) \/ Stop(s)
      PROVE  DatabaseOK'
  <2>1. PICK stage \in Stage \ Migrating : Go(s, stage)
    BY <1>1 DEF StartServer, Start, Connect, Register, Signal, Stop, Drain, Flush,
                CloseDatabase, Exit, EndServer, Stage, Migrating
  <2>2. UNCHANGED <<database, cur>>
    BY <1>1 DEF StartServer, Start, Connect, Register, Signal, Stop, Drain, Flush,
                CloseDatabase, Exit
  <2> QED
    BY <2>1, <2>2, PlainMove DEF Process
<1>2. ASSUME NEW s \in Server, Serving(s) PROVE DatabaseOK'
  BY <1>2 DEF Serving, BeginRequest, EndRequest, Export, BeginPass, EndPass,
              DatabaseOK, Holds, database
<1>3. ASSUME NEW s \in Server, Kill(s) PROVE DatabaseOK'
  BY <1>3, LeaveMove DEF Kill, EndServer, Process, Stage, Migrating
<1>4. CASE StartJob
  BY <1>4, PlainMove DEF StartJob, Process, Stage, Migrating
<1>5. CASE KillJob
  BY <1>5, LeaveMove DEF KillJob, Process, Stage, Migrating
<1>6. ASSUME NEW p \in Process, Lock(p) PROVE DatabaseOK'
  <2>1. CASE Go(p, "down") /\ UNCHANGED <<lock, cur>>
    BY <1>6, <2>1, PlainMove DEF Lock, database, Stage, Migrating
  <2>2. CASE Go(p, "apply") /\ lock' = p /\ cur' = [cur EXCEPT ![p] = version]
    <3>1. /\ at' \in [Process -> Stage] /\ at'[p] = "apply"
          /\ \A q \in Process \ {p} : at'[q] = at[q]
      BY <2>2, GoEffect DEF DatabaseOK, Stage
    <3>2. lock = NoProcess /\ UNCHANGED <<version, dirty, schema>>
      BY <1>6 DEF Lock
    <3>3. \A q \in Process : at[q] \notin Migrating
      BY <3>2 DEF DatabaseOK, Holds, Process
    <3>4. cur' \in [Process -> 0 .. Available] /\ cur'[p] = version
      BY <2>2 DEF DatabaseOK
    <3> QED
      BY <2>2, <3>1, <3>2, <3>3, <3>4 DEF DatabaseOK, Holds
  <2> QED
    BY <1>6, <2>1, <2>2 DEF Lock
<1>7. ASSUME NEW p \in Process, WithInstance(p) \/ LockTimeout(p) PROVE DatabaseOK'
  BY <1>7, PlainMove DEF WithInstance, LockTimeout, Stage, Migrating
<1>8. ASSUME NEW p \in Process, MarkDirty(p) PROVE DatabaseOK'
  <2>1. /\ cur[p] = version /\ cur[p] + 1 \in 0 .. Available /\ cur[p] + 1 > 0
        /\ at[p] \in Migrating
    BY <1>8, LastBound DEF MarkDirty, DatabaseOK, Holds, Migrating
  <2>2. version' = cur[p] + 1 /\ cur' = [cur EXCEPT ![p] = version']
    BY <1>8, <2>1 DEF MarkDirty
  <2> QED
    BY <1>8, <2>1, <2>2, MigrateMove DEF MarkDirty, DatabaseOK, Migrating
<1>9. ASSUME NEW p \in Process, RunMigration(p) PROVE DatabaseOK'
  <2>1. cur[p] = version /\ version > 0 /\ cur = [cur EXCEPT ![p] = version]
    BY <1>9 DEF RunMigration, DatabaseOK, Holds, Migrating
  <2>2. schema' \subseteq 1 .. Available
    BY <1>9, <2>1 DEF RunMigration, DatabaseOK
  <2> QED
    BY <1>9, <2>1, <2>2, MigrateMove DEF RunMigration, DatabaseOK, Migrating
<1>10. ASSUME NEW p \in Process, MarkClean(p) PROVE DatabaseOK'
  <2>1. cur[p] = version /\ cur = [cur EXCEPT ![p] = version]
    BY <1>10 DEF MarkClean, DatabaseOK, Holds, Migrating
  <2> QED
    BY <1>10, <2>1, MigrateMove DEF MarkClean, DatabaseOK, Migrating
<1>11. ASSUME NEW p \in Process, MigrationFails(p) \/ MigrationsDone(p) PROVE DatabaseOK'
  <2>1. PICK stage \in Stage \ Migrating : Go(p, stage)
    BY <1>11 DEF MigrationFails, MigrationsDone, Stage, Migrating
  <2> QED
    BY <1>11, <2>1, LeaveMove DEF MigrationFails, MigrationsDone
<1>12. CASE UNCHANGED vars
  BY <1>12 DEF vars, database, DatabaseOK, Holds
<1> QED
  BY <1>1, <1>2, <1>3, <1>4, <1>5, <1>6, <1>7, <1>8, <1>9, <1>10, <1>11, <1>12
  DEF Next, Migrate

LEMMA WorkStep == WorkOK /\ [Next]_vars => WorkOK'
<1> SUFFICES ASSUME WorkOK, [Next]_vars PROVE WorkOK'
  OBVIOUS
<1> USE LifecycleAssumption DEF WorkOK
<1>1. ASSUME NEW s \in Server, StartServer(s) PROVE WorkOK'
  BY <1>1 DEF StartServer
<1>2. ASSUME NEW s \in Server, Start(s) PROVE WorkOK'
  BY <1>2 DEF Start, Connect, Register, work
<1>3. ASSUME NEW s \in Server, Serving(s) PROVE WorkOK'
  <2>1. CASE BeginRequest(s)
    BY <2>1 DEF BeginRequest
  <2>2. CASE EndRequest(s)
    <3>1. inflight' \in [Server -> 0 .. MaxInFlight]
      BY <2>2 DEF EndRequest
    <3>2. damage' \in [Server -> SUBSET {"handlers", "spans", "pass"}]
      <4>1. CASE damage' = Note(damage, s, "spans")
        BY <4>1 DEF Note
      <4> QED
        BY <2>2, <4>1 DEF EndRequest
    <3>3. unexported' \in [Server -> BOOLEAN]
      BY <2>2 DEF EndRequest
    <3> QED
      BY <2>2, <3>1, <3>2, <3>3 DEF EndRequest
  <2>3. CASE Export(s) \/ BeginPass(s) \/ EndPass(s)
    BY <2>3 DEF Export, BeginPass, EndPass
  <2> QED
    BY <1>3, <2>1, <2>2, <2>3 DEF Serving
<1>4. ASSUME NEW s \in Server, Signal(s) PROVE WorkOK'
  BY <1>4 DEF Signal, Note
<1>5. ASSUME NEW s \in Server, Stop(s) PROVE WorkOK'
  <2>1. CASE Drain(s)
    BY <2>1 DEF Drain, Note
  <2>2. CASE Flush(s)
    <3>1. excuse' \in [Server -> SUBSET {"drain", "flush", "pass"}]
      <4>1. CASE excuse' = Note(excuse, s, "flush")
        BY <4>1 DEF Note
      <4> QED
        BY <2>2, <4>1 DEF Flush
    <3>2. unexported' \in [Server -> BOOLEAN]
      BY <2>2 DEF Flush
    <3> QED
      BY <2>2, <3>1, <3>2 DEF Flush
  <2>3. CASE CloseDatabase(s)
    BY <2>3 DEF CloseDatabase, Note
  <2>4. CASE Exit(s)
    BY <2>4 DEF Exit, EndServer, CutOff
  <2> QED
    BY <1>5, <2>1, <2>2, <2>3, <2>4 DEF Stop
<1>6. ASSUME NEW s \in Server, Kill(s) PROVE WorkOK'
  BY <1>6 DEF Kill, EndServer
<1>7. ASSUME NEW p \in Process, Migrate(p) PROVE WorkOK'
  BY <1>7 DEF Migrate, WithInstance, Lock, LockTimeout, MarkDirty, RunMigration, MarkClean,
              MigrationFails, MigrationsDone, work
<1>8. CASE StartJob \/ KillJob \/ UNCHANGED vars
  BY <1>8 DEF StartJob, KillJob, vars, work
<1> QED
  BY <1>1, <1>2, <1>3, <1>4, <1>5, <1>6, <1>7, <1>8 DEF Next

LEMMA TypeInit == Init => DatabaseOK /\ WorkOK
<1> SUFFICES ASSUME Init PROVE DatabaseOK /\ WorkOK
  OBVIOUS
<1> USE LifecycleAssumption
<1>0. dirty \in BOOLEAN
  BY DEF Init
<1>1. version \in 0 .. Available /\ lock \in Process \cup {NoProcess}
  BY DEF Init
<1>2. schema \subseteq 1 .. Available
  BY DEF Init
<1>3. at \in [Process -> Stage] /\ \A p \in Process : Holds(p)
  BY DEF Init, Stage, Holds, Migrating
<1>4. cur \in [Process -> 0 .. Available]
  BY DEF Init
<1>5. inflight \in [Server -> 0 .. MaxInFlight]
  BY DEF Init
<1>6. /\ unexported \in [Server -> BOOLEAN]
      /\ pass \in [Server -> BOOLEAN] /\ ticking \in [Server -> BOOLEAN]
  BY DEF Init
<1>7. /\ excuse \in [Server -> SUBSET {"drain", "flush", "pass"}]
      /\ damage \in [Server -> SUBSET {"handlers", "spans", "pass"}]
  BY DEF Init
<1> QED
  BY <1>0, <1>1, <1>2, <1>3, <1>4, <1>5, <1>6, <1>7 DEF DatabaseOK, WorkOK

\* The variables keep their types, and who applies migrations holds the lock
\* (main.go, golang-migrate), for any servers, migrations and faults.
THEOREM TypeCorrect == Spec => []TypeOK
<1>1. DatabaseOK /\ WorkOK /\ [Next]_vars => (DatabaseOK /\ WorkOK)'
  BY DatabaseStep, WorkStep
<1> QED
  BY <1>1, TypeInit, TypeParts, PTL DEF Spec

-----------------------------------------------------------------------------
(***************************************************************************)
(* Migrations.  RecordedIsApplied says nothing of a process between two    *)
(* statements of a migration.  MigrationInv adds what each such process    *)
(* has done.                                                               *)
(***************************************************************************)
Ready == {"register", "serving", "drain", "flush", "close", "exit"}

Applied(p) ==
  /\ at[p] = "apply" => ~dirty /\ cur[p] <= Last(p)
  /\ at[p] = "run"   => dirty /\ cur[p] <= Last(p)
  /\ at[p] = "clean" => cur[p] \in schema /\ cur[p] <= Last(p)
  /\ p \in Server /\ at[p] \in Ready => 1 .. Embedded \subseteq schema

MigrationInv == RecordedIsApplied /\ \A p \in Process : Applied(p)

\* Nothing is migrated: the process goes on or ends.
LEMMA PlainApplied ==
  ASSUME DatabaseOK, MigrationInv, NEW p \in Process, NEW stage \in Stage \ Migrating,
         Go(p, stage), UNCHANGED <<database, cur>>, stage \in Ready => at[p] \in Ready
  PROVE  MigrationInv'
<1>1. /\ at'[p] = stage
      /\ \A q \in Process \ {p} : at'[q] = at[q]
  BY GoEffect DEF DatabaseOK
<1>2. RecordedIsApplied'
  BY DEF RecordedIsApplied, MigrationInv, database
<1>3. Applied(p)'
  BY <1>1 DEF MigrationInv, Applied, Migrating, database
<1>4. ASSUME NEW q \in Process \ {p} PROVE Applied(q)'
  BY <1>1 DEF MigrationInv, Applied, database, Last
<1> QED
  BY <1>2, <1>3, <1>4 DEF MigrationInv

\* A process leaves the migrations; it goes on only if all are applied.
LEMMA LeaveApplied ==
  ASSUME DatabaseOK, MigrationInv, NEW p \in Process, NEW stage \in Stage \ Migrating,
         Go(p, stage), Unlock(p), UNCHANGED <<version, dirty, schema>>,
         stage \in Ready => 1 .. Embedded \subseteq schema
  PROVE  MigrationInv'
<1>1. /\ at'[p] = stage
      /\ \A q \in Process \ {p} : at'[q] = at[q]
  BY GoEffect DEF DatabaseOK
<1>2. \A q \in Process \ {p} : cur'[q] = cur[q]
  BY UnlockEffect DEF DatabaseOK
<1>3. RecordedIsApplied'
  BY DEF RecordedIsApplied, MigrationInv
<1>4. Applied(p)'
  BY <1>1 DEF MigrationInv, Applied, Migrating
<1>5. ASSUME NEW q \in Process \ {p} PROVE Applied(q)'
  BY <1>1, <1>2 DEF MigrationInv, Applied, Last
<1> QED
  BY <1>3, <1>4, <1>5 DEF MigrationInv

\* Only one process migrates: what the others have applied it does not touch.
LEMMA MigrateApplied ==
  ASSUME DatabaseOK, MigrationInv, NEW p \in Process,
         \A q \in Process \ {p} : at[q] \notin Migrating,
         NEW stage \in Migrating, Go(p, stage), schema \subseteq schema'
  PROVE  at'[p] = stage /\ \A q \in Process \ {p} : Applied(q)'
<1>1. /\ at'[p] = stage
      /\ \A q \in Process \ {p} : at'[q] = at[q]
  BY GoEffect DEF DatabaseOK, Migrating, Stage
<1> QED
  BY <1>1 DEF MigrationInv, Applied, Migrating

LEMMA MigrationInit == Init => MigrationInv
  BY LifecycleAssumption DEF Init, MigrationInv, Applied, RecordedIsApplied, Ready, Process

LEMMA MigrationStep == DatabaseOK /\ MigrationInv /\ [Next]_vars => MigrationInv'
<1> SUFFICES ASSUME DatabaseOK, MigrationInv, [Next]_vars PROVE MigrationInv'
  OBVIOUS
<1> USE LifecycleAssumption
<1>1. ASSUME NEW s \in Server, StartServer(s) \/ Start(s) \/ Signal(s) \/ Stop(s)
      PROVE  MigrationInv'
  <2>1. PICK stage \in Stage \ Migrating :
          Go(s, stage) /\ (stage \in Ready => at[s] \in Ready)
    BY <1>1 DEF StartServer, Start, Connect, Register, Signal, Stop, Drain, Flush,
                CloseDatabase, Exit, EndServer, Stage, Migrating, Ready
  <2>2. UNCHANGED <<database, cur>>
    BY <1>1 DEF StartServer, Start, Connect, Register, Signal, Stop, Drain, Flush,
                CloseDatabase, Exit
  <2> QED
    BY <2>1, <2>2, PlainApplied DEF Process
<1>2. ASSUME NEW s \in Server, Serving(s) PROVE MigrationInv'
  BY <1>2 DEF Serving, BeginRequest, EndRequest, Export, BeginPass, EndPass,
              MigrationInv, RecordedIsApplied, Applied, Last, database
<1>3. ASSUME NEW s \in Server, Kill(s) PROVE MigrationInv'
  BY <1>3, LeaveApplied DEF Kill, EndServer, Process, Stage, Migrating, Ready
<1>4. CASE StartJob
  BY <1>4, PlainApplied DEF StartJob, Process, Stage, Migrating, Ready
<1>5. CASE KillJob
  BY <1>5, LeaveApplied DEF KillJob, Process, Stage, Migrating, Ready
<1>6. ASSUME NEW p \in Process, Lock(p) PROVE MigrationInv'
  <2>1. CASE Go(p, "down") /\ UNCHANGED <<lock, cur>>
    BY <1>6, <2>1, PlainApplied DEF Lock, database, Stage, Migrating, Ready
  <2>2. CASE /\ ~dirty /\ ~(version > Last(p))
             /\ Go(p, "apply") /\ cur' = [cur EXCEPT ![p] = version]
    <3>1. lock = NoProcess /\ UNCHANGED <<version, dirty, schema>>
      BY <1>6 DEF Lock
    <3>2. \A q \in Process : at[q] \notin Migrating
      BY <3>1 DEF DatabaseOK, Holds, Process
    <3>3. at'[p] = "apply" /\ \A q \in Process \ {p} : Applied(q)'
      BY <2>2, <3>1, <3>2, MigrateApplied DEF Migrating
    <3>4. Applied(p)'
      BY <2>2, <3>1, <3>3, LastBound DEF Applied, DatabaseOK, Ready, Last
    <3>5. RecordedIsApplied'
      BY <3>1 DEF RecordedIsApplied, MigrationInv
    <3> QED
      BY <3>3, <3>4, <3>5 DEF MigrationInv
  <2> QED
    BY <1>6, <2>1, <2>2 DEF Lock
<1>7. ASSUME NEW p \in Process, WithInstance(p) \/ LockTimeout(p) PROVE MigrationInv'
  BY <1>7, PlainApplied DEF WithInstance, LockTimeout, Stage, Migrating, Ready
<1>8. ASSUME NEW p \in Process, MarkDirty(p) PROVE MigrationInv'
  <2>1. at[p] = "apply" /\ cur[p] = version /\ version \in Nat /\ ~dirty
    BY <1>8 DEF MarkDirty, DatabaseOK, Holds, Migrating, MigrationInv, Applied
  <2>2. \A q \in Process \ {p} : at[q] \notin Migrating
    BY <2>1, OneMigrates DEF Migrating
  <2>3. at'[p] = "run" /\ \A q \in Process \ {p} : Applied(q)'
    BY <1>8, <2>2, MigrateApplied DEF MarkDirty, Migrating
  <2>4. cur'[p] = version + 1 /\ version' = version + 1 /\ dirty' = TRUE /\ schema' = schema
    BY <1>8, <2>1 DEF MarkDirty, DatabaseOK
  <2>5. Applied(p)'
    <3>1. version + 1 <= Last(p)
      BY <1>8, <2>1, LastBound DEF MarkDirty
    <3> QED
      BY <2>3, <2>4, <3>1 DEF Applied, Ready, Last
  <2>6. RecordedIsApplied'
    <3>1. 1 .. version \subseteq schema
      BY <2>1 DEF MigrationInv, RecordedIsApplied
    <3> QED
      BY <2>1, <2>4, <3>1 DEF RecordedIsApplied
  <2> QED
    BY <2>3, <2>5, <2>6 DEF MigrationInv
<1>9. ASSUME NEW p \in Process, RunMigration(p) PROVE MigrationInv'
  <2>1. at[p] = "run" /\ schema' = schema \cup {cur[p]} /\ UNCHANGED <<version, dirty, cur>>
    BY <1>9 DEF RunMigration
  <2>2. \A q \in Process \ {p} : at[q] \notin Migrating
    BY <2>1, OneMigrates DEF Migrating
  <2>3. at'[p] = "clean" /\ \A q \in Process \ {p} : Applied(q)'
    BY <1>9, <2>1, <2>2, MigrateApplied DEF RunMigration, Migrating
  <2>4. Applied(p)'
    BY <2>1, <2>3 DEF Applied, MigrationInv, Ready, Last
  <2>5. RecordedIsApplied'
    BY <2>1 DEF MigrationInv, RecordedIsApplied
  <2> QED
    BY <2>3, <2>4, <2>5 DEF MigrationInv
<1>10. ASSUME NEW p \in Process, MarkClean(p) PROVE MigrationInv'
  <2>1. /\ at[p] = "clean" /\ cur[p] = version /\ cur[p] \in schema /\ cur[p] <= Last(p)
        /\ version' = version /\ ~dirty' /\ UNCHANGED <<schema, cur>>
    BY <1>10 DEF MarkClean, DatabaseOK, Holds, Migrating, MigrationInv, Applied
  <2>2. \A q \in Process \ {p} : at[q] \notin Migrating
    BY <2>1, OneMigrates DEF Migrating
  <2>3. at'[p] = "apply" /\ \A q \in Process \ {p} : Applied(q)'
    BY <1>10, <2>1, <2>2, MigrateApplied DEF MarkClean, Migrating
  <2>4. Applied(p)'
    BY <2>1, <2>3 DEF Applied, Ready, Last
  <2>5. RecordedIsApplied'
    BY <2>1 DEF MigrationInv, RecordedIsApplied
  <2> QED
    BY <2>3, <2>4, <2>5 DEF MigrationInv
<1>11. ASSUME NEW p \in Process, MigrationFails(p) PROVE MigrationInv'
  BY <1>11, LeaveApplied DEF MigrationFails, Stage, Migrating, Ready
<1>12. ASSUME NEW p \in Process, MigrationsDone(p) PROVE MigrationInv'
  <2>1. CASE p = Job
    BY <1>12, <2>1, LeaveApplied DEF MigrationsDone, Stage, Migrating, Ready
  <2>2. CASE p # Job
    <3>1. version = Embedded /\ ~dirty
      BY <1>12, <2>2 DEF MigrationsDone, DatabaseOK, Holds, Migrating, MigrationInv, Applied,
                         Last
    <3>2. 1 .. Embedded \subseteq schema
      BY <3>1 DEF MigrationInv, RecordedIsApplied
    <3> QED
      BY <1>12, <2>2, <3>2, LeaveApplied DEF MigrationsDone, Stage, Migrating
  <2> QED
    BY <2>1, <2>2
<1>13. CASE UNCHANGED vars
  BY <1>13 DEF vars, database, MigrationInv, RecordedIsApplied, Applied, Last
<1> QED
  BY <1>1, <1>2, <1>3, <1>4, <1>5, <1>6, <1>7, <1>8, <1>9, <1>10, <1>11, <1>12, <1>13
  DEF Next, Migrate

\* What the servers and the job have in common with the database.
LEMMA MigrationSafe == Spec => [](DatabaseOK /\ MigrationInv)
<1>1. Init => DatabaseOK /\ MigrationInv
  BY TypeInit, MigrationInit
<1>2. DatabaseOK /\ MigrationInv /\ [Next]_vars => (DatabaseOK /\ MigrationInv)'
  BY DatabaseStep, MigrationStep
<1> QED
  BY <1>1, <1>2, PTL DEF Spec

\* What schema_migrations records has been applied (golang-migrate under
\* RunMigrations), for any servers and jobs migrating one database and
\* wherever each of them is stopped.
THEOREM MigrationsRecorded == Spec => []RecordedIsApplied
<1>1. MigrationInv => RecordedIsApplied
  BY DEF MigrationInv
<1> QED
  BY <1>1, MigrationSafe, PTL

\* A server serves only when the migrations it embeds have been applied
\* (main.go exits when RunMigrations fails), though other processes migrate,
\* fail and are killed at the same time.
THEOREM ServersMigrated == Spec => []ServingIsMigrated
<1>1. MigrationInv => ServingIsMigrated
  BY DEF MigrationInv, ServingIsMigrated, Applied, Ready, Process
<1> QED
  BY <1>1, MigrationSafe, PTL

-----------------------------------------------------------------------------
(***************************************************************************)
(* The stop.  StopIsOrderly speaks of what was lost; StopInv adds what a   *)
(* server in each stage of the stop may still lose.                        *)
(***************************************************************************)
MayLose(s) ==
  /\ ticking[s] => at[s] = "serving"
  /\ at[s] \in {"drain", "flush", "close", "exit"} /\ pass[s] => "pass" \in excuse[s]
  /\ at[s] \in {"flush", "close", "exit"} /\ inflight[s] > 0 => "drain" \in excuse[s]
  /\ at[s] \in {"close", "exit"} /\ unexported[s]
       => excuse[s] \cap {"drain", "flush"} # {}

HasLost(s) ==
  /\ "handlers" \in damage[s] => "drain" \in excuse[s]
  /\ "pass" \in damage[s] => "pass" \in excuse[s]
  /\ "spans" \in damage[s] => excuse[s] \cap {"drain", "flush"} # {}

StopInv == \A s \in Server : MayLose(s) /\ HasLost(s)

LEMMA StopInit == Init => StopInv
  BY DEF Init, StopInv, MayLose, HasLost, Process

\* A step of a server leaves the others as they are.
LEMMA OtherServers ==
  ASSUME DatabaseOK, WorkOK, NEW s \in Server, NEW r \in Server \ {s},
         StartServer(s) \/ Start(s) \/ Serving(s) \/ Signal(s) \/ Stop(s) \/ Kill(s)
  PROVE  /\ at'[r] = at[r] /\ inflight'[r] = inflight[r] /\ unexported'[r] = unexported[r]
         /\ pass'[r] = pass[r] /\ ticking'[r] = ticking[r]
         /\ excuse'[r] = excuse[r] /\ damage'[r] = damage[r]
<1> USE DEF DatabaseOK, WorkOK, Process, Go, Note, work
<1>1. CASE StartServer(s) \/ Start(s)
  BY <1>1 DEF StartServer, Start, Connect, Register
<1>2. CASE Serving(s)
  BY <1>2 DEF Serving, BeginRequest, EndRequest, Export, BeginPass, EndPass
<1>3. CASE Signal(s) \/ Drain(s) \/ Flush(s) \/ CloseDatabase(s)
  BY <1>3 DEF Signal, Drain, Flush, CloseDatabase
<1>4. CASE Exit(s)
  BY <1>4 DEF Exit, EndServer
<1>5. CASE Kill(s)
  BY <1>5 DEF Kill, EndServer
<1> QED
  BY <1>1, <1>2, <1>3, <1>4, <1>5 DEF Stop

LEMMA StopStep == DatabaseOK /\ WorkOK /\ StopInv /\ [Next]_vars => StopInv'
<1> SUFFICES ASSUME DatabaseOK, WorkOK, StopInv, [Next]_vars PROVE StopInv'
  OBVIOUS
<1>1. ASSUME NEW s \in Server,
             StartServer(s) \/ Start(s) \/ Serving(s) \/ Signal(s) \/ Stop(s) \/ Kill(s)
      PROVE  StopInv'
  <2> USE DEF DatabaseOK, WorkOK, Process, Go, Note, work, MayLose, HasLost
  <2>0. MayLose(s) /\ HasLost(s)
    BY DEF StopInv
  <2>1. ASSUME NEW r \in Server \ {s} PROVE (MayLose(r) /\ HasLost(r))'
    <3>1. MayLose(r) /\ HasLost(r)
      BY DEF StopInv
    <3> QED
      BY <1>1, <3>1, OtherServers
  <2>2. (MayLose(s) /\ HasLost(s))'
    <3>1. CASE StartServer(s)
      BY <2>0, <3>1 DEF StartServer
    <3>2. CASE Start(s)
      BY <2>0, <3>2 DEF Start, Connect, Register
    <3>3. CASE BeginRequest(s) \/ Export(s)
      BY <2>0, <3>3 DEF BeginRequest, Export
    <3>4. CASE EndRequest(s)
      BY <2>0, <3>4 DEF EndRequest
    <3>5. CASE BeginPass(s) \/ EndPass(s)
      BY <2>0, <3>5 DEF BeginPass, EndPass
    <3>6. CASE Signal(s)
      BY <2>0, <3>6 DEF Signal
    <3>7. CASE Drain(s)
      BY <2>0, <3>7 DEF Drain
    <3>8. CASE Flush(s)
      BY <2>0, <3>8 DEF Flush
    <3>9. CASE CloseDatabase(s)
      BY <2>0, <3>9 DEF CloseDatabase
    <3>10. CASE Exit(s)
      BY <2>0, <3>10 DEF Exit, EndServer, CutOff
    <3>11. CASE Kill(s)
      BY <2>0, <3>11 DEF Kill, EndServer
    <3> QED
      BY <1>1, <3>1, <3>2, <3>3, <3>4, <3>5, <3>6, <3>7, <3>8, <3>9, <3>10, <3>11
      DEF Serving, Stop
  <2> QED
    BY <2>1, <2>2 DEF StopInv
<1>2. ASSUME NEW p \in Process, Migrate(p) \/ (p = Job /\ (StartJob \/ KillJob))
      PROVE  StopInv'
  <2>1. PICK stage \in Stage \ {"serving", "drain", "flush", "close", "exit"} : Go(p, stage)
    BY <1>2 DEF Migrate, WithInstance, Lock, LockTimeout, MarkDirty, RunMigration, MarkClean,
                MigrationFails, MigrationsDone, StartJob, KillJob, Stage
  <2>2. at[p] # "serving" \/ p = Job
    BY <1>2 DEF Migrate, WithInstance, Lock, LockTimeout, MarkDirty, RunMigration, MarkClean,
                MigrationFails, MigrationsDone
  <2>3. UNCHANGED work
    BY <1>2 DEF Migrate, WithInstance, Lock, LockTimeout, MarkDirty, RunMigration, MarkClean,
                MigrationFails, MigrationsDone, StartJob, KillJob
  <2>4. at'[p] = stage /\ \A q \in Process \ {p} : at'[q] = at[q]
    BY <2>1, GoEffect DEF DatabaseOK
  <2>5. ASSUME NEW s \in Server PROVE (MayLose(s) /\ HasLost(s))'
    BY <2>1, <2>2, <2>3, <2>4, LifecycleAssumption
    DEF StopInv, MayLose, HasLost, work, Process
  <2> QED
    BY <2>5 DEF StopInv
<1>3. CASE UNCHANGED vars
  BY <1>3 DEF vars, work, StopInv, MayLose, HasLost
<1> QED
  BY <1>1, <1>2, <1>3 DEF Next, Process

\* A stop of main.go loses a handler only after shutdownTimeout, a webhook pass
\* only if the signal came in it, and spans only if the drain timed out or the
\* flush failed, for any number of handlers and wherever other processes
\* are.
THEOREM StopLosesLittle == Spec => []StopIsOrderly
<1>1. Init => DatabaseOK /\ WorkOK /\ StopInv
  BY TypeInit, StopInit
<1>2. DatabaseOK /\ WorkOK /\ StopInv /\ [Next]_vars => (DatabaseOK /\ WorkOK /\ StopInv)'
  BY DatabaseStep, WorkStep, StopStep
<1>3. StopInv => StopIsOrderly
  BY DEF StopInv, StopIsOrderly, HasLost
<1> QED
  BY <1>1, <1>2, <1>3, PTL DEF Spec

=============================================================================
