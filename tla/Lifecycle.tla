----------------------------- MODULE Lifecycle -----------------------------
(***************************************************************************)
(* The life of the server: cmd/api/main.go.  It sets up telemetry, opens   *)
(* the database, runs the migrations it embeds, registers the routes and   *)
(* serves, with the webhook dispatcher on a ticker beside the handlers; a  *)
(* signal stops the ticker, drains the handlers, flushes telemetry, closes *)
(* the database and ends the process.  Several servers may run, and the    *)
(* migrate job of docker-compose.yml migrates the same database.           *)
(*                                                                         *)
(* golang-migrate is external: it creates schema_migrations under an       *)
(* advisory lock; then, under the same lock, it marks a version dirty,     *)
(* runs its file as one statement batch and marks it clean.                *)
(*                                                                         *)
(* Abstractions.  schema is the set of migrations whose tables exist.  Of  *)
(* a handler only that it runs counts, of its spans whether all were       *)
(* exported.  The metrics server, the health routes and the rate limiter's *)
(* goroutine keep nothing that outlives the process.                       *)
(***************************************************************************)
EXTENDS Naturals

CONSTANTS Server,       \* processes of cmd/api
          Job,          \* the migrate job
          NoProcess,    \* nobody holds the lock
          Embedded,     \* last migration in internal/pkg/db/migrations
          Available,    \* last migration in db/migrations
          Broken,       \* migrations whose SQL fails: 0008 to 0010 refer to a
                        \* table orgs that none creates
          MaxInFlight,  \* bound on the handlers of a server
          Faults        \* "db", "otlp": a call of the database or of the
                        \* collector may fail; "listen": the port may be
                        \* taken; "crash": a process may stop

ASSUME LifecycleAssumption ==
  /\ Job \notin Server /\ NoProcess \notin Server \cup {Job}
  /\ Embedded \in Nat /\ Available \in Nat /\ MaxInFlight \in Nat
  /\ Embedded <= Available
  /\ Broken \subseteq Embedded + 1 .. Available
  /\ Faults \subseteq {"db", "otlp", "listen", "crash"}

Process == Server \cup {Job}

VARIABLES
  version, dirty,  \* schema_migrations
  lock,            \* holder of the advisory lock
  schema,          \* migrations whose tables exist
  at,              \* where each process is
  cur,             \* version a migrating process works on
  inflight,        \* handlers running in each server
  unexported,      \* finished handlers have spans that were not exported
  pass,            \* ProcessPending is running
  ticking          \* the dispatcher's ticker runs

(***************************************************************************)
(* History variables, reset when the server starts.                        *)
(***************************************************************************)
VARIABLES
  excuse,  \* what went wrong while the server stopped: "drain" timed out,
           \* "flush" failed, or the signal came in a "pass"
  damage   \* what the stop cut off: "handlers", "spans", a "pass"

database == <<version, dirty, lock, schema>>
work     == <<inflight, unexported, pass, ticking, excuse, damage>>
vars     == <<database, at, cur, work>>

-----------------------------------------------------------------------------
Stage == {"down", "connect", "instance", "lock", "apply", "run", "clean",
          "register", "serving", "drain", "flush", "close", "exit"}

Last(p) == IF p = Job THEN Available ELSE Embedded

\* The database is new, or docker-entrypoint-initdb.d has run the files up to
\* the first that fails, without golang-migrate's records.
Init ==
  /\ version = 0 /\ dirty = FALSE
  /\ lock = NoProcess
  /\ schema \in {{}, 1 .. Embedded}
  /\ at = [p \in Process |-> "down"]
  /\ cur = [p \in Process |-> 0]
  /\ inflight = [s \in Server |-> 0]
  /\ unexported = [s \in Server |-> FALSE]
  /\ pass = [s \in Server |-> FALSE]
  /\ ticking = [s \in Server |-> FALSE]
  /\ excuse = [s \in Server |-> {}]
  /\ damage = [s \in Server |-> {}]

DbFails   == "db" \in Faults
OtlpFails == "otlp" \in Faults

Go(p, stage)   == at' = [at EXCEPT ![p] = stage]
\* The session of the process ends or unlocks.
Unlock(p)      == /\ lock' = IF lock = p THEN NoProcess ELSE lock
                  /\ cur' = [cur EXCEPT ![p] = 0]
Note(var, s, n) == [var EXCEPT ![s] = @ \cup {n}]

-----------------------------------------------------------------------------
(***************************************************************************)
(* Start.                                                                  *)
(***************************************************************************)
StartServer(s) ==
  /\ at[s] = "down"
  /\ Go(s, "connect")
  /\ excuse' = [excuse EXCEPT ![s] = {}] /\ damage' = [damage EXCEPT ![s] = {}]
  /\ UNCHANGED <<database, cur, inflight, unexported, pass, ticking>>

\* Docker starts the job with the database, and again when it failed.
StartJob ==
  /\ at[Job] = "down"
  /\ Go(Job, "instance")
  /\ UNCHANGED <<database, cur, work>>

\* telemetry.Init, db.Open and Ping; main exits if one fails.
Connect(s) ==
  /\ at[s] = "connect"
  /\ \/ Go(s, "instance")
     \/ (OtlpFails \/ DbFails) /\ Go(s, "down")
  /\ UNCHANGED <<database, cur, work>>

-----------------------------------------------------------------------------
(***************************************************************************)
(* RunMigrations: WithInstance and m.Up of golang-migrate.                 *)
(***************************************************************************)
\* WithInstance takes the lock, for which it waits without a deadline, makes
\* sure that schema_migrations exists and unlocks.
WithInstance(p) ==
  /\ at[p] = "instance" /\ lock = NoProcess
  /\ Go(p, "lock")
  /\ UNCHANGED <<database, cur, work>>

\* mutant: no advisory lock
LockFree(p) ==
  /\ at[p] = "lock"
  /\ IF dirty \/ version > Last(p) THEN Go(p, "down") /\ UNCHANGED <<lock, cur>>
     ELSE Go(p, "apply") /\ cur' = [cur EXCEPT ![p] = version] /\ UNCHANGED lock
  /\ UNCHANGED <<version, dirty, schema, work>>

\* The lock is taken and the version read: a dirty version, or one whose file
\* is not there, is an error.
Lock(p) ==
  /\ at[p] = "lock" /\ lock = NoProcess
  /\ IF dirty \/ version > Last(p) THEN Go(p, "down") /\ UNCHANGED <<lock, cur>>
     ELSE Go(p, "apply") /\ lock' = p /\ cur' = [cur EXCEPT ![p] = version]
  /\ UNCHANGED <<version, dirty, schema, work>>

\* ErrLockTimeout: m.Up gives up after 15 s, in which another process migrates
\* or is in WithInstance.
LockTimeout(p) ==
  /\ at[p] = "lock"
  /\ lock # NoProcess \/ \E q \in Process : at[q] = "instance"
  /\ Go(p, "down")
  /\ UNCHANGED <<database, cur, work>>

MarkDirty(p) ==
  /\ at[p] = "apply" /\ cur[p] < Last(p)
  /\ cur' = [cur EXCEPT ![p] = @ + 1]
  /\ version' = cur[p] + 1 /\ dirty' = TRUE
  /\ Go(p, "run")
  /\ UNCHANGED <<lock, schema, work>>

\* The file of the migration; an error leaves the version dirty.
RunMigration(p) ==
  /\ at[p] = "run" /\ cur[p] \notin Broken
  /\ schema' = schema \cup {cur[p]}
  /\ Go(p, "clean")
  /\ UNCHANGED <<version, dirty, lock, cur, work>>

\* mutant: the version is marked clean though its file failed
MarkCleanAlways(p) ==
  /\ at[p] \in {"run", "clean"}
  /\ version' = cur[p] /\ dirty' = FALSE
  /\ Go(p, "apply")
  /\ UNCHANGED <<lock, schema, cur, work>>

MarkClean(p) ==
  /\ at[p] = "clean"
  /\ version' = cur[p] /\ dirty' = FALSE
  /\ Go(p, "apply")
  /\ UNCHANGED <<lock, schema, cur, work>>

\* mutant: main logs the error and goes on
GoOnUnmigrated(p) ==
  /\ at[p] \in {"instance", "lock", "apply", "run", "clean"}
  /\ DbFails \/ (at[p] = "run" /\ cur[p] \in Broken)
  /\ Unlock(p)
  /\ Go(p, IF p = Job THEN "down" ELSE "register")
  /\ UNCHANGED <<version, dirty, schema, work>>

\* RunMigrations returns an error: main, and the job, exit.
MigrationFails(p) ==
  /\ at[p] \in {"instance", "lock", "apply", "run", "clean"}
  /\ DbFails \/ (at[p] = "run" /\ cur[p] \in Broken)
  /\ Unlock(p)
  /\ Go(p, "down")
  /\ UNCHANGED <<version, dirty, schema, work>>

\* Nothing is left to apply.
MigrationsDone(p) ==
  /\ at[p] = "apply" /\ cur[p] = Last(p)
  /\ Unlock(p)
  /\ Go(p, IF p = Job THEN "down" ELSE "register")
  /\ UNCHANGED <<version, dirty, schema, work>>

-----------------------------------------------------------------------------
(***************************************************************************)
(* Serving.                                                                *)
(***************************************************************************)
\* The migrations whose tables the handlers of each group of routes use.
RouteTables == [auth     |-> {1, 3, 11},
                me       |-> {1},
                context  |-> {1, 5},
                orgs     |-> {1, 4, 5, 7},
                projects |-> {1, 2, 4, 5, 7},
                audit    |-> {1, 4, 5, 7},
                apiKeys  |-> {1, 4, 5, 7, 8},
                webhooks |-> {1, 5, 9},
                billing  |-> {1, 5, 10},
                storage  |-> {1, 5, 6}]

\* router.Register, which panics without a pool or a client of the object
\* store; then the ticker and the listener.
Register(s) ==
  /\ at[s] = "register"
  /\ Go(s, "serving")
  /\ ticking' = [ticking EXCEPT ![s] = TRUE]
  /\ UNCHANGED <<database, cur, inflight, unexported, pass, excuse, damage>>

\* Until Shutdown closes the listener requests come in.
BeginRequest(s) ==
  /\ at[s] = "serving" /\ inflight[s] < MaxInFlight
  /\ inflight' = [inflight EXCEPT ![s] = @ + 1]
  /\ UNCHANGED <<database, at, cur, unexported, pass, ticking, excuse, damage>>

\* A handler ends its span.  After the provider's Shutdown that is dropped.
EndRequest(s) ==
  /\ inflight[s] > 0
  /\ inflight' = [inflight EXCEPT ![s] = @ - 1]
  /\ IF at[s] \in {"close", "exit"}
       THEN damage' = Note(damage, s, "spans") /\ UNCHANGED unexported
       ELSE unexported' = [unexported EXCEPT ![s] = TRUE] /\ UNCHANGED damage
  /\ UNCHANGED <<database, at, cur, pass, ticking, excuse>>

\* The batcher exports every 5 s.
Export(s) ==
  /\ unexported[s] /\ at[s] \in {"serving", "drain"}
  /\ unexported' = [unexported EXCEPT ![s] = FALSE]
  /\ UNCHANGED <<database, at, cur, inflight, pass, ticking, excuse, damage>>

\* A tick of whTicker starts ProcessPending.
BeginPass(s) ==
  /\ ticking[s] /\ ~pass[s]
  /\ pass' = [pass EXCEPT ![s] = TRUE]
  /\ UNCHANGED <<database, at, cur, inflight, unexported, ticking, excuse, damage>>

EndPass(s) ==
  /\ pass[s]
  /\ pass' = [pass EXCEPT ![s] = FALSE]
  /\ UNCHANGED <<database, at, cur, inflight, unexported, ticking, excuse, damage>>

-----------------------------------------------------------------------------
(***************************************************************************)
(* Stop.                                                                   *)
(***************************************************************************)
\* mutant: the ticker goes on
SignalTicking(s) ==
  /\ at[s] = "serving"
  /\ Go(s, "drain")
  /\ excuse' = IF pass[s] THEN Note(excuse, s, "pass") ELSE excuse
  /\ UNCHANGED <<database, cur, inflight, unexported, pass, ticking, damage>>

\* main receives SIGINT or SIGTERM and stops the ticker; a pass goes on.
Signal(s) ==
  /\ at[s] = "serving"
  /\ Go(s, "drain")
  /\ ticking' = [ticking EXCEPT ![s] = FALSE]
  /\ excuse' = IF pass[s] THEN Note(excuse, s, "pass") ELSE excuse
  /\ UNCHANGED <<database, cur, inflight, unexported, pass, damage>>

\* mutant: Shutdown without a deadline
DrainForever(s) ==
  /\ at[s] = "drain" /\ inflight[s] = 0
  /\ Go(s, "flush")
  /\ UNCHANGED <<database, cur, work>>

\* srv.Shutdown returns when the handlers are done, or after shutdownTimeout.
Drain(s) ==
  /\ at[s] = "drain"
  /\ Go(s, "flush")
  /\ excuse' = IF inflight[s] = 0 THEN excuse ELSE Note(excuse, s, "drain")
  /\ UNCHANGED <<database, cur, inflight, unexported, pass, ticking, damage>>

\* The providers export what they hold and stop.  The collector may fail, and
\* the drain may have left too little of shutdownTimeout.
Flush(s) ==
  /\ at[s] = "flush"
  /\ Go(s, "close")
  /\ \/ unexported' = [unexported EXCEPT ![s] = FALSE] /\ UNCHANGED excuse
     \/ excuse' = Note(excuse, s, "flush") /\ UNCHANGED unexported
  /\ UNCHANGED <<database, cur, inflight, pass, ticking, damage>>

\* The pool of main and of the dispatcher is closed: a pass that still runs
\* cannot record what it sent.  The pool of the handlers is never closed.
CloseDatabase(s) ==
  /\ at[s] = "close"
  /\ Go(s, "exit")
  /\ damage' = IF pass[s] THEN Note(damage, s, "pass") ELSE damage
  /\ UNCHANGED <<database, cur, inflight, unexported, pass, ticking, excuse>>

\* What the end of a process cuts off.
CutOff(s) == (IF inflight[s] > 0 THEN {"handlers"} ELSE {})
             \cup (IF unexported[s] THEN {"spans"} ELSE {})

EndServer(s) ==
  /\ Go(s, "down")
  /\ inflight' = [inflight EXCEPT ![s] = 0]
  /\ unexported' = [unexported EXCEPT ![s] = FALSE]
  /\ pass' = [pass EXCEPT ![s] = FALSE]
  /\ ticking' = [ticking EXCEPT ![s] = FALSE]

\* main returns.
Exit(s) ==
  /\ at[s] = "exit"
  /\ EndServer(s)
  /\ damage' = [damage EXCEPT ![s] = @ \cup CutOff(s)]
  /\ UNCHANGED <<database, cur, excuse>>

\* The process ends where it is: os.Exit when ListenAndServe fails, a panic of
\* Register, a signal before signal.Notify, or a crash.  Its session ends and
\* frees the lock.
Kill(s) ==
  /\ \/ at[s] = "serving" /\ "listen" \in Faults
     \/ at[s] \in {"connect", "instance", "lock", "apply", "run", "clean", "register"}
     \/ at[s] # "down" /\ "crash" \in Faults
  /\ EndServer(s)
  /\ Unlock(s)
  /\ UNCHANGED <<version, dirty, schema, excuse, damage>>

KillJob ==
  /\ at[Job] # "down" /\ "crash" \in Faults
  /\ Go(Job, "down")
  /\ Unlock(Job)
  /\ UNCHANGED <<version, dirty, schema, work>>

-----------------------------------------------------------------------------
Migrate(p) == \/ WithInstance(p) \/ Lock(p) \/ LockTimeout(p) \/ MarkDirty(p)
              \/ RunMigration(p) \/ MarkClean(p) \/ MigrationFails(p)
              \/ MigrationsDone(p)
Start(s)   == Connect(s) \/ Register(s)
Stop(s)    == Drain(s) \/ Flush(s) \/ CloseDatabase(s) \/ Exit(s)
Serving(s) == \/ BeginRequest(s) \/ EndRequest(s) \/ Export(s)
              \/ BeginPass(s) \/ EndPass(s)

Next ==
  \/ \E s \in Server : \/ StartServer(s) \/ Start(s) \/ Serving(s)
                       \/ Signal(s) \/ Stop(s) \/ Kill(s)
  \/ \E p \in Process : Migrate(p)
  \/ StartJob \/ KillJob

Spec == Init /\ [][Next]_vars

\* A stopping main goes on: its drain and its flush share a deadline.  That a
\* start goes on is not assumed, since Ping, WithInstance and the migrations
\* wait without one, nor that a handler or a pass ends.
Fairness == \A s \in Server : WF_vars(Stop(s))
FairSpec == Spec /\ Fairness

-----------------------------------------------------------------------------
\* The variables have their types; who applies migrations holds the lock, and
\* only a server that serves or stops has handlers, spans and passes.
TypeOK ==
  /\ version \in 0 .. Available /\ dirty \in BOOLEAN
  /\ lock \in Process \cup {NoProcess}
  /\ schema \subseteq 1 .. Available
  /\ at \in [Process -> Stage]
  /\ cur \in [Process -> 0 .. Available]
  /\ inflight \in [Server -> 0 .. MaxInFlight]
  /\ unexported \in [Server -> BOOLEAN]
  /\ pass \in [Server -> BOOLEAN] /\ ticking \in [Server -> BOOLEAN]
  /\ excuse \in [Server -> SUBSET {"drain", "flush", "pass"}]
  /\ damage \in [Server -> SUBSET {"handlers", "spans", "pass"}]
  /\ \A p \in Process : at[p] \in {"apply", "run", "clean"} => lock = p /\ cur[p] = version

\* The database's record is right: every migration up to a version that is not
\* dirty has been applied, and up to a dirty one every migration but it,
\* whatever servers and jobs ran at once and wherever they were stopped.
RecordedIsApplied ==
  1 .. version \subseteq schema \cup (IF dirty THEN {version} ELSE {})

\* No server serves before the migrations it embeds are applied, though
\* another process may migrate, fail or be killed at the same time.
ServingIsMigrated ==
  \A s \in Server : at[s] \in {"serving", "drain", "flush", "close", "exit"}
                      => 1 .. Embedded \subseteq schema

\* What a stop loses.  Handlers are cut off only if they outlived
\* shutdownTimeout; a webhook pass only if it ran when the signal came, since
\* no tick starts one while the handlers are drained; and spans are lost only
\* if the drain timed out or the flush failed, since telemetry is flushed after
\* the last handler.
StopIsOrderly ==
  \A s \in Server :
    /\ "handlers" \in damage[s] => "drain" \in excuse[s]
    /\ "pass" \in damage[s] => "pass" \in excuse[s]
    /\ "spans" \in damage[s] => excuse[s] \cap {"drain", "flush"} # {}

\* A server that got its signal ends, even if a handler or a webhook pass never
\* returns, the collector does not answer, or another process hangs in its
\* migrations: shutdownTimeout bounds the drain and the flush.
StopEnds ==
  \A s \in Server : at[s] \in {"drain", "flush", "close", "exit"} ~> at[s] = "down"

\* A server that serves has the tables of its routes: MIGRATIONS.md promises a
\* database that is always up to date.
SchemaUpToDate ==
  \A s \in Server : at[s] = "serving" =>
    \A group \in DOMAIN RouteTables : RouteTables[group] \subseteq schema

=============================================================================
