------------------------------ MODULE MysqlFlavour ------------------------------
(***************************************************************************)
(* The MySQL flavour of the SQL schema connector                          *)
(* (schema-engine/connectors/sql-schema-connector/src/flavour/mysql.rs),  *)
(* used by several schema-engine processes against one MySQL server.      *)
(*                                                                         *)
(* Each engine owns a MysqlConnector.  Its State starts as WithParams      *)
(* (new_with_params); with_connection connects on first use and moves it  *)
(* to Connected, then runs the operation on that connection.  The         *)
(* operations with an effect on the server are modelled: acquire_lock     *)
(* (GET_LOCK), reset (DROP, CREATE, USE), the shadow-database lifecycle of *)
(* sql_schema_from_migration_history without an external shadow database, *)
(* create_database and drop_database on their own connection, and the     *)
(* pass-through operations (raw_cmd, query, apply_migration_script, ...).  *)
(* Every await is a point where other engines' steps interleave; the      *)
(* server may close any connection at any time, which releases the        *)
(* session's advisory lock.                                               *)
(***************************************************************************)
EXTENDS Naturals, FiniteSets

CONSTANTS
    Engines,   \* the schema-engine processes sharing the server
    NoOwner    \* the advisory lock is free

ASSUME NoOwner \notin Engines

VARIABLES
    server,     \* [vitess : BOOLEAN, planetscale : BOOLEAN] (read-only)
    url,        \* dbname_or_default of the connection string (read-only)
    shadowUrl,  \* the database of shadow_database_connection_string (read-only)
    role,       \* engine -> the connector it drives: "main", or "shadow", the
                \* connector connect_to_shadow_db builds for an external shadow
                \* database (read-only)
    state,      \* engine -> "WithParams" or "Connected"
    alive,      \* engine -> the Connected connection is usable
    vitess,     \* engine -> Circumstances::IsVitess, detected when connecting
    pc,         \* engine -> the operation in progress and the await it is at
    lockOwner,  \* the session holding GET_LOCK('prisma_migrate'), or NoOwner
    acquired,   \* engine -> acquire_lock returned Ok on this connection
    dbs,        \* the databases on the server, shadow databases aside
    shadows,    \* engines whose shadow database exists on the server
    ret,        \* engine -> the shadow migration result kept until cleanup
    dropFailed, \* engines whose shadow DROP DATABASE failed
    extShadow   \* engines in the external-shadow path (UsingExternalShadowDb::Yes)

config == <<server, url, shadowUrl, role>>

vars == <<config, state, alive, vitess, pc, lockOwner, acquired, dbs,
          shadows, ret, dropFailed, extShadow>>

\* Operations entered through with_connection, and the awaits inside them.
Ops == {"lock", "reset", "shadow", "ext_shadow", "cmd"}

\* An application database, and "sys": a name MYSQL_SYSTEM_DATABASES
\* matches that DROP DATABASE accepts on every MySQL version ("mysql", the
\* default of dbname_or_default, is protected by the server from 8.0 on).
AppDb == "app"
ShadowDb == "shadow"
SystemDbs == {"sys"}
DbNames == {AppDb, ShadowDb} \cup SystemDbs

\* The database of the connector an engine drives.
Db(e) == IF role[e] = "main" THEN url ELSE shadowUrl

Pcs == Ops \cup {"idle", "lock_wait", "reset_create", "reset_use",
                 "shadow_migrate", "shadow_drop",
                 "ext_best_effort", "ext_migrate"}

\* Return from the operation (with Ok or Err; the caller sees the result).
Return(e) == pc' = [pc EXCEPT ![e] = "idle"]

\* A session closes: MySQL releases the advisory lock it held.
Release(e) == lockOwner' = IF lockOwner = e THEN NoOwner ELSE lockOwner

-----------------------------------------------------------------------------
Init ==
    /\ server \in {s \in [vitess : BOOLEAN, planetscale : BOOLEAN] : s.planetscale => s.vitess}
    /\ state = [e \in Engines |-> "WithParams"]
    /\ alive = [e \in Engines |-> FALSE]
    /\ vitess = [e \in Engines |-> FALSE]
    /\ pc = [e \in Engines |-> "idle"]
    /\ lockOwner = NoOwner
    /\ acquired = [e \in Engines |-> FALSE]
    /\ url \in {AppDb} \cup SystemDbs
    \* Params::new refuses a shadow connection string that matches the main
    \* one; two different strings can still name one database, so the
    \* shadow database may be any database.
    /\ shadowUrl \in {AppDb, ShadowDb}
    /\ role \in [Engines -> {"main", "shadow"}]
    /\ dbs \in {D \cup SystemDbs : D \in SUBSET {AppDb, ShadowDb}}
    /\ shadows = {}
    /\ ret = [e \in Engines |-> "none"]
    /\ dropFailed = {}
    /\ extShadow = {}

(***************************************************************************)
(* with_connection(state, f): Connected runs f on the connection;          *)
(* WithParams connects first (Connection::new, the version and             *)
(* lower_case_table_names queries setting the Circumstances), stores the   *)
(* connection and runs f.  A failed connect returns the error and leaves   *)
(* the state as it was, which changes nothing modelled: Connection::new    *)
(* fails on a database the server does not have, and the SystemDatabase   *)
(* error follows for a system database name, which is why a call in       *)
(* either case is not a step.                                             *)
(***************************************************************************)
WithConnection(e, op) ==
    /\ pc[e] = "idle"
    /\ state[e] = "Connected" \/ (Db(e) \in dbs /\ Db(e) \notin SystemDbs)
    /\ pc' = [pc EXCEPT ![e] = op]
    /\ IF state[e] = "Connected"
         THEN UNCHANGED <<state, alive, vitess>>
         ELSE /\ state' = [state EXCEPT ![e] = "Connected"]
              /\ alive' = [alive EXCEPT ![e] = TRUE]
              \* IsVitess when @@version names Vitess.  The code sets no
              \* circumstance when the versions row is missing; every server
              \* modelled answers SELECT @@version, @@GLOBAL.version with one.
              /\ vitess' = [vitess EXCEPT ![e] = server.vitess]
    /\ UNCHANGED <<config, lockOwner, acquired, dbs, shadows, ret, dropFailed, extShadow>>

\* The shadow connector is only asked for the external-shadow path.
Call(e) ==
    \E op \in IF role[e] = "main" THEN Ops \ {"ext_shadow"} ELSE {"ext_shadow"} :
        WithConnection(e, op)

(***************************************************************************)
(* acquire_lock: no lock on PlanetScale; otherwise                         *)
(* SELECT GET_LOCK('prisma_migrate', 10) through raw_cmd.  GET_LOCK        *)
(* returns 1 when the session gets (or already has) the lock, and blocks   *)
(* while another session holds it, returning 0 after the timeout.          *)
(***************************************************************************)
AcquireLock(e) ==
    /\ pc[e] = "lock"
    /\ CASE server.planetscale ->
              /\ acquired' = [acquired EXCEPT ![e] = TRUE]
              /\ Return(e) /\ UNCHANGED lockOwner
         [] ~alive[e] ->
              Return(e) /\ UNCHANGED <<lockOwner, acquired>>
         [] lockOwner \in {NoOwner, e} ->
              /\ lockOwner' = e
              /\ acquired' = [acquired EXCEPT ![e] = TRUE]
              /\ Return(e)
         [] OTHER ->
              /\ pc' = [pc EXCEPT ![e] = "lock_wait"]
              /\ UNCHANGED <<lockOwner, acquired>>
    /\ UNCHANGED <<config, state, alive, vitess, dbs, shadows, ret, dropFailed, extShadow>>

\* The holder released the lock while GET_LOCK was waiting: it returns 1.
LockGranted(e) ==
    /\ pc[e] = "lock_wait"
    /\ alive[e]
    /\ lockOwner = NoOwner
    /\ lockOwner' = e
    /\ acquired' = [acquired EXCEPT ![e] = TRUE]
    /\ Return(e)
    /\ UNCHANGED <<config, state, alive, vitess, dbs, shadows, ret, dropFailed, extShadow>>

\* Mutant: GET_LOCK with a negative timeout waits until the lock is free.
LockTimeoutInfinite(e) ==
    /\ pc[e] = "lock_wait"
    /\ ~alive[e]
    /\ acquired' = acquired
    /\ Return(e)
    /\ UNCHANGED <<config, state, alive, vitess, lockOwner, dbs, shadows, ret, dropFailed, extShadow>>

\* ADVISORY_LOCK_TIMEOUT elapses: GET_LOCK returns 0, which raw_cmd does
\* not look at, so acquire_lock returns Ok.  A closed connection ends the
\* wait with an error.
LockTimeout(e) ==
    /\ pc[e] = "lock_wait"
    /\ lockOwner \notin {NoOwner, e} \/ ~alive[e]
    /\ acquired' = IF alive[e] THEN [acquired EXCEPT ![e] = TRUE] ELSE acquired
    /\ Return(e)
    /\ UNCHANGED <<config, state, alive, vitess, lockOwner, dbs, shadows, ret, dropFailed, extShadow>>

\* raw_cmd, query, query_raw, describe_schema, apply_migration_script,
\* version, ...: f runs on the connection and changes nothing modelled
\* (create_migrations_table and drop_migrations_table are raw_cmd calls).
PassThrough(e) ==
    /\ pc[e] = "cmd"
    /\ Return(e)
    /\ UNCHANGED <<config, state, alive, vitess, lockOwner, acquired, dbs,
                   shadows, ret, dropFailed, extShadow>>
(***************************************************************************)
(* reset: refused on Vitess; otherwise DROP DATABASE, CREATE DATABASE and *)
(* USE, each awaited, each returning early with its error.  Its result    *)
(* goes to the caller: the command, or the external-shadow path.           *)
(***************************************************************************)
ResetDone(e, ok) ==
    pc' = [pc EXCEPT ![e] = IF e \notin extShadow THEN "idle"
                            ELSE IF ok THEN "ext_migrate" ELSE "ext_best_effort"]

Reset(e) ==
    /\ pc[e] = "reset"
    /\ IF vitess[e] \/ ~alive[e] \/ Db(e) \notin dbs
         THEN ResetDone(e, FALSE) /\ UNCHANGED dbs
         ELSE /\ dbs' = dbs \ {Db(e)}
              /\ pc' = [pc EXCEPT ![e] = "reset_create"]
    /\ UNCHANGED <<config, state, alive, vitess, lockOwner, acquired, shadows, ret, dropFailed, extShadow>>

ResetCreate(e) ==
    /\ pc[e] = "reset_create"
    /\ IF alive[e] /\ Db(e) \notin dbs
         THEN /\ dbs' = dbs \cup {Db(e)}
              /\ pc' = [pc EXCEPT ![e] = "reset_use"]
         ELSE ResetDone(e, FALSE) /\ UNCHANGED dbs
    /\ UNCHANGED <<config, state, alive, vitess, lockOwner, acquired, shadows, ret, dropFailed, extShadow>>

\* USE fails on a closed connection, or when another session dropped the
\* database since the CREATE.
ResetUse(e) ==
    /\ pc[e] = "reset_use"
    /\ ResetDone(e, alive[e] /\ Db(e) \in dbs)
    /\ UNCHANGED <<config, state, alive, vitess, lockOwner, acquired, dbs,
                   shadows, ret, dropFailed, extShadow>>

(***************************************************************************)
(* sql_schema_from_migration_history without an external shadow database: *)
(* CREATE DATABASE for a fresh shadow name on the main connection; run the *)
(* migrations on a new connector to it, keeping the result without an     *)
(* early return; DROP DATABASE IF EXISTS on the main connection; return   *)
(* the drop's error if it fails, else the kept result.                    *)
(***************************************************************************)
ShadowCreate(e) ==
    /\ pc[e] = "shadow"
    /\ IF alive[e]
         THEN /\ shadows' = shadows \cup {e}
              /\ pc' = [pc EXCEPT ![e] = "shadow_migrate"]
         ELSE Return(e) /\ UNCHANGED shadows
    /\ UNCHANGED <<config, state, alive, vitess, lockOwner, acquired, dbs, ret, dropFailed, extShadow>>

\* shadow_db::sql_schema_from_migrations_history on the shadow connector:
\* its connect, or any migration, may fail.
\* Mutant: a failed migration returns at once (`?`) instead of cleaning up.
ShadowMigrateEarlyReturn(e) ==
    /\ pc[e] = "shadow_migrate"
    /\ \E r \in {"ok", "err"} :
         IF r = "err" THEN Return(e) /\ UNCHANGED ret
         ELSE /\ ret' = [ret EXCEPT ![e] = r]
              /\ pc' = [pc EXCEPT ![e] = "shadow_drop"]
    /\ UNCHANGED <<config, state, alive, vitess, lockOwner, acquired, dbs, shadows, dropFailed, extShadow>>

ShadowMigrate(e) ==
    /\ pc[e] = "shadow_migrate"
    /\ \E r \in {"ok", "err"} : ret' = [ret EXCEPT ![e] = r]
    /\ pc' = [pc EXCEPT ![e] = "shadow_drop"]
    /\ UNCHANGED <<config, state, alive, vitess, lockOwner, acquired, dbs, shadows, dropFailed, extShadow>>

ShadowDrop(e) ==
    /\ pc[e] = "shadow_drop"
    /\ IF alive[e]
         THEN shadows' = shadows \ {e} /\ UNCHANGED dropFailed
         ELSE dropFailed' = dropFailed \cup {e} /\ UNCHANGED shadows
    /\ ret' = [ret EXCEPT ![e] = "none"]
    /\ Return(e)
    /\ UNCHANGED <<config, state, alive, vitess, lockOwner, acquired, dbs, extShadow>>

(***************************************************************************)
(* sql_schema_from_migration_history with an external shadow database: the *)
(* connector is the shadow database's own.  ensure_connection_validity     *)
(* (with_connection, entering "ext_shadow"), then reset; if reset fails,   *)
(* crate::best_effort_reset (outside this file: it drops what it finds in  *)
(* the database, which fails unless the connection and database are       *)
(* there), returning its error; then the migrations run on this connector. *)
(***************************************************************************)
ExtShadowStart(e) ==
    /\ pc[e] = "ext_shadow"
    /\ extShadow' = extShadow \cup {e}
    /\ pc' = [pc EXCEPT ![e] = "reset"]
    /\ UNCHANGED <<config, state, alive, vitess, lockOwner, acquired, dbs,
                   shadows, ret, dropFailed>>

ExtBestEffort(e) ==
    /\ pc[e] = "ext_best_effort"
    /\ \E ok \in {b \in BOOLEAN : b => (alive[e] /\ Db(e) \in dbs)} :
         pc' = [pc EXCEPT ![e] = IF ok THEN "ext_migrate" ELSE "idle"]
    /\ extShadow' = IF pc'[e] = "idle" THEN extShadow \ {e} ELSE extShadow
    /\ UNCHANGED <<config, state, alive, vitess, lockOwner, acquired, dbs,
                   shadows, ret, dropFailed>>

\* shadow_db::sql_schema_from_migrations_history(migrations, self): its
\* result is the caller's.
ExtMigrate(e) ==
    /\ pc[e] = "ext_migrate"
    /\ extShadow' = extShadow \ {e}
    /\ Return(e)
    /\ UNCHANGED <<config, state, alive, vitess, lockOwner, acquired, dbs,
                   shadows, ret, dropFailed>>

(***************************************************************************)
(* create_database and drop_database open a connection of their own (to   *)
(* the mysql database, resp. the URL) whatever the state, and CREATE or    *)
(* DROP the database dbname_or_default names, with no system-database     *)
(* check; the server's error (it exists / it does not) changes nothing.   *)
(***************************************************************************)
CreateDatabase(e) ==
    /\ pc[e] = "idle"
    /\ role[e] = "main" /\ url \notin dbs
    /\ dbs' = dbs \cup {url}
    /\ UNCHANGED <<config, state, alive, vitess, pc, lockOwner, acquired,
                   shadows, ret, dropFailed, extShadow>>

DropDatabase(e) ==
    /\ pc[e] = "idle"
    /\ role[e] = "main" /\ url \in dbs
    /\ dbs' = dbs \ {url}
    /\ UNCHANGED <<config, state, alive, vitess, pc, lockOwner, acquired,
                   shadows, ret, dropFailed, extShadow>>

(***************************************************************************)
(* set_preview_features stores the flags in the connector's params        *)
(* (WithParams or Connected; on Initial, not a state here, it only warns).  *)
(* The flags reach the shadow connector built by                          *)
(* sql_schema_from_migration_history and the describer, whose results are *)
(* not modelled: no variable tells them apart, so the step leaves the      *)
(* modelled state as it is.  It takes &mut self, so no operation of the    *)
(* engine is in progress.                                                  *)
(***************************************************************************)
SetPreviewFeatures(e) ==
    /\ pc[e] = "idle"
    /\ UNCHANGED vars

\* The server or the network closes the connection.
ConnectionLost(e) ==
    /\ state[e] = "Connected" /\ alive[e]
    /\ alive' = [alive EXCEPT ![e] = FALSE]
    /\ Release(e)
    /\ UNCHANGED <<config, state, vitess, pc, acquired, dbs, shadows, ret, dropFailed, extShadow>>

\* Mutant: the connector is put back into State::Initial.
DisposeToInitial(e) ==
    /\ pc[e] = "idle"
    /\ state[e] = "Connected"
    /\ state' = [state EXCEPT ![e] = "Initial"]
    /\ alive' = [alive EXCEPT ![e] = FALSE]
    /\ acquired' = [acquired EXCEPT ![e] = FALSE]
    /\ Release(e)
    /\ UNCHANGED <<config, vitess, pc, dbs, shadows, ret, dropFailed, extShadow>>

\* dispose does nothing; the connector is dropped at the end of the command,
\* closing its connection, and the next command builds a new one.
Dispose(e) ==
    /\ pc[e] = "idle"
    /\ state[e] = "Connected"
    /\ state' = [state EXCEPT ![e] = "WithParams"]
    /\ alive' = [alive EXCEPT ![e] = FALSE]
    /\ acquired' = [acquired EXCEPT ![e] = FALSE]
    /\ Release(e)
    /\ UNCHANGED <<config, vitess, pc, dbs, shadows, ret, dropFailed, extShadow>>

Next ==
    \E e \in Engines :
        \/ Call(e)
        \/ AcquireLock(e) \/ LockGranted(e) \/ LockTimeout(e)
        \/ PassThrough(e)
        \/ Reset(e) \/ ResetCreate(e) \/ ResetUse(e)
        \/ ShadowCreate(e) \/ ShadowMigrate(e) \/ ShadowDrop(e)
        \/ ExtShadowStart(e) \/ ExtBestEffort(e) \/ ExtMigrate(e)
        \/ CreateDatabase(e) \/ DropDatabase(e)
        \/ ConnectionLost(e) \/ Dispose(e)
        \/ SetPreviewFeatures(e)

\* The steps of an operation in progress: the engine's runtime polls the
\* awaited future and the server answers each statement, or the closed
\* connection makes it fail.  Nothing obliges a caller to start a command.
Step(e) ==
    \/ AcquireLock(e) \/ PassThrough(e)
    \/ Reset(e) \/ ResetCreate(e) \/ ResetUse(e)
    \/ ShadowCreate(e) \/ ShadowMigrate(e) \/ ShadowDrop(e)
    \/ ExtShadowStart(e) \/ ExtBestEffort(e) \/ ExtMigrate(e)

\* The server wakes a waiting GET_LOCK when the lock is released, and its
\* timer ends the wait after ADVISORY_LOCK_TIMEOUT however often the lock
\* changes hands meanwhile (strong fairness: the timeout step is enabled
\* again and again while the lock is taken, released and re-taken).
Spec == Init /\ [][Next]_vars
        /\ \A e \in Engines : /\ WF_vars(Step(e))
                              /\ WF_vars(LockGranted(e)) /\ SF_vars(LockTimeout(e))

-----------------------------------------------------------------------------
\* The type invariant.  State::Initial is not among the states: a connector
\* is built WithParams and with_connection panics on Initial.
TypeOK ==
    /\ server \in [vitess : BOOLEAN, planetscale : BOOLEAN]
    /\ state \in [Engines -> {"WithParams", "Connected"}]
    /\ alive \in [Engines -> BOOLEAN]
    /\ vitess \in [Engines -> BOOLEAN]
    /\ pc \in [Engines -> Pcs]
    /\ lockOwner \in Engines \cup {NoOwner}
    /\ acquired \in [Engines -> BOOLEAN]
    /\ url \in DbNames /\ shadowUrl \in DbNames /\ dbs \subseteq DbNames
    /\ role \in [Engines -> {"main", "shadow"}]
    /\ shadows \subseteq Engines /\ dropFailed \subseteq Engines
    /\ ret \in [Engines -> {"none", "ok", "err"}]
    /\ extShadow \subseteq Engines

\* acquire_lock guards migrations against concurrent schema engines: an
\* engine whose acquire_lock returned Ok, on a connection that is still
\* open, holds the advisory lock (PlanetScale excepted by design).
LockHeldAfterAcquire ==
    ~server.planetscale =>
        \A e \in Engines : (acquired[e] /\ alive[e]) => lockOwner = e

\* "We go through the whole process without early return, then clean up
\* the shadow database": a shadow database exists on the server only while
\* its engine is inside sql_schema_from_migration_history, or after its
\* DROP DATABASE failed.
NoLeakedShadowDb ==
    \A e \in shadows : pc[e] \in {"shadow_migrate", "shadow_drop"} \/ e \in dropFailed

\* Every operation an engine starts returns, the GET_LOCK wait included:
\* the advisory-lock timeout ends a wait on a session that never releases
\* the lock, and no path (reset from the external-shadow path, the
\* best_effort_reset fallback) comes back to a step that waits forever.
OperationReturns == \A e \in Engines : pc[e] # "idle" ~> pc[e] = "idle"

\* with_connection refuses to work on a system database (SystemDatabase):
\* no operation of the connector drops one of them.
SystemDatabaseKept == SystemDbs \subseteq dbs
=============================================================================
