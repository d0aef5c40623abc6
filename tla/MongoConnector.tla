----------------------------- MODULE MongoConnector -----------------------------
(***************************************************************************)
(* The MongoDB schema connector (mongodb-schema-connector, lib.rs).  The  *)
(* connector keeps its client in a tokio OnceCell that the first command  *)
(* needing it initialises with get_or_try_init, from the connection       *)
(* string and the preview features the connector holds at that moment.   *)
(* The schema engine drives a connector through &mut self, so commands    *)
(* run one at a time; the server may become unreachable and come back at  *)
(* any time.  A command is one step: it finds the server as it is then.   *)
(* Client::connect (client_wrapper, not in src/) builds the driver client  *)
(* from the connection string; whether it succeeds depends on the string  *)
(* and on name resolution, not on the state modelled here, so each        *)
(* attempt may succeed or fail.                                           *)
(***************************************************************************)
EXTENDS Naturals, FiniteSets

CONSTANTS
    FeatureSets,  \* the preview-feature sets a connector may be given
    MaxOutages    \* bound on the times the server becomes unreachable

VARIABLES
    cell,         \* the OnceCell: {} or {the client it holds}
    features,     \* preview_features of the connector
    host,         \* the ConnectorHost: EmptyHost until set_host
    up,           \* the server answers requests
    outages,      \* outages so far (bounded)
    last          \* the last command and its result

vars == <<cell, features, host, up, outages, last>>

\* MongoDbSchemaConnector::new: the cell starts empty.
Init ==
    /\ cell = {}
    /\ features \in FeatureSets
    /\ host = "EmptyHost"
    /\ up \in BOOLEAN
    /\ outages = 0
    /\ last = [cmd |-> "none", result |-> "none"]

\* The result of a command that needs the client, and the cell after it.
\* client(): get_or_try_init connects when the cell is empty (`connected`:
\* the outcome of Client::connect); a failed connect leaves it empty.  With
\* the client in hand the command talks to the server: a drop, a describe, or (create_database) only reading the
\* database name off the client, which needs no round trip.
Poisoned == [features |-> "connect_error"]

\* Mutant: a failed connect is kept in the cell and returned from then on.
ClientOutcomeCachingError(c, connected) ==
    CASE cell = {Poisoned}       -> [cell |-> cell, result |-> "connect_error"]
      [] cell = {} /\ ~connected -> [cell |-> {Poisoned}, result |-> "connect_error"]
      [] OTHER ->
           [cell |-> IF cell = {} THEN {[features |-> features]} ELSE cell,
            result |-> IF up \/ c = "create_database" THEN "ok" ELSE "db_error"]

ClientOutcome(c, connected) ==
    IF cell = {} /\ ~connected
    THEN [cell |-> cell, result |-> "connect_error"]
    ELSE [cell |-> IF cell = {} THEN {[features |-> features]} ELSE cell,
          result |-> IF up \/ c = "create_database" THEN "ok" ELSE "db_error"]

Record(c, r) == last' = [cmd |-> c, result |-> r]

\* A command that starts with `self.client().await?`.
ClientCommand(c) ==
    /\ \E connected \in BOOLEAN :
           /\ cell' = ClientOutcome(c, connected).cell
           /\ Record(c, ClientOutcome(c, connected).result)
    /\ UNCHANGED <<features, host, up, outages>>

\* create_database returns the client's database name; MongoDB creates the
\* database on first use.
CreateDatabase == ClientCommand("create_database")

DropDatabase == ClientCommand("drop_database")

\* reset ignores `soft` and the namespaces: it drops the whole database.
Reset == ClientCommand("reset")

\* introspect describes the database and samples it.
Introspect == ClientCommand("introspect")

SchemaFromDatabase == ClientCommand("schema_from_database")

\* set_preview_features: only the connector's field changes.
SetPreviewFeatures(f) ==
    /\ features' = f
    /\ Record("set_preview_features", "ok")
    /\ UNCHANGED <<cell, host, up, outages>>

\* A command answered at once, without the client or the server.
Answer(c, r) == Record(c, r) /\ UNCHANGED <<cell, features, host, up, outages>>

\* acquire_lock is ready(Ok(())): MongoDB takes no migration lock.
AcquireLock == Answer("acquire_lock", "ok")

\* dispose is a no-op: the cell keeps its client.
Dispose == Answer("dispose", "ok")

\* ensure_connection_validity is ready(Ok(())): it does not connect.
EnsureConnectionValidity == Answer("ensure_connection_validity", "ok")

\* version answers "4 or 5" without asking the server.
Version == Answer("version", "ok")

\* validate_migrations (of the connector and, with a target, of the
\* dialect) accepts any migrations directory.
ValidateMigrations == Answer("validate_migrations", "ok")

ValidateMigrationsWithTarget == Answer("validate_migrations_with_target", "ok")

\* Unsupported on MongoDB: apply_script and schema_from_migrations (also
\* with a target) return unsupported_command_error, db_execute its own
\* error.
ApplyScript == Answer("apply_script", "unsupported")

DbExecute == Answer("db_execute", "unsupported")

SchemaFromMigrations == Answer("schema_from_migrations", "unsupported")

SchemaFromMigrationsWithTarget == Answer("schema_from_migrations_with_target", "unsupported")

\* set_host replaces the host the connector reports to.
SetHost ==
    /\ host' = "Host"
    /\ Record("set_host", "ok")
    /\ UNCHANGED <<cell, features, up, outages>>

\* The environment: the server goes away and comes back.
Outage ==
    /\ up /\ outages < MaxOutages
    /\ up' = FALSE /\ outages' = outages + 1
    /\ UNCHANGED <<cell, features, host, last>>

Recover ==
    /\ ~up /\ up' = TRUE
    /\ UNCHANGED <<cell, features, host, outages, last>>

Next ==
    \/ CreateDatabase \/ DropDatabase \/ Reset \/ Introspect \/ SchemaFromDatabase
    \/ \E f \in FeatureSets : SetPreviewFeatures(f)
    \/ AcquireLock \/ Dispose \/ SetHost
    \/ EnsureConnectionValidity \/ Version
    \/ ValidateMigrations \/ ValidateMigrationsWithTarget
    \/ ApplyScript \/ DbExecute
    \/ SchemaFromMigrations \/ SchemaFromMigrationsWithTarget
    \/ Outage \/ Recover

Spec == Init /\ [][Next]_vars

-----------------------------------------------------------------------------
\* The type invariant.  The cell holds at most one client, built from a
\* feature set: a failed Client::connect is never stored in it
\* (get_or_try_init leaves the cell empty on Err), so the next command
\* that needs the client connects again.
TypeOK ==
    /\ cell \subseteq [features : FeatureSets] /\ Cardinality(cell) <= 1
    /\ features \in FeatureSets
    /\ host \in {"EmptyHost", "Host"}
    /\ up \in BOOLEAN /\ outages \in 0..MaxOutages
    /\ last.result \in {"none", "ok", "db_error", "connect_error", "unsupported"}
=============================================================================
