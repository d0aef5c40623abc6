# TLA+ models of prisma-engines: connect-or-create, MySQL and MongoDB schema connectors, test attribute maps

This directory holds TLA+ models of the parts of `src/` that have state, concurrency or order-dependent behaviour. It also holds the TLC configurations that check them. `PROJECT.json` lists every component, run, mutant, mapping from definition to source lines, finding and hazard.

## The system and its parts

| Part | Source | What it does | Modules |
|---|---|---|---|
| Connect-or-create graph builder | `query-engine/core/.../nested/connect_or_create_nested.rs` | Turns `connectOrCreate` entries under a parent create/update into query-graph nodes and edges, one handler per relation layout. | `ConnectOrCreate`, `QueryGraph`, `RelationSchema` |
| Query graph executor | not in `src/` (spec sections 3, 4.8, 5) | Walks the finalized graph in one transaction: any ready node runs, if nodes pick a branch, nodes below the other branch are skipped, data edges check expectations, and a violation rolls back. | `Executor` (modelled from the spec) |
| Connect-or-create contract | spec 4.3-4.7 | Every entry connects its match or creates it, atomically. | `ConnectOrCreateAbs` |
| Composition | | Builder, then finalize, then executor, from a consistent database. | `ConnectOrCreateSystem`, `MCConnectOrCreate` |
| MySQL schema-connector flavour | `schema-engine/.../flavour/mysql.rs` | Lazily connects (`with_connection`, which refuses system databases), takes the migration advisory lock, resets, creates and drops the shadow database or resets an external one, and creates and drops the URL's database. | `MysqlFlavour`, `MCMysqlFlavour` |
| MongoDB schema connector | `schema-engine/connectors/mongodb-schema-connector/src/lib.rs` | Holds a client in a `OnceCell` built on first use; drop/reset/introspect go through it. | `MongoConnector`, `MCMongoConnector` |
| `NestedAttrMap` of the test macros | `query-test-macros/src/attr_map.rs` | Collects attribute lists into maps and merges a test's map with its suite's. | `AttrMap`, `MCAttrMap` |

The query engine builds the graph for one request and hands it to the executor. Several schema-engine processes may drive MySQL connectors against one server at once, which is why the MySQL model has two engines. A MongoDB connector is driven through `&mut self` one command at a time, while the server comes and goes.

## How the modules correspond to the code

- **`ConnectOrCreate`** has one action per builder function:
  - The functions are `nested_connect_or_create`, `handle_many_to_many`, `handle_one_to_many`, `handle_one_to_one`, `one_to_many_inlined_child`, `one_to_many_inlined_parent`, `one_to_one_inlined_parent` and `one_to_one_inlined_child`.
  - Each action consumes one entry from `values` and appends exactly the nodes and edges the function creates: kind, label, sink, cardinality and expectation.
  - It also records the pairs `mark_nodes` marks. The `utils`/`connect` helpers it calls are modelled from spec 4.2.
  - Rows are reduced to identifiers: three parent ids and two child ids.
- **`ConnectOrCreateSystem`** composes the parts.
  - `Init` picks a relation (kind × inlined side × required), `create` or `update`, and a database satisfying the relation's constraints.
  - It then picks an input the query schema admits: one entry for a to-one field, up to `MaxEntries` entries for a to-many field.
  - `Build` runs the builder; `Finalize` swaps marked pairs (`SwapMarked`); `Execute` runs the executor.
- **`Executor`**: `RunNode`, `FailNode`, `SkipNode` and `Commit`.
  - `Effect` gives what each node kind does to the transaction's view `wdb`.
  - `Commit` copies `wdb` to `db`; a failure leaves `db` untouched.
- **`MysqlFlavour`**: per engine, `state` (WithParams/Connected), `alive`, the `Circumstances::IsVitess` flag and a program counter at each await.
  - Shared: the database the URL names (`url`: an application database or `sys`, a name `MYSQL_SYSTEM_DATABASES` matches), the advisory lock owner, the databases on the server (`dbs`), and the set of shadow databases.
  - Actions: `WithConnection`, `AcquireLock`/`LockGranted`/`LockTimeout` (GET_LOCK blocking, granted, or timing out), `Reset`/`ResetCreate`/`ResetUse`, `ShadowCreate`/`ShadowMigrate`/`ShadowDrop`, `CreateDatabase`, `DropDatabase`, `PassThrough` (every other command that runs statements through `with_connection`, `create_migrations_table`, `drop_migrations_table` and `table_names` included) and `SetPreviewFeatures`.
  - `SetPreviewFeatures` leaves the modelled state as it is. The flags reach only the shadow connector and the describer, whose results are not modelled.
  - `WithConnection` is not enabled from WithParams when the server lacks the connector's database (`Connection::new` fails) or on a system-database URL (the `SystemDatabase` error): neither changes anything. Vitess is detected from `SELECT @@version`; every modelled server answers it, so the path where the versions row is missing is not reached. `CreateDatabase` and `DropDatabase` act on the URL's database without that check, as the code does.
  - Each engine drives one connector (`role`): the main one, on `url`, or the one `connect_to_shadow_db` builds for an external shadow database, on `shadowUrl`. `Db(e)` is the database of that connector. `Params::new` only checks that the shadow connection string differs from the main one; two different strings can name one database, so `shadowUrl` may be either database.
  - The external-shadow path (`UsingExternalShadowDb::Yes`, shadow connectors only): `WithConnection(e, "ext_shadow")` is `ensure_connection_validity`, `ExtShadowStart` calls `reset`, `ResetDone` hands reset's result back, `ExtBestEffort` is the `best_effort_reset` fallback (outside `src/`: it succeeds only with a live connection and an existing database), and `ExtMigrate` runs the migrations on the connector itself.
  - `ConnectionLost` is the environment; it releases the session's lock.
  - `Dispose` models the end of a command: `dispose` is a no-op and the connector is dropped (its connection with it). The next command starts from `new_with_params`.
- **`MongoConnector`**: the `OnceCell` as a set of at most one client, the connector's `preview_features`, and whether the server answers requests.
  - `ClientOutcome` is `client()` (`get_or_try_init`). `Client::connect` is outside `src/` and depends on the connection string and name resolution, so each attempt may succeed or fail whatever the server's state.
  - Each of `create_database`, `drop_database`, `reset`, `introspect` and `schema_from_database` is an action through it.
  - `set_preview_features`, `set_host`, and the commands answered without the client (`acquire_lock`, `dispose`, `ensure_connection_validity`, `version`, `validate_migrations`, and the unsupported `apply_script`, `db_execute`, `schema_from_migrations`, with the dialect's `*_with_target` variants) are actions of their own (`Answer`).
- **`AttrMap`**: `Parse` is `from_nested_meta`: the first literal ends in an error, the first multi-segment path in the `unwrap` panic, and a later duplicate name wins. `MergeStart` computes `self_has_connector`, and `MergeStep(k)` is one iteration of the loop over `other`. The loop visits keys in any order, because HashMap order is unspecified.

## Runs

| Run | Expect | Checks | What it shows |
|---|---|---|---|
| `cc_all_shapes` | pass (164k states) | `TypeOK`, `GraphAcyclic`, `Termination` | Every relation layout, both parent operations, and inputs of up to 2 entries build a DAG, and every walk commits or rolls back. |
| `cc_refines` | pass | `AbsSpec` | Builder + executor refine `ConnectOrCreateAbs` (mapping: `outcome` ← phase) on every layout except one-to-one parent-inlined, for entries whose where and create name the same child. |
| `cc_no_spurious_failure` | pass | `NoSpuriousFailure` | On to-many relations and the required child-inlined one-to-one, a failure happens only when no sequential application of the entries can succeed. |
| `cc_o2o_parent_race` | violation | `AbsSpec` | See finding 1. |
| `cc_o2o_parent_reconnect` | violation | `NoSpuriousFailure` | See finding 2. |
| `cc_o2o_child_create` | violation | `NoSpuriousFailure` | See finding 3. |
| `cc_o2o_child_update` | pass | `NoSpuriousFailure` | On the optional child-inlined one-to-one, when the unique filter finds an existing child (Then branch), the old child is unlinked before the new one is linked, so the update fails only when no sequential application could succeed. |
| `my_shadow_and_lock` | pass (378k states, 80 s) | `TypeOK`, `NoLeakedShadowDb`, `OperationReturns` | With two engines, each on the main or an external-shadow connector, on every server kind, URL and shadow URL: a shadow database outlives its operation only if its DROP failed, and every started operation, GET_LOCK waits included, returns. |
| `my_lock_timeout` | violation | `LockHeldAfterAcquire` | See finding 4. |
| `mo_reconnect` | pass | `TypeOK` | Across up to two outages, connect attempts that may fail, and every command of the connector, the cell holds at most one client built from a feature set: a failed `get_or_try_init` is never cached. |
| `my_system_db` | violation | `SystemDatabaseKept` | See finding 5. |
| `am_merge` | pass | `TypeOK`, `MergeFollowsRules` | For all attribute lists of up to two items, `merge` equals its documented rules (`MergeRules`) in every iteration order. |

Each property of a passing run has a mutant in `PROJECT.json`: a plausible bug in the mapped code that TLC catches. Examples:
- if/else branches swapped;
- `mark_nodes` dropped;
- the Return node looked up only at the first level below an if;
- the diff sides swapped;
- a migration error returned with `?` before the shadow cleanup;
- GET_LOCK waiting forever;
- the `update_old_child` → `update_new_child` edge left out;
- a failed connect cached in the cell;
- a literal collected as an attribute;
- `self_has_connector` re-read on every iteration.

## Findings

1. **One-to-one, parent inlined, update (`cc_o2o_parent_race`).** The existing-parent check built from the read child (line 547) hangs under the if's Then branch (549) and is ordered only before `return_existing` (550). Nothing orders it before `update_parent` (587). When the child already belongs to the updated parent, the check nulls that parent's foreign key, and if the executor runs it after `update_parent` the link the operation set is lost. Spec 4.6 puts the check between the if branch and the parent write. The check on the parent at 584 clears nothing on this path.
2. **Self-reconnect over a required relation (`cc_o2o_parent_reconnect`).** Connecting a parent to the child it already owns fails: the Then-branch check (line 547) finds the parent itself as the child's existing parent.
3. **One-to-one, child inlined, update, create branch (`cc_o2o_child_create`).** The new child is created linked to the parent while the old child is still linked (lines 719/742). The old child is unlinked only on the Then branch (858), so the unique foreign key fails. The spec does not say what should happen.
4. **MySQL advisory lock (`my_lock_timeout`).** `acquire_lock` sends `SELECT GET_LOCK('prisma_migrate', 10)` through `raw_cmd`, which drops the result row (mysql.rs:174). After the 10-second timeout GET_LOCK returns 0 and `acquire_lock` returns Ok while another engine holds the lock.
5. **MySQL system databases (`my_system_db`).** `with_connection` refuses a URL naming a system database (`SystemDatabase`, mysql.rs:518-540), so `reset` and every other operation through it never touch one. `drop_database` (mysql.rs:309-321) opens its own `Connection` and runs `DROP DATABASE` on `dbname_or_default` with no such check. On a URL naming `sys` (or `mysql`, the default when the URL names no database, on MySQL 5.7) it drops a system schema.

Also seen while modelling, not made a run:
- MongoDB `set_preview_features` changes only the field; the client built by the first command keeps the old features (lib.rs:202). The schema engine sets the features before the first command.
- The if nodes over the old/new child diff and the existing-parent check get only a Then edge (line 858). Spec 4.8/8.2 ask for both edges. The executor skips a node below an absent label, so nothing goes wrong at run time.

## Bounds and why they are enough

- **Connect-or-create bounds:**
  - **Parents:** three (the updated one, the new one, another one).
  - **Children:** two.
  - **Entries:** up to two per to-many list. Two are needed for an entry to see another entry's write; three add no new kind of interaction between pairs.
  - **Relations:** every relation kind, inlined side and required flag.
  - **Databases:** every consistent database over these ids.
- **MySQL:** two engines, enough for one to hold the lock while the other waits, and for one's reset to interleave with the other's shadow path or external-shadow reset. Every server kind (plain, Vitess, PlanetScale), both URL kinds (application, system database), every shadow URL `Params::new` accepts, every assignment of the engines to main and shadow connectors, and every initial set of databases are explored.
- **MongoDB:** two feature sets and up to two outages, so a failure, a recovery and a second failure occur in one behaviour.
- **AttrMap:** the keys `only`, `exclude` and one other, two payloads, and up to two items per list. This covers duplicates, both connector keys in one map, and each kind of parse failure.

## Fairness

- **`ConnectOrCreateSystem`: `WF_vars(Next)`.** Building is one sequential call, and the executor is a loop that keeps running ready nodes. Committed and failed states are final (deadlock checking is off for these runs). `Termination` checks that only those states stop.
- **`MysqlFlavour`: for each engine, weak fairness on `Step` (the steps of an operation in progress), weak fairness on `LockGranted`, strong fairness on `LockTimeout`.**
  - Once a command is running, the engine's runtime polls the awaited future and the server answers each statement, or the connection closes and the statement fails.
  - The server wakes a waiter when the lock is released.
  - The server's timer fires after `ADVISORY_LOCK_TIMEOUT` even if the lock is released and retaken meanwhile.
  - No fairness is assumed for the callers, who may stop issuing commands.
- **`MongoConnector` and `AttrMap`** are checked for safety only.

## Not modelled, and why

- The MySQL query connector (`sql-query-connector/.../native/mysql.rs`): `get_connection` is one conditional `USE mysql` on a pool that is not in `src/`. Its one hazard (a pooled session whose default database was dropped by a schema-engine reset, or changed by a raw `USE`, is handed out as it is when the URL names a database) needs the pool, which is not in `src/`, and is left to a later composition (see the plan).
- The schema parser files: sequential tree walks over text. Their results could be checked against a reference definition over bounded token sequences, but the grammar that bounds those sequences is not in `src/`, and the check would need a run of its own.
- Scalar field accessors and user-facing error definitions: no state.
- The raw SQL cast tests: test code.
- The Postgres `connector.rs`: re-exports only.
- Within the MySQL flavour: the preview-feature flags themselves, version checks, migration-script scanning and the dialect. They change no shared state. `circumstances()` is the default before a connection, so `dialect()` and `check_database_version_compatibility` see neither 5.6 nor Vitess on a fresh connector (mysql.rs:140); whether a caller connects first is decided outside `src/`.
- Two engines sharing one external shadow database: the model reaches the interleaving, but tables are not modelled and the code claims no isolation, so no property is stated.
- Two entries naming one absent child both take the create branch, because all where-reads run before any create; the spec's open questions (spec.md line 210) leave repeated identical entries to the unique constraint, so this is not checked as a failure.
- MySQL `reset` losing its connection between DROP and CREATE leaves the database missing, and every later connect fails until `create_database`; recovery is the caller's, and nothing in the code or spec states what should follow.
- To-one arity: a to-one `connectOrCreate` input is a single object, so the builder always receives exactly one value (`pop().unwrap()` at line 183).

## Plan for later sittings

- Compose the MySQL query connector's `get_connection` with the flavour on one server, with a pool of sessions, to check the default database a handed-out session has after another process's reset.
