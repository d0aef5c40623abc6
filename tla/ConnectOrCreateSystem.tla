------------------------- MODULE ConnectOrCreateSystem -------------------------
(***************************************************************************)
(* One nested connectOrCreate from input to committed database: the       *)
(* builder (ConnectOrCreate) appends the nodes and edges for every entry  *)
(* below the parent node, the graph is finalized (marked pairs swapped),  *)
(* and the executor (Executor) walks it in one transaction.               *)
(*                                                                         *)
(* The initial state is any relation of RelSet, a create or an update of  *)
(* the parent, a database that satisfies every constraint, and an input  *)
(* the query schema admits: a list of up to MaxEntries entries for a      *)
(* to-many field, exactly one entry for a to-one field (its input type is *)
(* a single object).                                                      *)
(***************************************************************************)
EXTENDS QueryGraph, RelationSchema, Sequences

CONSTANTS
    RelSet,      \* the relations to explore, a subset of Relations
    Ops,         \* the parent operations to explore, a subset of {"create", "update"}
    MaxEntries,  \* bound on the entries of a to-many connectOrCreate list
    EntryChoices \* the [where, create] entries to explore

ASSUME RelSet \subseteq Relations /\ Ops \subseteq {"create", "update"}
ASSUME MaxEntries \in Nat

VARIABLES
    rel, op, entries,          \* the input (read-only)
    values, nodes, edges, marked,  \* builder state
    phase, st, out, taken, wdb, db \* executor state

vars == <<rel, op, entries, values, nodes, edges, marked, phase, st, out, taken, wdb, db>>

B == INSTANCE ConnectOrCreate
E == INSTANCE Executor

\* [where, create] entries: the unique filter and the create payload, each
\* reduced to the child identifier it names.
Entry == [where : ChildIds, create : ChildIds]

ASSUME EntryChoices \subseteq Entry

EntryLists(r) ==
    IF IsToOne(r) THEN {<<e>> : e \in EntryChoices}
    ELSE UNION {[1..k -> EntryChoices] : k \in 0..MaxEntries}

Init ==
    /\ rel \in RelSet
    /\ op \in Ops
    /\ db \in Db
    /\ Consistent(rel, db)
    /\ UpdatedParent \in db.parents
    /\ NewParent \notin db.parents
    /\ entries \in EntryLists(rel)
    /\ values = entries
    /\ nodes = << Node("Parent", op) >>
    /\ edges = {}
    /\ marked = {}
    /\ phase = "build"
    /\ st = <<>> /\ out = <<>> /\ taken = <<>>
    /\ wdb = db

Build ==
    /\ phase = "build"
    /\ B!NestedConnectOrCreate
    /\ UNCHANGED <<op, entries, phase, st, out, taken, wdb, db>>

\* The builder returns; the graph is finalized and handed to the executor.
Finalize ==
    /\ phase = "build"
    /\ B!Built
    /\ edges' = SwapMarked(edges, marked)
    /\ st' = [n \in DOMAIN nodes |-> "pending"]
    /\ out' = [n \in DOMAIN nodes |-> {}]
    /\ taken' = [n \in DOMAIN nodes |-> "none"]
    /\ phase' = "run"
    /\ UNCHANGED <<rel, op, entries, values, nodes, marked, wdb, db>>

Execute ==
    /\ E!ExecNext
    /\ UNCHANGED <<op, entries, values, marked>>

\* Once committed or failed the operation has returned and nothing more
\* happens: those states have no successor (the configurations disable
\* deadlock checking; Termination checks that only they stop).
Next == Build \/ Finalize \/ Execute

\* The executor is a work loop that keeps picking a ready node while one
\* exists; building is a sequential function call.
Spec == Init /\ [][Next]_vars /\ WF_vars(Next)

-----------------------------------------------------------------------------
TypeOK ==
    /\ rel \in Relations
    /\ op \in {"create", "update"}
    /\ values \in Seq(Entry)
    /\ nodes \in Seq([kind : NodeKinds, arg : ChildIds \cup {NoArg, "create", "update"},
                     required : BOOLEAN, disconnect : BOOLEAN])
    /\ \A e \in edges : e.from \in DOMAIN nodes /\ e.to \in DOMAIN nodes
                        /\ e.sink \in Sinks \cup {NoArg} /\ e.card \in Cards
                        /\ e.expect \in Expects
    /\ phase \in {"build", "run", "committed", "failed"}
    /\ phase # "build" =>
         /\ st \in [DOMAIN nodes -> {"pending", "done", "skipped"}]
         /\ taken \in [DOMAIN nodes -> {"none", "Then", "Else"}]
    /\ wdb \in Db /\ db \in Db

\* Spec 8.1 and S6: the finalized graph is a DAG.  The swap of the pair
\* marked by mark_nodes turns Parent -> Read around; without it the read
\* feeding the parent's write arguments would also depend on the parent.
GraphAcyclic == phase # "build" => IsAcyclic(nodes, edges)

\* Every operation returns: the builder finishes, and the executor never
\* waits on a node that can neither run nor be skipped (a data edge out of
\* an if node waits for the Return node of the branch taken), so the walk
\* ends in a commit or a rollback.
Termination == <>(phase \in {"committed", "failed"})

\* The detailed system implements the abstract connectOrCreate: the
\* committed database is the result of applying the entries in order.
Outcome == CASE phase \in {"build", "run"} -> "pending"
             [] phase = "committed"        -> "committed"
             [] phase = "failed"           -> "failed"

Abs == INSTANCE ConnectOrCreateAbs WITH outcome <- Outcome

AbsSpec == Abs!Spec

\* The operation fails only when no sequential application of the entries
\* could succeed: constraint and expectation failures are never caused by
\* the order the executor picked for independent nodes.
NoSpuriousFailure == phase = "failed" => ~Abs!CanSucceed
=============================================================================
