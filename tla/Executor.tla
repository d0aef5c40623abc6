------------------------------- MODULE Executor -------------------------------
(***************************************************************************)
(* The executor that walks a finalized query graph inside one database    *)
(* transaction (spec sections 3, 4.8 and 5).  It is not part of the       *)
(* repository sources given here; this module follows the spec:           *)
(*   - happens-before is the transitive closure of the edges; any node    *)
(*     whose incoming edges are all resolved may run, so nodes with no    *)
(*     path between them run in either order;                             *)
(*   - an If node evaluates its IfInput rows and activates the edges of   *)
(*     the matching label; nodes below the other label, and everything    *)
(*     that depends on a dropped node, are skipped;                       *)
(*   - a data edge funnels the source's rows into a sink of the target;   *)
(*     its cardinality and expectation are checked when the target runs;  *)
(*   - a data edge out of an If node carries the rows re-emitted by the   *)
(*     Return node on the branch taken (spec 4.2, return_values);         *)
(*   - every statement is checked against the database constraints; any  *)
(*     violation aborts the walk and rolls the transaction back.          *)
(***************************************************************************)
EXTENDS QueryGraph, RelationSchema

VARIABLES
    rel,     \* the relation (read-only)
    nodes,   \* the graph's nodes (read-only while running)
    edges,   \* the graph's edges (read-only while running)
    phase,   \* "build", "run", "committed" or "failed"
    st,      \* node -> "pending", "done" or "skipped"
    out,     \* node -> the rows (identifiers) the node produced
    taken,   \* If node -> "none", "Then" or "Else"
    wdb,     \* the database as seen inside the transaction
    db       \* the committed database

execVars == <<rel, nodes, edges, phase, st, out, taken, wdb, db>>

Arg(n) == nodes[n].arg
Kind(n) == nodes[n].kind

\* Mutant: the Return node looked up among the branch's first nodes only.
IfYieldDirect(i) ==
    {r \in {e.to : e \in {x \in OutEdges(edges, i) : x.dep = taken[i]}} : Kind(r) = "Return"}

\* The Return nodes on the branch an If node took.
IfYield(i) ==
    LET targets == {e.to : e \in {x \in OutEdges(edges, i) : x.dep = taken[i]}}
        below == targets \cup UNION {Descendants(edges, t) : t \in targets}
    IN {r \in below : Kind(r) = "Return"}

EdgeData(e) ==
    IF Kind(e.from) = "If" THEN UNION {out[r] : r \in IfYield(e.from)}
                           ELSE out[e.from]

EdgeResolved(e) ==
    /\ st[e.from] # "pending"
    /\ (e.dep = "Data" /\ Kind(e.from) = "If") =>
            \E r \in IfYield(e.from) : st[r] = "done"

\* The node can never run: a predecessor was skipped, or it hangs below
\* the label its If node did not take.
Dropped(n) ==
    \E e \in InEdges(edges, n) :
        \/ st[e.from] = "skipped"
        \/ e.dep \in {"Then", "Else"} /\ st[e.from] = "done" /\ taken[e.from] # e.dep

Ready(n) ==
    /\ phase = "run"
    /\ st[n] = "pending"
    /\ ~Dropped(n)
    /\ \A e \in InEdges(edges, n) : EdgeResolved(e)

\* The rows funnelled into sink `s` of node n.
Input(n, s) ==
    UNION {EdgeData(e) : e \in {x \in InEdges(edges, n) : x.dep = "Data" /\ x.sink = s}}

\* RowSink cardinality and DataExpectation of one incoming edge.
EdgeHolds(e) ==
    LET d == EdgeData(e) IN
    /\ e.expect = "NonEmpty" => d # {}
    /\ e.expect = "Empty" => d = {}
    /\ e.card = "ExactlyOne" => Cardinality(d) = 1
    /\ e.card = "AtMostOne" => Cardinality(d) <= 1

\* Write the foreign key of `rows` from the WriteArgs sink, if one is fed.
WriteFk(n, rows) ==
    IF Input(n, "WriteArgs") = {} THEN wdb.link
    ELSE SetFk(wdb.link, rows, CHOOSE x \in Input(n, "WriteArgs") : TRUE)

Outcome(d, rows, ok, t) == [db |-> d, out |-> rows, ok |-> ok, taken |-> t]

\* What running node n does: the database after it, its rows, whether its
\* own checks pass, and the label an If node takes.
Effect(n) ==
    LET sel == Input(n, "Selectors")
        in == Input(n, "IfInput")
        p == IF Arg(n) = "create" THEN NewParent ELSE UpdatedParent
        k == Arg(n)
        touched == IF Kind(n) = "UpdateChild" /\ Arg(n) # NoArg
                     THEN {Arg(n)} \cap wdb.children
                     ELSE sel \cap (wdb.parents \cup wdb.children)
    IN CASE Kind(n) = "Parent" ->
              Outcome([wdb EXCEPT !.parents = @ \cup {p}, !.link = WriteFk(n, {p})],
                      {p}, TRUE, "none")
         [] Kind(n) = "Read" ->
              Outcome(wdb, {Arg(n)} \cap wdb.children, TRUE, "none")
         [] Kind(n) = "Create" ->
              Outcome([wdb EXCEPT !.children = @ \cup {k}, !.link = WriteFk(n, {k})],
                      {k}, k \notin wdb.children, "none")
         [] Kind(n) = "If" ->
              Outcome(wdb, in, TRUE, IF in # {} THEN "Then" ELSE "Else")
         [] Kind(n) = "IfCheck" ->
              Outcome(wdb, in, ~(in # {} /\ nodes[n].required),
                      IF in # {} /\ nodes[n].disconnect THEN "Then" ELSE "Else")
         [] Kind(n) = "Return" ->
              Outcome(wdb, Input(n, "ReturnInput"), TRUE, "none")
         [] Kind(n) \in {"UpdateChild", "UpdateParent"} ->
              Outcome([wdb EXCEPT !.link = WriteFk(n, touched)], touched, TRUE, "none")
         [] Kind(n) = "Nullify" ->
              Outcome([wdb EXCEPT !.link = Unlink(@, touched)], touched, TRUE, "none")
         [] Kind(n) = "Connect" ->
              Outcome([wdb EXCEPT !.link = @ \cup (Input(n, "ConnectParent")
                                                   \X Input(n, "ConnectChild"))],
                      Input(n, "ConnectChild"), TRUE, "none")
         [] Kind(n) = "ReadRelated" ->
              Outcome(wdb, Related(wdb.link, Input(n, "Filter")), TRUE, "none")
         [] Kind(n) = "Diff" ->
              Outcome(wdb, Input(n, "DiffLeft") \ Input(n, "DiffRight"), TRUE, "none")

Succeeds(n) ==
    /\ \A e \in InEdges(edges, n) : e.dep = "Data" => EdgeHolds(e)
    /\ Effect(n).ok
    /\ Consistent(rel, Effect(n).db)

\* Run a ready node whose checks and statement succeed.
RunNode(n) ==
    /\ Ready(n)
    /\ Succeeds(n)
    /\ st' = [st EXCEPT ![n] = "done"]
    /\ out' = [out EXCEPT ![n] = Effect(n).out]
    /\ taken' = [taken EXCEPT ![n] = Effect(n).taken]
    /\ wdb' = Effect(n).db
    /\ UNCHANGED <<rel, nodes, edges, phase, db>>

\* A ready node violates an expectation or a constraint: roll back.
FailNode(n) ==
    /\ Ready(n)
    /\ ~Succeeds(n)
    /\ phase' = "failed"
    /\ wdb' = db
    /\ UNCHANGED <<rel, nodes, edges, st, out, taken, db>>

SkipNode(n) ==
    /\ phase = "run"
    /\ st[n] = "pending"
    /\ Dropped(n)
    /\ st' = [st EXCEPT ![n] = "skipped"]
    /\ UNCHANGED <<rel, nodes, edges, phase, out, taken, wdb, db>>

Commit ==
    /\ phase = "run"
    /\ \A n \in DOMAIN nodes : st[n] # "pending"
    /\ phase' = "committed"
    /\ db' = wdb
    /\ UNCHANGED <<rel, nodes, edges, st, out, taken, wdb>>

ExecNext ==
    \/ \E n \in DOMAIN nodes : RunNode(n) \/ FailNode(n) \/ SkipNode(n)
    \/ Commit
=============================================================================
