------------------------------ MODULE QueryGraph ------------------------------
(***************************************************************************)
(* The query graph the nested-write builders write into (spec sections 3   *)
(* and 4.2).  The graph type itself is not part of the repository sources  *)
(* given here, so this module follows the specification:                   *)
(*   - a node is addressed by the index at which it was created            *)
(*     (graph.create_node returns the next handle);                        *)
(*   - an edge is ExecutionOrder, Then, Else, or a projected-data          *)
(*     dependency that funnels the source's rows into a sink of the        *)
(*     target, with a row-count cardinality and an optional expectation;   *)
(*   - graph.mark_nodes(parent, child) records a pair whose edge is        *)
(*     reversed when the graph is finalized, so that the child runs first. *)
(* Rows are abstracted to record identifiers; a projection of a row set is *)
(* the set of identifiers it came from.                                    *)
(***************************************************************************)
EXTENDS Naturals, Sequences, FiniteSets

NoArg == "none"

\* Node kinds used by the connect-or-create builders.
\*   Parent       the enclosing create or update of the parent record
\*   Read         read_id_infallible: read the child by its unique filter
\*   Create       create_record_node for the child
\*   If           Flow::if_non_empty
\*   IfCheck      the if node of insert_existing_1to1_related_model_checks
\*   Return       Flow::Return
\*   Connect      connect_records_node (many-to-many join row)
\*   UpdateChild  update_records_node_placeholder on the child model
\*   UpdateParent update_records_node_placeholder on the parent model
\*   Nullify      update placeholder whose write arguments null the FK
\*   ReadRelated  insert_find_children_by_parent_node
\*   Diff         Computation::empty_diff_left_to_right
NodeKinds == {"Parent", "Read", "Create", "If", "IfCheck", "Return", "Connect",
              "UpdateChild", "UpdateParent", "Nullify", "ReadRelated", "Diff"}

Sinks == {"IfInput", "ReturnInput", "WriteArgs", "Selectors", "Filter",
          "DiffLeft", "DiffRight", "ConnectParent", "ConnectChild"}
Cards == {"All", "ExactlyOne", "AtMostOne"}
Expects == {"None", "NonEmpty", "Empty"}

Node(kind, arg) == [kind |-> kind, arg |-> arg, required |-> FALSE, disconnect |-> FALSE]

\* The if node of the existing-1:1-related check carries its two flags.
CheckNode(required, disconnect) ==
    [kind |-> "IfCheck", arg |-> NoArg, required |-> required, disconnect |-> disconnect]

Edge(a, b, dep, sink, card, expect) ==
    [from |-> a, to |-> b, dep |-> dep, sink |-> sink, card |-> card, expect |-> expect]

\* QueryGraphDependency::ExecutionOrder, Then and Else carry no rows.
ExecutionOrder(a, b) == Edge(a, b, "Exec", NoArg, "All", "None")
Then(a, b) == Edge(a, b, "Then", NoArg, "All", "None")
Else(a, b) == Edge(a, b, "Else", NoArg, "All", "None")

\* QueryGraphDependency::ProjectedDataSinkDependency(projection, sink, expectation)
Data(a, b, sink, card, expect) == Edge(a, b, "Data", sink, card, expect)

InEdges(edges, n) == {e \in edges : e.to = n}
OutEdges(edges, n) == {e \in edges : e.from = n}

(***************************************************************************)
(* Finalizing the graph swaps every marked (parent, child) pair: the edge  *)
(* between them is reversed so that the child becomes a predecessor of the *)
(* parent.  The parent node of a nested write has no incoming edges from   *)
(* outside the nested subgraph in the models here.                         *)
(***************************************************************************)
SwapMarked(edges, marked) ==
    { IF <<e.from, e.to>> \in marked
        THEN [e EXCEPT !.from = e.to, !.to = e.from]
        ELSE e : e \in edges }

\* Nodes reachable from `frontier` along any edge, given the nodes `seen`.
RECURSIVE Reach(_, _, _)
Reach(edges, frontier, seen) ==
    IF frontier = {} THEN seen
    ELSE LET next == {e.to : e \in {x \in edges : x.from \in frontier}} \ seen
         IN Reach(edges, next, seen \cup next)

Descendants(edges, n) == Reach(edges, {n}, {})

\* No node reaches itself: the edges form a DAG over the nodes.
IsAcyclic(nodes, edges) == \A n \in DOMAIN nodes : n \notin Descendants(edges, n)

=============================================================================
