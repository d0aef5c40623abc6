---------------------------- MODULE ConnectOrCreate ----------------------------
(***************************************************************************)
(* The nested connect-or-create graph builder                              *)
(* (query_graph_builder/write/nested/connect_or_create_nested.rs).        *)
(*                                                                         *)
(* nested_connect_or_create dispatches on the relation to one of five      *)
(* handlers; each adds nodes and edges to the graph below the parent      *)
(* node.  The two handlers for to-many relations loop over the entries,   *)
(* one action per iteration; the handlers for to-one relations pop the    *)
(* last entry and build once.  The node factories and graph helpers the   *)
(* handlers call from other files (connect_records_node,                  *)
(* insert_existing_1to1_related_model_checks,                              *)
(* insert_find_children_by_parent_node) follow the spec.                  *)
(***************************************************************************)
EXTENDS QueryGraph, RelationSchema

VARIABLES
    rel,     \* the relation of parent_relation_field (read-only)
    values,  \* utils::coerce_vec(value): the entries not yet handled
    nodes,   \* the graph's nodes, indexed by handle
    edges,   \* the graph's edges
    marked   \* pairs recorded by graph.mark_nodes

builderVars == <<rel, values, nodes, edges, marked>>

\* The enclosing create or update of the parent is the graph's first node.
ParentNode == 1

\* utils::node_is_create(graph, &parent_node)
ParentIsCreate == nodes[ParentNode].arg = "create"

(***************************************************************************)
(* Helpers from other builder files, as the spec describes them.          *)
(***************************************************************************)

\* connect::connect_records_node: a join-row insert fed the parent id and
\* exactly one child id.
ConnectRecordsEdges(parent, child, at) ==
    { Data(parent, at, "ConnectParent", "ExactlyOne", "None"),
      Data(child, at, "ConnectChild", "ExactlyOne", "None") }

\* utils::insert_find_children_by_parent_node: read the records related to
\* the rows of `src`.
FindRelatedEdges(src, at) == { Data(src, at, "Filter", "All", "None") }

\* utils::insert_existing_1to1_related_model_checks(graph, src, field):
\* read the records related to src over `field`; fail if there is one and
\* the other side is required; otherwise, if there is one and the relation
\* is not inlined on src's model, null its foreign key.  Creates the nodes
\* at, at+1, at+2 and returns the read node `at`.
ExistingChecksNodes(required, disconnect) ==
    << Node("ReadRelated", NoArg), Node("Nullify", NoArg),
       CheckNode(required, disconnect) >>

ExistingChecksEdges(src, at) ==
    FindRelatedEdges(src, at) \cup
    { Data(at, at + 2, "IfInput", "All", "None"),
      Then(at + 2, at + 1),
      Data(at, at + 1, "Selectors", "ExactlyOne", "None") }

(***************************************************************************)
(* handle_many_to_many, one iteration of its loop over the entries.       *)
(***************************************************************************)
\* Mutant: the if node's Then and Else edges swapped.
HandleManyToManySwappedBranches ==
    /\ values # <<>>
    /\ LET v == Head(values)
           n == Len(nodes)
           read == n + 1  create == n + 2  if == n + 3
           connectExists == n + 4  connectCreate == n + 5
       IN /\ nodes' = nodes \o << Node("Read", v.where), Node("Create", v.create),
                                  Node("If", NoArg), Node("Connect", NoArg),
                                  Node("Connect", NoArg) >>
          /\ edges' = edges
                \cup ConnectRecordsEdges(ParentNode, read, connectExists)
                \cup ConnectRecordsEdges(ParentNode, create, connectCreate)
                \cup { ExecutionOrder(ParentNode, read),
                       Data(read, if, "IfInput", "All", "None"),
                       Else(if, connectExists),
                       Then(if, create) }
    /\ values' = Tail(values)
    /\ UNCHANGED <<rel, marked>>

HandleManyToMany ==
    /\ values # <<>>
    /\ LET v == Head(values)
           n == Len(nodes)
           read == n + 1  create == n + 2  if == n + 3
           connectExists == n + 4  connectCreate == n + 5
       IN /\ nodes' = nodes \o << Node("Read", v.where), Node("Create", v.create),
                                  Node("If", NoArg), Node("Connect", NoArg),
                                  Node("Connect", NoArg) >>
          /\ edges' = edges
                \cup ConnectRecordsEdges(ParentNode, read, connectExists)
                \cup ConnectRecordsEdges(ParentNode, create, connectCreate)
                \cup { ExecutionOrder(ParentNode, read),
                       Data(read, if, "IfInput", "All", "None"),
                       Then(if, connectExists),
                       Else(if, create) }
    /\ values' = Tail(values)
    /\ UNCHANGED <<rel, marked>>

(***************************************************************************)
(* one_to_many_inlined_child, one iteration of its loop: the child holds  *)
(* the foreign key; update the found child or create it, writing the      *)
(* parent's id into its foreign key.                                      *)
(***************************************************************************)
\* Mutant: the create node addressed by a wrong handle.
OneToManyInlinedChildWrongHandle ==
    /\ values # <<>>
    /\ LET v == Head(values)
           n == Len(nodes)
           read == n + 1  if == n + 2  updateChild == n + 3  create == n + 5
       IN /\ nodes' = nodes \o << Node("Read", v.where), Node("If", NoArg),
                                  Node("UpdateChild", v.where), Node("Create", v.create) >>
          /\ edges' = edges \cup
                { ExecutionOrder(ParentNode, read),
                  Then(if, updateChild),
                  Else(if, create),
                  Data(read, if, "IfInput", "All", "None"),
                  Data(ParentNode, create, "WriteArgs", "ExactlyOne", "NonEmpty"),
                  Data(ParentNode, updateChild, "WriteArgs", "ExactlyOne", "NonEmpty") }
    /\ values' = Tail(values)
    /\ UNCHANGED <<rel, marked>>

OneToManyInlinedChild ==
    /\ values # <<>>
    /\ LET v == Head(values)
           n == Len(nodes)
           read == n + 1  if == n + 2  updateChild == n + 3  create == n + 4
       IN /\ nodes' = nodes \o << Node("Read", v.where), Node("If", NoArg),
                                  Node("UpdateChild", v.where), Node("Create", v.create) >>
          /\ edges' = edges \cup
                { ExecutionOrder(ParentNode, read),
                  Then(if, updateChild),
                  Else(if, create),
                  Data(read, if, "IfInput", "All", "None"),
                  Data(ParentNode, create, "WriteArgs", "ExactlyOne", "NonEmpty"),
                  Data(ParentNode, updateChild, "WriteArgs", "ExactlyOne", "NonEmpty") }
    /\ values' = Tail(values)
    /\ UNCHANGED <<rel, marked>>

(***************************************************************************)
(* one_to_many_inlined_parent: the parent holds the foreign key; the      *)
(* child is read first (marked pair), and the linking value of the found  *)
(* or created child is written into the parent.  Only the last entry is   *)
(* used (values.pop()).                                                   *)
(***************************************************************************)
\* Mutant: graph.mark_nodes(parent, read) left out.
OneToManyInlinedParentUnmarked ==
    /\ values # <<>>
    /\ LET v == values[Len(values)]
           n == Len(nodes)
           read == n + 1  if == n + 2  create == n + 3
           returnExisting == n + 4  returnCreate == n + 5
       IN /\ nodes' = nodes \o << Node("Read", v.where), Node("If", NoArg),
                                  Node("Create", v.create), Node("Return", NoArg),
                                  Node("Return", NoArg) >>
          /\ marked' = marked
          /\ edges' = edges \cup
                { ExecutionOrder(ParentNode, read),
                  Data(read, if, "IfInput", "All", "None"),
                  Then(if, returnExisting),
                  Else(if, create),
                  Data(if, ParentNode, "WriteArgs", "ExactlyOne", "None"),
                  Data(read, returnExisting, "ReturnInput", "All", "None"),
                  Data(create, returnCreate, "ReturnInput", "All", "None") }
    /\ values' = <<>>
    /\ UNCHANGED rel

OneToManyInlinedParent ==
    /\ values # <<>>
    /\ LET v == values[Len(values)]
           n == Len(nodes)
           read == n + 1  if == n + 2  create == n + 3
           returnExisting == n + 4  returnCreate == n + 5
       IN /\ nodes' = nodes \o << Node("Read", v.where), Node("If", NoArg),
                                  Node("Create", v.create), Node("Return", NoArg),
                                  Node("Return", NoArg) >>
          /\ marked' = marked \cup {<<ParentNode, read>>}
          /\ edges' = edges \cup
                { ExecutionOrder(ParentNode, read),
                  Data(read, if, "IfInput", "All", "None"),
                  Then(if, returnExisting),
                  Else(if, create),
                  Data(if, ParentNode, "WriteArgs", "ExactlyOne", "None"),
                  Data(read, returnExisting, "ReturnInput", "All", "None"),
                  Data(create, returnCreate, "ReturnInput", "All", "None") }
    /\ values' = <<>>
    /\ UNCHANGED rel

(***************************************************************************)
(* one_to_one_inlined_parent: as above, plus check [1] on the found child  *)
(* (its ex-parent: fail if required, else disconnect it), and for a non-  *)
(* create parent check [2] on the parent and a separate update of the     *)
(* parent's foreign key.                                                  *)
(***************************************************************************)
OneToOneInlinedParent(v) ==
    LET n == Len(nodes)
        read == n + 1  if == n + 2  create == n + 3
        returnExisting == n + 4  returnCreate == n + 5
        readExParent == n + 6
        readExChild == n + 9  updateParent == n + 12
        common ==
            { ExecutionOrder(ParentNode, read),
              Data(read, if, "IfInput", "All", "None"),
              Then(if, readExParent),
              ExecutionOrder(readExParent, returnExisting),
              Data(read, returnExisting, "ReturnInput", "All", "None"),
              Else(if, create),
              Data(create, returnCreate, "ReturnInput", "All", "None") }
            \cup ExistingChecksEdges(read, readExParent)
        firstNodes ==
            << Node("Read", v.where), Node("If", NoArg), Node("Create", v.create),
               Node("Return", NoArg), Node("Return", NoArg) >>
            \o ExistingChecksNodes(rel.fkRequired, TRUE)
    IN /\ marked' = marked \cup {<<ParentNode, read>>}
       /\ IF ParentIsCreate
            THEN /\ nodes' = nodes \o firstNodes
                 /\ edges' = edges \cup common \cup
                      { Data(if, ParentNode, "WriteArgs", "ExactlyOne", "None") }
            ELSE /\ nodes' = nodes \o firstNodes
                                   \o ExistingChecksNodes(FALSE, FALSE)
                                   \o << Node("UpdateParent", NoArg) >>
                 /\ edges' = edges \cup common \cup ExistingChecksEdges(ParentNode, readExChild)
                      \cup { ExecutionOrder(if, ParentNode),
                             Data(ParentNode, updateParent, "Selectors", "ExactlyOne", "NonEmpty"),
                             Data(if, updateParent, "WriteArgs", "ExactlyOne", "NonEmpty") }

(***************************************************************************)
(* one_to_one_inlined_child: the child holds the foreign key.  Found:     *)
(* update it to point at the parent; for a non-create parent first read   *)
(* the old child, and if it differs from the new one null its foreign     *)
(* key (expecting no row when the child side is required).  Not found:    *)
(* create the child pointing at the parent.                               *)
(***************************************************************************)
\* The old child's foreign key is nulled before the new child's is set
\* (ExecutionOrder update_old_child -> update_new_child), or the unique 1:1
\* foreign key would see two children of one parent.
\* Mutant: the edge is left out, so the executor may run either first.
UpdateOldBeforeNewMissing(updateOld, updateNew) == {}

UpdateOldBeforeNew(updateOld, updateNew) == {ExecutionOrder(updateOld, updateNew)}

\* Mutant: the new and the old child fed into the wrong sides of the diff.
OneToOneInlinedChildSwappedDiff(v) ==
    LET n == Len(nodes)
        read == n + 1  if == n + 2  create == n + 3  updateNew == n + 4
        readOld == n + 5  diff == n + 6  if2 == n + 7  updateOld == n + 8
        common ==
            { ExecutionOrder(ParentNode, read),
              Data(read, if, "IfInput", "All", "None"),
              Else(if, create),
              Data(ParentNode, updateNew, "WriteArgs", "ExactlyOne", "NonEmpty"),
              Data(ParentNode, create, "WriteArgs", "ExactlyOne", "NonEmpty"),
              Data(read, updateNew, "Selectors", "ExactlyOne", "NonEmpty") }
        firstNodes ==
            << Node("Read", v.where), Node("If", NoArg), Node("Create", v.create),
               Node("UpdateChild", NoArg) >>
    IN /\ IF ParentIsCreate
            THEN /\ nodes' = nodes \o firstNodes
                 /\ edges' = edges \cup common \cup {Then(if, updateNew)}
            ELSE /\ nodes' = nodes \o firstNodes
                                   \o << Node("ReadRelated", NoArg), Node("Diff", NoArg),
                                         Node("If", NoArg), Node("Nullify", NoArg) >>
                 /\ edges' = edges \cup common \cup FindRelatedEdges(ParentNode, readOld)
                      \cup { Then(if, readOld),
                             Data(read, diff, "DiffRight", "All", "None"),
                             Data(readOld, diff, "DiffLeft", "All", "None"),
                             Data(diff, if2, "IfInput", "All", "None"),
                             Data(readOld, updateOld, "Selectors", "AtMostOne",
                                  IF rel.fkRequired THEN "Empty" ELSE "None"),
                             Then(if2, updateOld) }
                      \cup UpdateOldBeforeNew(updateOld, updateNew)
       /\ UNCHANGED marked

OneToOneInlinedChild(v) ==
    LET n == Len(nodes)
        read == n + 1  if == n + 2  create == n + 3  updateNew == n + 4
        readOld == n + 5  diff == n + 6  if2 == n + 7  updateOld == n + 8
        common ==
            { ExecutionOrder(ParentNode, read),
              Data(read, if, "IfInput", "All", "None"),
              Else(if, create),
              Data(ParentNode, updateNew, "WriteArgs", "ExactlyOne", "NonEmpty"),
              Data(ParentNode, create, "WriteArgs", "ExactlyOne", "NonEmpty"),
              Data(read, updateNew, "Selectors", "ExactlyOne", "NonEmpty") }
        firstNodes ==
            << Node("Read", v.where), Node("If", NoArg), Node("Create", v.create),
               Node("UpdateChild", NoArg) >>
    IN /\ IF ParentIsCreate
            THEN /\ nodes' = nodes \o firstNodes
                 /\ edges' = edges \cup common \cup {Then(if, updateNew)}
            ELSE /\ nodes' = nodes \o firstNodes
                                   \o << Node("ReadRelated", NoArg), Node("Diff", NoArg),
                                         Node("If", NoArg), Node("Nullify", NoArg) >>
                 /\ edges' = edges \cup common \cup FindRelatedEdges(ParentNode, readOld)
                      \cup { Then(if, readOld),
                             Data(read, diff, "DiffLeft", "All", "None"),
                             Data(readOld, diff, "DiffRight", "All", "None"),
                             Data(diff, if2, "IfInput", "All", "None"),
                             Data(readOld, updateOld, "Selectors", "AtMostOne",
                                  IF rel.fkRequired THEN "Empty" ELSE "None"),
                             Then(if2, updateOld) }
                      \cup UpdateOldBeforeNew(updateOld, updateNew)
       /\ UNCHANGED marked

(***************************************************************************)
(* handle_one_to_one: pop the last entry, extract where and create, and   *)
(* dispatch on the inlined side.                                          *)
(***************************************************************************)
HandleOneToOne ==
    /\ values # <<>>
    /\ LET v == values[Len(values)]
       IN IF rel.inlinedOnParent THEN OneToOneInlinedParent(v)
                                 ELSE OneToOneInlinedChild(v)
    /\ values' = <<>>
    /\ UNCHANGED rel

\* handle_one_to_many: dispatch on the inlined side.
HandleOneToMany ==
    IF rel.inlinedOnParent THEN OneToManyInlinedParent ELSE OneToManyInlinedChild

\* nested_connect_or_create: dispatch on the relation kind.
NestedConnectOrCreate ==
    CASE rel.kind = "ManyToMany" -> HandleManyToMany
      [] rel.kind = "OneToMany"  -> HandleOneToMany
      [] OTHER                   -> HandleOneToOne

\* The builder has handled every entry.
Built == values = <<>>
=============================================================================
