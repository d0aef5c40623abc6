------------------------ MODULE MCConnectOrCreate ------------------------
(***************************************************************************)
(* Model-checking instances of ConnectOrCreateSystem.  Row identifiers are  *)
(* model values: P0 is the parent an update writes, P1 another existing    *)
(* parent, PN the parent a create inserts; C1 and C2 are child rows.  Two   *)
(* child identifiers are enough for a child to exist or not, to be linked  *)
(* to another parent or not, and for two entries to name the same child or *)
(* different ones.                                                         *)
(***************************************************************************)
EXTENDS ConnectOrCreateSystem

CONSTANTS P0, P1, PN, C1, C2

MCParentIds == {P0, P1, PN}
MCChildIds == {C1, C2}

Rel(k, inl, req) == [kind |-> k, inlinedOnParent |-> inl, fkRequired |-> req]

\* Every relation the schema validator admits.
AllRelations == Relations

\* Every relation except 1:1 inlined on the parent.
RelationsButOneToOneParent == Relations \ {Rel("OneToOne", TRUE, b) : b \in BOOLEAN}

\* 1:1 relations whose foreign key is on the parent.
OneToOneParent == {Rel("OneToOne", TRUE, b) : b \in BOOLEAN}

\* 1:1 inlined on the parent with a nullable, resp. NOT NULL, foreign key.
OneToOneParentOptional == {Rel("OneToOne", TRUE, FALSE)}
OneToOneParentRequired == {Rel("OneToOne", TRUE, TRUE)}

\* Every m:n and 1:n relation.
ManyRelations == {Rel("ManyToMany", FALSE, FALSE)} \cup
                 {Rel("OneToMany", inl, req) : inl, req \in BOOLEAN}

\* 1:1 inlined on the child with a nullable, resp. NOT NULL, foreign key.
OneToOneChildOptional == {Rel("OneToOne", FALSE, FALSE)}
OneToOneChildRequired == {Rel("OneToOne", FALSE, TRUE)}

\* The relations where a single entry is built without a known defect.
NoSpuriousRelations == ManyRelations \cup OneToOneChildRequired

\* To-many relations where two entries can name the same child.
ToManyRelations == {Rel("ManyToMany", FALSE, FALSE)} \cup
                   {Rel("OneToMany", FALSE, b) : b \in BOOLEAN}
\* Any unique filter with any create payload.
AnyEntry == [where : MCChildIds, create : MCChildIds]

\* The create payload carries the unique key the filter looks up.
SameKeyEntry == {[where |-> c, create |-> c] : c \in MCChildIds}

\* State constraint for runs about the Then branch: every entry's unique
\* filter finds an existing child (the child rows are never deleted, so
\* the constraint only selects initial states).
WhereFindsChild == \A i \in DOMAIN entries : entries[i].where \in db.children
==========================================================================
