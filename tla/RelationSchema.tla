---------------------------- MODULE RelationSchema ----------------------------
(***************************************************************************)
(* The slice of the validated schema and of the database that a nested    *)
(* connect-or-create touches (spec section 3): one relation between a     *)
(* parent model and a child model, and the rows of both models with the   *)
(* relation instances between them.                                       *)
(*                                                                         *)
(* A relation is a record                                                  *)
(*   kind            ManyToMany, OneToMany or OneToOne;                    *)
(*   inlinedOnParent parent_relation_field.is_inlined_on_enclosing_model():*)
(*                   the parent row holds the foreign key (FALSE for m:n); *)
(*   fkRequired      the relation field on the inlined side is required,  *)
(*                   i.e. the foreign key column is NOT NULL.              *)
(* The side without the foreign key is never required: the schema         *)
(* validator rejects a required back-relation field of a 1:1 relation,    *)
(* and the list side of a 1:n relation cannot be required.                *)
(*                                                                         *)
(* A relation instance is a pair <<parent, child>>; it is a row of the    *)
(* join table for m:n, and a foreign-key value otherwise.                 *)
(***************************************************************************)
EXTENDS Naturals, FiniteSets

CONSTANTS
    ParentIds,      \* identifiers parent rows can have
    ChildIds,       \* identifiers child rows can have
    UpdatedParent,  \* the parent row an update-parent operation writes
    NewParent       \* the identifier a create-parent operation inserts

ASSUME UpdatedParent \in ParentIds /\ NewParent \in ParentIds /\ UpdatedParent # NewParent
ASSUME ParentIds \cap ChildIds = {}

RelationKinds == {"ManyToMany", "OneToMany", "OneToOne"}

Relations ==
    { r \in [kind : RelationKinds, inlinedOnParent : BOOLEAN, fkRequired : BOOLEAN] :
        r.kind = "ManyToMany" => (~r.inlinedOnParent /\ ~r.fkRequired) }

IsToOne(r) == r.kind = "OneToOne" \/ (r.kind = "OneToMany" /\ r.inlinedOnParent)

Db == [parents : SUBSET ParentIds, children : SUBSET ChildIds,
       link : SUBSET (ParentIds \X ChildIds)]

\* The relation instances row x takes part in.
LinksOf(l, x) == {e \in l : e[1] = x \/ e[2] = x}

\* The rows that hold the foreign key.
FkRows(r, d) ==
    IF r.kind = "ManyToMany" THEN {}
    ELSE IF r.inlinedOnParent THEN d.parents ELSE d.children

\* The constraints the database enforces on every statement: foreign keys
\* point at existing rows, a foreign-key column holds one value, the 1:1
\* foreign key is unique, and a required foreign key is NOT NULL.
Consistent(r, d) ==
    /\ \A e \in d.link : e[1] \in d.parents /\ e[2] \in d.children
    /\ \A x \in FkRows(r, d) : Cardinality(LinksOf(d.link, x)) <= 1
    /\ r.kind = "OneToOne" =>
         \A x \in d.parents \cup d.children : Cardinality(LinksOf(d.link, x)) <= 1
    /\ r.fkRequired => \A x \in FkRows(r, d) : LinksOf(d.link, x) # {}

\* The pair linking rows a and b, whichever model each belongs to.
Pair(a, b) == IF a \in ParentIds THEN <<a, b>> ELSE <<b, a>>

\* Writing the foreign key of `rows` to point at x.
SetFk(l, rows, x) ==
    (l \ UNION {LinksOf(l, y) : y \in rows}) \cup {Pair(y, x) : y \in rows}

\* Writing NULL into the foreign key of `rows`.
Unlink(l, rows) == l \ UNION {LinksOf(l, y) : y \in rows}

\* The rows of the other model related to any of `rows`.
Related(l, rows) ==
    {e[2] : e \in {x \in l : x[1] \in rows}} \cup {e[1] : e \in {x \in l : x[2] \in rows}}
=============================================================================
