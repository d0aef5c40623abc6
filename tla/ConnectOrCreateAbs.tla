--------------------------- MODULE ConnectOrCreateAbs ---------------------------
(***************************************************************************)
(* What a nested connect-or-create promises (spec sections 4.3 to 4.7),    *)
(* as one atomic step on the committed database.  For each entry          *)
(* {where, create}, one after the other in some order (the graph does not *)
(* order the subgraphs of different entries, spec section 5): if a child   *)
(* matches `where` it is connected                                        *)
(* to the parent, otherwise the child `create` is inserted and connected.  *)
(* Connecting rewrites the foreign key on the inlined side; on a 1:1       *)
(* relation it also disconnects the row the other side was linked to.     *)
(* The operation either commits that result, which must satisfy every     *)
(* database constraint, or fails and leaves the database as it was.       *)
(***************************************************************************)
EXTENDS RelationSchema, Sequences, SequencesExt

VARIABLES
    db,       \* the committed database, a member of Db
    outcome,  \* "pending", "committed" or "failed"
    rel,      \* the relation (read-only)
    op,       \* "create" or "update": the enclosing parent operation (read-only)
    entries   \* the sequence of [where, create] entries (read-only)

vars == <<db, outcome, rel, op, entries>>

ParentRow == IF op = "create" THEN NewParent ELSE UpdatedParent

\* The relation instances a new link <<p, t>> overwrites.
Displaced(x, p, t) ==
    CASE rel.kind = "ManyToMany" -> FALSE
      [] rel.inlinedOnParent     -> x[1] = p \/ (rel.kind = "OneToOne" /\ x[2] = t)
      [] OTHER                   -> x[2] = t \/ (rel.kind = "OneToOne" /\ x[1] = p)

\* One entry applied to [db, ok]: connect the match or create and connect.
ApplyEntry(s, e) ==
    LET d == s.db
        t == IF e.where \in d.children THEN e.where ELSE e.create
    IN [db |-> [d EXCEPT !.children = @ \cup {t},
                         !.link = {x \in @ : ~Displaced(x, ParentRow, t)}
                                  \cup {<<ParentRow, t>>}],
        ok |-> s.ok /\ (e.where \in d.children \/ e.create \notin d.children)]

Start == [db |-> [db EXCEPT !.parents = @ \cup {ParentRow}], ok |-> TRUE]

\* The entries in every order.
Orders == { [i \in 1..Len(entries) |-> entries[p[i]]] : p \in SetToSeqs(1..Len(entries)) }

Result(s) == FoldLeft(ApplyEntry, Start, s)

SucceedsIn(s) == Result(s).ok /\ Consistent(rel, Result(s).db)

\* The operation can succeed from the current database.
CanSucceed == \E s \in Orders : SucceedsIn(s)

Init ==
    /\ outcome = "pending"
    /\ db \in Db /\ Consistent(rel, db)

Commit ==
    /\ outcome = "pending"
    /\ \E s \in Orders : SucceedsIn(s) /\ db' = Result(s).db
    /\ outcome' = "committed"
    /\ UNCHANGED <<rel, op, entries>>

Fail ==
    /\ outcome = "pending"
    /\ outcome' = "failed"
    /\ UNCHANGED <<db, rel, op, entries>>

Next == Commit \/ Fail

Spec == Init /\ [][Next]_vars
=============================================================================
