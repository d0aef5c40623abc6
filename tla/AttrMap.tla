-------------------------------- MODULE AttrMap --------------------------------
(***************************************************************************)
(* NestedAttrMap of the connector test macros (query-test-macros,         *)
(* attr_map.rs): a test's attribute arguments and its suite's are each    *)
(* collected into a map from the attribute name to the attribute         *)
(* (from_nested_meta), then the test's map is merged with the suite's    *)
(* (merge).  merge walks the incoming map in HashMap iteration order,     *)
(* which is unspecified, so each visited key is a step and the order is   *)
(* any order.  An attribute is reduced to its name and a value; its        *)
(* tokens are left out.                                                   *)
(***************************************************************************)
EXTENDS Naturals, Sequences, SequencesExt, TLC

CONSTANTS
    Keys,     \* attribute names, containing "only" and "exclude"
    Vals,     \* attribute payloads (model values)
    MaxArgs   \* bound on the arguments of one attribute list

ASSUME {"only", "exclude"} \subseteq Keys /\ MaxArgs \in Nat

\* NestedMeta: a meta item `name = ...` / `name(...)`, a meta whose path is
\* not a single identifier (`a::b`), or a literal.
Meta == [kind : {"Ident"}, key : Keys, val : Vals]
          \cup [kind : {"Path", "Lit"}, val : Vals]

ArgLists == UNION {[1..n -> Meta] : n \in 0..MaxArgs}

Connector == {"only", "exclude"}

VARIABLES
    selfArgs,   \* the test's attribute list (read-only)
    otherArgs,  \* the suite's attribute list (read-only)
    self,       \* the test's map, merged into in place
    other,      \* the suite's map
    selfHasConnector,
    pending,    \* keys of `other` the iteration has not visited yet
    phase       \* "parse", "merge", "loop", "done", "error" or "panic"

vars == <<selfArgs, otherArgs, self, other, selfHasConnector, pending, phase>>

\* from_nested_meta: collect (name, meta) pairs into a HashMap; a later
\* duplicate name replaces the earlier entry.
FromNestedMeta(args) ==
    FoldLeft(LAMBDA m, a : (a.key :> a) @@ m,
             <<>>, args)

\* Both lists are parsed.  The iteration stops at the first item that is
\* not a single-identifier meta: collect returns the error of a literal,
\* and `get_ident().unwrap()` panics on a longer path.
FirstBad(args) == SelectInSeq(args, LAMBDA a : a.kind # "Ident")

ParseOutcome(args) ==
    IF FirstBad(args) = 0 THEN "ok" ELSE args[FirstBad(args)].kind

\* Mutant: the literal arm falls into the meta arm, keyed by an empty name.
ParseKeepLit ==
    /\ phase = "parse"
    /\ LET ok(args) == ~\E i \in DOMAIN args : args[i].kind = "Path"
           key(a) == IF a.kind = "Ident" THEN a.key ELSE ""
           collect(args) == FoldLeft(LAMBDA m, a : (key(a) :> a) @@ m, <<>>, args)
       IN \/ /\ ok(selfArgs) /\ ok(otherArgs)
             /\ self' = collect(selfArgs)
             /\ other' = collect(otherArgs)
             /\ phase' = "merge"
          \/ /\ ~(ok(selfArgs) /\ ok(otherArgs))
             /\ phase' = "panic"
             /\ UNCHANGED <<self, other>>
    /\ UNCHANGED <<selfArgs, otherArgs, selfHasConnector, pending>>

Parse ==
    /\ phase = "parse"
    /\ LET o == {ParseOutcome(selfArgs), ParseOutcome(otherArgs)} IN
       \/ /\ o = {"ok"}
          /\ self' = FromNestedMeta(selfArgs)
          /\ other' = FromNestedMeta(otherArgs)
          /\ phase' = "merge"
       \/ /\ o # {"ok"}
          \* Which list the macro parses first is up to its caller.
          /\ \E x \in o \ {"ok"} : phase' = IF x = "Path" THEN "panic" ELSE "error"
          /\ UNCHANGED <<self, other>>
    /\ UNCHANGED <<selfArgs, otherArgs, selfHasConnector, pending>>

\* merge, before the loop: does the test restrict the connectors?
MergeStart ==
    /\ phase = "merge"
    /\ selfHasConnector' = (\E k \in Connector : k \in DOMAIN self)
    /\ pending' = DOMAIN other
    /\ phase' = IF DOMAIN other = {} THEN "done" ELSE "loop"
    /\ UNCHANGED <<selfArgs, otherArgs, self, other>>

\* Mutant: whether self has a connector key is re-read on every iteration.
MergeStepRecheck(k) ==
    /\ phase = "loop" /\ k \in pending
    /\ LET allow == ~((\E c \in Connector : c \in DOMAIN self) /\ k \in Connector) IN
       self' = IF k \notin DOMAIN self /\ allow THEN (k :> other[k]) @@ self ELSE self
    /\ pending' = pending \ {k}
    /\ phase' = IF pending' = {} THEN "done" ELSE "loop"
    /\ UNCHANGED <<selfArgs, otherArgs, other, selfHasConnector>>

\* One iteration of the loop over `other`: insert into a vacant entry only.
MergeStep(k) ==
    /\ phase = "loop" /\ k \in pending
    /\ LET allow == ~(selfHasConnector /\ k \in Connector) IN
       self' = IF k \notin DOMAIN self /\ allow THEN (k :> other[k]) @@ self ELSE self
    /\ pending' = pending \ {k}
    /\ phase' = IF pending' = {} THEN "done" ELSE "loop"
    /\ UNCHANGED <<selfArgs, otherArgs, other, selfHasConnector>>

Init ==
    /\ selfArgs \in ArgLists /\ otherArgs \in ArgLists
    /\ self = <<>> /\ other = <<>>
    /\ selfHasConnector = FALSE
    /\ pending = {}
    /\ phase = "parse"

Next ==
    \/ Parse
    \/ MergeStart
    \/ \E k \in Keys : MergeStep(k)

Spec == Init /\ [][Next]_vars

-----------------------------------------------------------------------------
AttrMapOf(S) == UNION {[D -> S] : D \in SUBSET Keys}

TypeOK ==
    /\ phase \in {"parse", "merge", "loop", "done", "error", "panic"}
    /\ self \in AttrMapOf(Meta) /\ other \in AttrMapOf(Meta)
    /\ \A k \in DOMAIN self : self[k].kind = "Ident" /\ self[k].key = k
    /\ selfHasConnector \in BOOLEAN
    /\ pending \subseteq Keys

\* The merge rules stated on merge: the result keeps every entry of the
\* test's map, and adds each suite entry whose name the test lacks, except
\* that "only" and "exclude" of the suite are both dropped when the test
\* names either of them (so the two never mix).  Checked whatever order the
\* HashMap yields the suite's entries in.
MergeRules(s, o) ==
    LET conn == \E c \in Connector : c \in DOMAIN s
        added == {k \in DOMAIN o \ DOMAIN s : ~(conn /\ k \in Connector)}
    IN [k \in DOMAIN s \cup added |-> IF k \in DOMAIN s THEN s[k] ELSE o[k]]

MergeFollowsRules ==
    phase = "done" =>
        self = MergeRules(FromNestedMeta(selfArgs), FromNestedMeta(otherArgs))
=============================================================================
