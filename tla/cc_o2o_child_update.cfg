CONSTANTS
    P0 = P0
    P1 = P1
    PN = PN
    C1 = C1
    C2 = C2
    ParentIds <- MCParentIds
    ChildIds <- MCChildIds
    UpdatedParent = P0
    NewParent = PN
    RelSet <- OneToOneChildOptional
    Ops = {"update"}
    MaxEntries = 1
    EntryChoices <- SameKeyEntry
SPECIFICATION Spec
\* The walk ends in a commit or a rollback; those states have no successor.
CHECK_DEADLOCK FALSE
\* Only inputs whose where finds an existing child: the Then (rewire) branch.
CONSTRAINT WhereFindsChild
INVARIANTS
    NoSpuriousFailure
