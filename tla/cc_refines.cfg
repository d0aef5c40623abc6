CONSTANTS
    P0 = P0
    P1 = P1
    PN = PN
    C1 = C1
    C2 = C2
    ParentIds <- MCParentIds
    ChildIds <- MCChildIds
    UpdatedParent = P0
    NewParent = PN
    RelSet <- RelationsButOneToOneParent
    Ops = {"create", "update"}
    MaxEntries = 2
    EntryChoices <- SameKeyEntry
SPECIFICATION Spec
CHECK_DEADLOCK FALSE
PROPERTIES
    AbsSpec
