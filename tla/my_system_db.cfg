CONSTANTS
    E1 = E1
    E2 = E2
    Engines <- MCEngines
    NoOwner = NoOwner
SPECIFICATION Spec
INVARIANTS
    SystemDatabaseKept
