CONSTANTS
    V1 = V1
    V2 = V2
    Keys <- MCKeys
    Vals <- MCVals
    MaxArgs = 2

SPECIFICATION Spec

\* merge returns once the suite's map is walked; parsing may end in an
\* error or a panic.  Those states have no successor.
CHECK_DEADLOCK FALSE

INVARIANTS
    TypeOK
    MergeFollowsRules
