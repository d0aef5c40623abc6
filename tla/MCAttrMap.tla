------------------------------ MODULE MCAttrMap ------------------------------
EXTENDS AttrMap

CONSTANTS V1, V2

\* "schema" stands for every attribute other than the two connector filters.
MCKeys == {"only", "exclude", "schema"}
MCVals == {V1, V2}
=============================================================================
