CONSTANTS
    F1 = F1
    F2 = F2
    FeatureSets <- MCFeatureSets
    MaxOutages = 2

SPECIFICATION Spec

INVARIANTS
    TypeOK
