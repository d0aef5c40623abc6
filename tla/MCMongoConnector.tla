--------------------------- MODULE MCMongoConnector ---------------------------
EXTENDS MongoConnector

CONSTANTS F1, F2

\* Two distinct preview-feature sets, e.g. none and one enabled feature.
MCFeatureSets == {F1, F2}
=============================================================================
