--------------------------- MODULE MCKVHashTable ---------------------------
EXTENDS KVHashTable

WorkerSymmetry == Permutations(Workers)
=============================================================================
