---------------------------- MODULE MCKVServer -----------------------------
EXTENDS KVServer, TLC

WorkerSymmetry == Permutations(Workers)
=============================================================================
