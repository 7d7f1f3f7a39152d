---------------------------- MODULE KVStoreSpec ----------------------------
(***************************************************************************)
(* What the hash table of src/kvstore/kvstore.c promises the requests:    *)
(* a map from keys to values.  SET binds a key, DEL unbinds it, GET does   *)
(* not change the map.  NULL stands for a key with no value.               *)
(***************************************************************************)
CONSTANTS NULL, Keys, Vals

VARIABLE store

Init == store = [k \in Keys |-> NULL]

Set(k, v) == store' = [store EXCEPT ![k] = v]

Del(k) == store' = [store EXCEPT ![k] = NULL]

Next == \E k \in Keys : Del(k) \/ \E v \in Vals : Set(k, v)

Spec == Init /\ [][Next]_store
=============================================================================
