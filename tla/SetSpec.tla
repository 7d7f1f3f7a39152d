------------------------------- MODULE SetSpec -------------------------------
(***************************************************************************)
(* What HashSet.h promises its callers, from the comments on add, contains *)
(* and remove: a set of unique elements; add fails on an element already   *)
(* in it, contains tells whether an element is in it, remove fails on an   *)
(* element not in it.  ret is the last call, its argument and its result.  *)
(***************************************************************************)
EXTENDS Integers

CONSTANT Elems

VARIABLES set, ret

Init == set = {} /\ ret = [op |-> "none", arg |-> -1, val |-> FALSE]

Add(x) == set' = set \cup {x} /\ ret' = [op |-> "add", arg |-> x, val |-> x \notin set]

Contains(x) == ret' = [op |-> "contains", arg |-> x, val |-> x \in set] /\ UNCHANGED set

Remove(x) == set' = set \ {x} /\ ret' = [op |-> "remove", arg |-> x, val |-> x \in set]

Next == \E x \in Elems : Add(x) \/ Contains(x) \/ Remove(x)

Spec == Init /\ [][Next]_<<set, ret>>
=============================================================================
