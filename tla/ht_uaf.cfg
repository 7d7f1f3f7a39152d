\* A GET racing a DEL reads the item after del_item freed it.
CONSTANTS
  NULL = NULL
  Workers = {w1, w2}
  Keys = {k1, k2}
  Vals = {v1}
  MaxOps = 3
SPECIFICATION Spec
INVARIANTS
  NoBadDereference
\* The server idles once the clients send no more requests.
CHECK_DEADLOCK FALSE
