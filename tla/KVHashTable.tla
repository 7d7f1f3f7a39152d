---------------------------- MODULE KVHashTable ----------------------------
(***************************************************************************)
(* The hash table of src/kvstore/kvstore.c under the SET, GET and DEL     *)
(* requests of several worker threads.  The bucket and item locks are     *)
(* only comments in the code, so every access to shared memory is a step  *)
(* of its own and the threads interleave between them.                    *)
(*                                                                         *)
(* All keys fall into one bucket: items of different buckets never share  *)
(* a pointer, so one bucket is where requests interfere.  An item is a    *)
(* node of Nodes; a freed item keeps the fields it had, and a read or     *)
(* write through a freed or NULL pointer sets fault.  The lookup of       *)
(* get_item is one step.                                                   *)
(***************************************************************************)
EXTENDS Naturals, Sequences, FiniteSets, SequencesExt, TLC

CONSTANTS
  NULL,      \* the null pointer, also "no value"
  Workers,   \* worker threads serving requests
  Keys,      \* request keys
  Vals,      \* request payloads
  MaxOps     \* requests served in all

Nodes == 1 .. MaxOps          \* hash_item_t addresses calloc may return
Link == Nodes \cup {NULL}
Requests == [m : {"SET"}, k : Keys, v : Vals] \cup [m : {"GET", "DEL"}, k : Keys, v : {NULL}]

VARIABLES
  head,      \* ht->items[bucket_index]
  item,      \* allocated items: Node -> [key, value, next, prev]
  freed,     \* items passed to free
  fault,     \* a dereference of NULL or of a freed item happened
  pc,        \* where each worker is in its request
  req,       \* the request each worker serves
  target,    \* the item its lookup found
  new,       \* the item a SET allocated
  oldHead,   \* old_head of set_request
  branch,    \* the case del_item took
  ops        \* requests received so far

locals == <<req, target, new, oldHead, branch>>
vars == <<head, item, freed, fault, pc, locals, ops>>

PC == {"idle", "set_write", "set_alloc", "set_read_head", "set_link",
       "set_publish", "get_send", "del_test", "del_w1", "del_w2", "del_free"}

(* A pointer that may not be dereferenced. *)
Bad(x) == x = NULL \/ x \in freed

(* A step that dereferences the pointers ps: one of them bad is a fault. *)
Deref(ps) == fault' = (fault \/ \E x \in ps : Bad(x))

(* Field f of the item at x is written; through NULL nothing is. *)
Write(x, f, val) ==
  item' = IF x = NULL THEN item ELSE [item EXCEPT ![x][f] = val]

(* Mutant: strcmp's result is read the wrong way round. *)
RECURSIVE FindInverted(_, _, _)
FindInverted(x, k, n) ==
  IF x = NULL \/ n = 0 THEN NULL
  ELSE IF item[x].key # k THEN x ELSE FindInverted(item[x].next, k, n - 1)

(* get_item: the first item of the bucket list from x with key k. *)
RECURSIVE Find(_, _, _)
Find(x, k, n) ==
  IF x = NULL \/ n = 0 THEN NULL
  ELSE IF item[x].key = k THEN x ELSE Find(item[x].next, k, n - 1)

(* The items get_item reads on its way to k. *)
RECURSIVE Walk(_, _, _)
Walk(x, k, n) ==
  IF x = NULL \/ n = 0 THEN {}
  ELSE {x} \cup (IF item[x].key = k THEN {} ELSE Walk(item[x].next, k, n - 1))

(* The bucket list read front to back, cut after one item more than exist.*)
RECURSIVE ChainFrom(_, _)
ChainFrom(x, n) ==
  IF x = NULL \/ n = 0 THEN <<>> ELSE <<x>> \o ChainFrom(item[x].next, n - 1)

Chain == ChainFrom(head, MaxOps + 1)

Lookup(k) == Find(head, k, MaxOps + 1)

(* Mutant: new_head->value = buf is missing. *)
NewItemNoValue(k, v) == [key |-> k, value |-> NULL, next |-> NULL, prev |-> NULL]

(* init_hash_item, then the key and value set_request copies in. *)
NewItem(k, v) == [key |-> k, value |-> v, next |-> NULL, prev |-> NULL]

(* init_hashtable *)
Init ==
  /\ head = NULL
  /\ item = <<>>
  /\ freed = {}
  /\ fault = FALSE
  /\ pc = [w \in Workers |-> "idle"]
  /\ req = [w \in Workers |-> [m |-> "GET", k |-> CHOOSE k \in Keys : TRUE, v |-> NULL]]
  /\ target = [w \in Workers |-> NULL]
  /\ new = [w \in Workers |-> NULL]
  /\ oldHead = [w \in Workers |-> NULL]
  /\ branch = [w \in Workers |-> "none"]
  /\ ops = 0

Goto(w, l) == pc' = [pc EXCEPT ![w] = l]

(* recv_request and the get_item each handler starts with (lines 63,    *)
(* 123, 163).  A GET or DEL of a missing key answers KEY_ERROR at once.  *)
Receive(w) ==
  /\ pc[w] = "idle"
  /\ ops < MaxOps
  /\ \E r \in Requests :
       LET t == Lookup(r.k)
       IN /\ ops' = ops + 1
          /\ req' = [req EXCEPT ![w] = r]
          /\ target' = [target EXCEPT ![w] = t]
          /\ fault' = (fault \/ Walk(head, r.k, MaxOps + 1) \cap freed # {})
          /\ Goto(w, CASE r.m = "SET" /\ t # NULL -> "set_write"
                       [] r.m = "SET"              -> "set_alloc"
                       [] r.m = "GET" /\ t # NULL  -> "get_send"
                       [] r.m = "DEL" /\ t # NULL  -> "del_test"
                       [] OTHER                    -> "idle")
  /\ UNCHANGED <<head, item, freed, new, oldHead, branch>>

(* Lines 76-79: the key exists, its value is replaced. *)
SetWrite(w) ==
  /\ pc[w] = "set_write"
  /\ Deref({target[w]})
  /\ Write(target[w], "value", req[w].v)
  /\ Goto(w, "idle")
  /\ UNCHANGED <<head, freed, locals, ops>>

(* Lines 84-91: a new item is made and the bucket head tested. *)
SetAlloc(w) ==
  /\ pc[w] = "set_alloc"
  /\ LET n == CHOOSE n \in Nodes : n \notin DOMAIN item
     IN /\ item' = item @@ (n :> NewItem(req[w].k, req[w].v))
        /\ new' = [new EXCEPT ![w] = n]
  /\ Goto(w, IF head # NULL THEN "set_read_head" ELSE "set_publish")
  /\ UNCHANGED <<head, freed, fault, req, target, oldHead, branch, ops>>

(* Line 93: old_head = ht->items[bucket_index]. *)
SetReadHead(w) ==
  /\ pc[w] = "set_read_head"
  /\ oldHead' = [oldHead EXCEPT ![w] = head]
  /\ Goto(w, "set_link")
  /\ UNCHANGED <<head, item, freed, fault, req, target, new, branch, ops>>

(* Lines 94-97: old_head->prev = new_head, then the new item's links. *)
SetLink(w) ==
  /\ pc[w] = "set_link"
  /\ Deref({oldHead[w]})
  /\ LET linked == [item EXCEPT ![new[w]].next = oldHead[w]]
     IN item' = IF oldHead[w] = NULL THEN linked
                ELSE [linked EXCEPT ![oldHead[w]].prev = new[w]]
  /\ Goto(w, "set_publish")
  /\ UNCHANGED <<head, freed, locals, ops>>

(* Lines 99 and 104: ht->items[bucket_index] = new_head. *)
SetPublish(w) ==
  /\ pc[w] = "set_publish"
  /\ head' = new[w]
  /\ Goto(w, "idle")
  /\ UNCHANGED <<item, freed, fault, locals, ops>>

(* Line 128: the value of the item found is sent. *)
GetSend(w) ==
  /\ pc[w] = "get_send"
  /\ Deref({target[w]})
  /\ Goto(w, "idle")
  /\ UNCHANGED <<head, item, freed, locals, ops>>

(* Line 139: del_item reads target->prev and target->next for its case. *)
DelTest(w) ==
  /\ pc[w] = "del_test"
  /\ LET t == target[w]
     IN branch' = [branch EXCEPT ![w] =
          CASE item[t].prev # NULL /\ item[t].next # NULL -> "middle"
            [] item[t].prev # NULL                        -> "tail"
            [] item[t].next # NULL                        -> "head"
            [] OTHER                                      -> "only"]
  /\ Deref({target[w]})
  /\ Goto(w, "del_w1")
  /\ UNCHANGED <<head, item, freed, req, target, new, oldHead, ops>>

(* Mutant: the head case leaves next->prev pointing at the deleted item. *)
DelFirstWriteNoPrevFix(w) ==
  LET t == target[w]
      p == item[t].prev
      n == item[t].next
  IN CASE branch[w] = "middle" -> Deref({t, p}) /\ Write(p, "next", n) /\ UNCHANGED head
       [] branch[w] = "tail"   -> Deref({t, p}) /\ Write(p, "next", NULL) /\ UNCHANGED head
       [] branch[w] = "head"   -> UNCHANGED <<item, fault, head>>
       [] OTHER                -> head' = NULL /\ UNCHANGED <<item, fault>>

(* The first write of del_item: lines 141, 145, 148 or 152.  Each reads   *)
(* target->prev and target->next again.                                  *)
DelFirstWrite(w) ==
  LET t == target[w]
      p == item[t].prev
      n == item[t].next
  IN CASE branch[w] = "middle" -> Deref({t, p}) /\ Write(p, "next", n) /\ UNCHANGED head
       [] branch[w] = "tail"   -> Deref({t, p}) /\ Write(p, "next", NULL) /\ UNCHANGED head
       [] branch[w] = "head"   -> Deref({t, n}) /\ Write(n, "prev", NULL) /\ UNCHANGED head
       [] OTHER                -> head' = NULL /\ UNCHANGED <<item, fault>>

DelW1(w) ==
  /\ pc[w] = "del_w1"
  /\ DelFirstWrite(w)
  /\ Goto(w, IF branch[w] \in {"middle", "head"} THEN "del_w2" ELSE "del_free")
  /\ UNCHANGED <<freed, locals, ops>>

(* The second write of del_item: line 142 or 149. *)
DelW2(w) ==
  /\ pc[w] = "del_w2"
  /\ LET t == target[w]
     IN IF branch[w] = "middle"
        THEN /\ Deref({t, item[t].next})
             /\ Write(item[t].next, "prev", item[t].prev)
             /\ UNCHANGED head
        ELSE /\ Deref({t})
             /\ head' = item[t].next
             /\ UNCHANGED item
  /\ Goto(w, "del_free")
  /\ UNCHANGED <<freed, locals, ops>>

(* Lines 155-158: the item, its key, value and lock are freed. *)
DelFree(w) ==
  /\ pc[w] = "del_free"
  /\ freed' = freed \cup {target[w]}
  /\ fault' = (fault \/ target[w] \in freed)
  /\ Goto(w, "idle")
  /\ UNCHANGED <<head, item, locals, ops>>

Worker(w) ==
  \/ Receive(w) \/ SetWrite(w) \/ SetAlloc(w) \/ SetReadHead(w)
  \/ SetLink(w) \/ SetPublish(w) \/ GetSend(w)
  \/ DelTest(w) \/ DelW1(w) \/ DelW2(w) \/ DelFree(w)

Next == \E w \in Workers : Worker(w)

Spec == Init /\ [][Next]_vars

-----------------------------------------------------------------------------
(* Properties.                                                             *)

TypeOK ==
  /\ head \in Link
  /\ DOMAIN item \subseteq Nodes
  /\ \A x \in DOMAIN item :
       item[x] \in [key : Keys, value : Vals, next : Link, prev : Link]
  /\ freed \subseteq DOMAIN item
  /\ pc \in [Workers -> PC]
  /\ req \in [Workers -> Requests]
  /\ ops \in 0 .. MaxOps

Quiescent == \A w \in Workers : pc[w] = "idle"

(* Between requests the bucket is a well formed doubly linked list of     *)
(* live items: no cycle, the head has no prev, each item's prev is the    *)
(* item before it, and no freed item is reachable from the bucket.        *)
BucketWellFormed ==
  Quiescent =>
    /\ IsInjective(Chain)
    /\ ToSet(Chain) \cap freed = {}
    /\ head # NULL => item[head].prev = NULL
    /\ \A i \in 1 .. Len(Chain) - 1 : item[Chain[i + 1]].prev = Chain[i]

(* Between requests every item that was made and not freed is in the      *)
(* bucket: no SET's item is lost (it would leak and its key vanish).      *)
(* set_request's unlocked check-then-insert breaks this and KeysUnique    *)
(* as soon as two workers serve SETs; with one worker both follow from   *)
(* StoreRefinement, so no run checks them.                                *)
NoLostItem ==
  Quiescent => DOMAIN item \ freed \subseteq ToSet(Chain)

(* No two items in the bucket have the same key. *)
KeysUnique ==
  \A i, j \in 1 .. Len(Chain) : i < j => item[Chain[i]].key # item[Chain[j]].key

(* No request reads or writes an item after it was freed, or follows a     *)
(* NULL link (get_item, the writes of set_request and del_item, the send  *)
(* of get_request).                                                        *)
NoBadDereference == ~fault

(* The value get_item finds for each key. *)
Store == [k \in Keys |-> LET x == Lookup(k) IN IF x = NULL THEN NULL ELSE item[x].value]

(* The table, read through get_item, behaves as the map of KVStoreSpec:   *)
(* each step binds one key, unbinds one key, or changes nothing a lookup  *)
(* can see.                                                                *)
StoreSpec == INSTANCE KVStoreSpec WITH store <- Store
StoreRefinement == StoreSpec!Spec
=============================================================================
