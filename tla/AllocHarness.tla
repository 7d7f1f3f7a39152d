---------------------------- MODULE AllocHarness ----------------------------
(***************************************************************************)
(* The checking layer of src/heapAllocator/test_framework around the       *)
(* allocator of Alloc: checked_alloc, checked_free and checked_realloc     *)
(* (checked_alloc.c) and the sorted, doubly linked region list `allocs`   *)
(* they keep (memlist.c).                                                  *)
(*                                                                         *)
(* Each checked call is one step: the allocator call of Alloc (the        *)
(* unprimed-to-primed heap and slot) conjoined with what the wrapper does *)
(* to its list before and after it.  When an assert or error() of the     *)
(* framework fires the test program exits: `failure` names the check and *)
(* no further call is made.                                                *)
(*                                                                         *)
(* Region bounds are in bytes, as in struct mem_region; a word address p  *)
(* of Alloc is the byte address p * ALIGNMENT.  Memory contents are not    *)
(* modelled: of the data checks only the one of checked_realloc, which     *)
(* depends on how many words myrealloc copied, is.                        *)
(***************************************************************************)
EXTENDS Alloc, Sequences

VARIABLES
  region,    \* region object -> [start, end, next, prev]: objects on allocs
  head,      \* allocs.head
  tail,      \* allocs.tail
  failure    \* "none", or the check of the framework that fired

hvars == <<region, head, tail, failure>>

(* Region objects.  Objects taken off allocs go to freed_allocs, which the *)
(* checks never read, so they leave the model and their ids are reused.   *)
CONSTANT RegionIds

Failures == {"overlap", "unreachable", "alloc_failed", "outside_heap",
             "no_allocation", "middle", "realloc_data"}

(* The list as one record, and writing it back. *)
List == [region |-> region, head |-> head, tail |-> tail]

CommitList(l) == region' = l.region /\ head' = l.head /\ tail' = l.tail

Start(l, r) == l.region[r].start
End(l, r) == l.region[r].end
Next_(l, r) == l.region[r].next

-----------------------------------------------------------------------------
(* memlist.c                                                               *)

(* regions_overlap: neither lies entirely before the other. *)
Overlap(s1, e1, s2, e2) == ~(e1 <= s2 \/ s1 >= e2)

(* alloc_region_object: a fresh object [start, end) on no list. *)
NewObject(l, start, end) ==
  LET r == CHOOSE x \in RegionIds \ DOMAIN l.region : TRUE
  IN [id |-> r,
      l |-> [l EXCEPT !.region = @ @@ (r :> [start |-> start, end |-> end,
                                             next |-> NULL, prev |-> NULL])]]

(* Setting r->prev or r->next, behind the C code's `if (r)` tests. *)
SetPrev(reg, r, v) == IF r = NULL THEN reg ELSE [reg EXCEPT ![r].prev = v]
SetNext(reg, r, v) == IF r = NULL THEN reg ELSE [reg EXCEPT ![r].next = v]

(* memlist_insert_front *)
InsertFront(l, n) ==
  [l EXCEPT !.region = SetPrev([@ EXCEPT ![n].next = l.head], l.head, n),
            !.head = n,
            !.tail = IF @ = NULL THEN n ELSE @]

(* memlist_insert_after *)
InsertAfter(l, a, n) ==
  LET nx == l.region[a].next
  IN [l EXCEPT !.region = SetPrev([@ EXCEPT ![n].next = nx, ![n].prev = a,
                                            ![a].next = n], nx, n),
               !.tail = IF nx = NULL THEN n ELSE @]

(* Mutant: the tail is not moved back when the tail object is removed. *)
RemoveKeepTail(l, o) ==
  LET nx == l.region[o].next
      pv == l.region[o].prev
      linked == SetNext(SetPrev(l.region, nx, pv), pv, nx)
  IN [region |-> [r \in DOMAIN l.region \ {o} |-> linked[r]],
      head |-> IF l.head = o THEN nx ELSE l.head,
      tail |-> l.tail]

(* memlist_remove; the object then goes to freed_allocs (see RegionIds). *)
Remove(l, o) ==
  LET nx == l.region[o].next
      pv == l.region[o].prev
      linked == SetNext(SetPrev(l.region, nx, pv), pv, nx)
  IN [region |-> [r \in DOMAIN l.region \ {o} |-> linked[r]],
      head |-> IF l.head = o THEN nx ELSE l.head,
      tail |-> IF l.tail = o THEN pv ELSE l.tail]

(* The loop of memlist_add_region from object r on: error() on an         *)
(* overlap, insertion after the first object the new one fits behind.     *)
RECURSIVE AddLoop(_, _, _)
AddLoop(l, r, n) ==
  IF r = NULL THEN [l |-> l, err |-> "unreachable"]
  ELSE IF Overlap(Start(l, n), End(l, n), Start(l, r), End(l, r))
  THEN [l |-> l, err |-> "overlap"]
  ELSE IF Start(l, n) >= End(l, r)
          /\ (Next_(l, r) = NULL \/ Start(l, Next_(l, r)) >= End(l, n))
  THEN [l |-> InsertAfter(l, r, n), err |-> "none"]
  ELSE AddLoop(l, Next_(l, r), n)

(* Mutant: the fast path for a region behind the tail tests tail->start. *)
AddRegionTailStart(l, start, len) ==
  LET o == NewObject(l, start, start + len)
      n == o.id
      l1 == o.l
  IN IF l.head = NULL \/ start + len <= Start(l, l.head)
     THEN [l |-> InsertFront(l1, n), err |-> "none"]
     ELSE IF start >= Start(l, l.tail)
     THEN [l |-> InsertAfter(l1, l.tail, n), err |-> "none"]
     ELSE AddLoop(l1, l1.head, n)

(* memlist_add_region: [l, err]; the fast paths for an empty list, a      *)
(* region before the head and a region behind the tail skip the loop.     *)
AddRegion(l, start, len) ==
  LET o == NewObject(l, start, start + len)
      n == o.id
      l1 == o.l
  IN IF l.head = NULL \/ start + len <= Start(l, l.head)
     THEN [l |-> InsertFront(l1, n), err |-> "none"]
     ELSE IF start >= End(l, l.tail)
     THEN [l |-> InsertAfter(l1, l.tail, n), err |-> "none"]
     ELSE AddLoop(l1, l1.head, n)

(* Mutant: the walk stops at an object starting at ptr, too. *)
RECURSIVE FindFromStrict(_, _, _)
FindFromStrict(l, r, ptr) ==
  IF r = NULL \/ ptr <= Start(l, r) THEN NULL
  ELSE IF ptr < End(l, r) THEN r
  ELSE FindFromStrict(l, Next_(l, r), ptr)

(* memlist_find: the object containing ptr; the walk stops at the first   *)
(* object starting beyond ptr, the list being sorted.                     *)
RECURSIVE FindFrom(_, _, _)
FindFrom(l, r, ptr) ==
  IF r = NULL \/ ptr < Start(l, r) THEN NULL
  ELSE IF ptr < End(l, r) THEN r
  ELSE FindFrom(l, Next_(l, r), ptr)

Find(l, ptr) == FindFrom(l, l.head, ptr)

-----------------------------------------------------------------------------
(* checked_alloc.c                                                         *)

(* The byte address of a pointer Alloc gives as a word address. *)
B(p) == p * ALIGNMENT

(* Where slot s points after the step. *)
HeldPtr(s) == IF slot'[s] = NULL THEN NULL ELSE slot'[s].ptr

(* What _checked_alloc does once the allocator returned ptr for size      *)
(* bytes, brkNow being the break after the call: [l, err].  A zero size  *)
(* takes the early return: mymalloc(0) is NULL, so no object is recorded *)
(* and zero_sized_allocs stays empty.  The calloc zero check and the      *)
(* alignment check hold by construction (mycalloc's memset, word          *)
(* addresses) and are not modelled.                                       *)
AfterAlloc(ptr, size, brkNow) ==
  IF size = 0 THEN [l |-> List, err |-> "none"]
  ELSE IF ptr = NULL THEN [l |-> List, err |-> "alloc_failed"]
  ELSE IF B(ptr) + size > B(brkNow) THEN [l |-> List, err |-> "outside_heap"]
  ELSE AddRegion(List, B(ptr), size)

(* The wrapper's outcome: its list, or the exit of the test program. *)
Settle(res) ==
  IF res.err = "none"
  THEN CommitList(res.l) /\ failure' = "none"
  ELSE UNCHANGED <<region, head, tail>> /\ failure' = res.err

(* A failed find or middle-pointer assert exits before the allocator runs. *)
Refuse(err) == failure' = err /\ UNCHANGED <<vars, region, head, tail>>

Running == failure = "none"

(* checked_alloc_array(n, size), and checked_alloc(size), which passes    *)
(* an even size as two halves: one mymalloc (mycalloc with -c: mymalloc   *)
(* of the product and a memset) of n * size bytes, then the checks.       *)
CheckedAlloc(s, n, size) ==
  /\ Running
  /\ Calloc(s, n, size)
  /\ Settle(AfterAlloc(HeldPtr(s), n * size, brk'))

(* checked_free(p) of a held pointer: find its object, check it starts   *)
(* at p, take it off allocs, myfree.                                      *)
CheckedFree(s) ==
  /\ Running
  /\ slot[s] # NULL
  /\ LET p == B(slot[s].ptr)
         r == Find(List, p)
     IN \/ r = NULL /\ Refuse("no_allocation")
        \/ r # NULL /\ Start(List, r) # p /\ Refuse("middle")
        \/ /\ r # NULL /\ Start(List, r) = p
           /\ Free(s)
           /\ CommitList(Remove(List, r))
           /\ failure' = "none"

(* checked_realloc(p, size) on a held pointer with a non-zero size: the  *)
(* first min(old, new) bytes at the new pointer must still hold the old  *)
(* data, which they do when the block stayed or myrealloc copied them.   *)
CheckedReallocLive(s, size) ==
  /\ Running
  /\ slot[s] # NULL
  /\ size # 0
  /\ LET p == B(slot[s].ptr)
         r == Find(List, p)
         res == MyReallocLive(Mem, slot[s].ptr, size)
         checkSize == Min({End(List, r) - Start(List, r), size})
         retained == res.ptr = slot[s].ptr \/ B(res.copied) >= checkSize
     IN \/ r = NULL /\ Refuse("no_allocation")
        \/ r # NULL /\ Start(List, r) # p /\ Refuse("middle")
        \/ /\ r # NULL /\ Start(List, r) = p
           /\ Realloc(s, size)
           /\ IF retained
              THEN Settle(AddRegion(Remove(List, r), B(res.ptr), size))
              ELSE Settle([err |-> "realloc_data"])

(* checked_realloc(NULL, size) is _checked_alloc of myrealloc(NULL, size); *)
(* checked_realloc(p, 0) is _checked_free of p.                           *)
CheckedRealloc(s, size) ==
  \/ slot[s] = NULL /\ Running /\ Realloc(s, size)
     /\ Settle(AfterAlloc(HeldPtr(s), size, brk'))
  \/ slot[s] # NULL /\ size = 0 /\ CheckedFree(s)
  \/ CheckedReallocLive(s, size)

(* The test program has exited: nothing changes any more. *)
Exited == ~Running /\ UNCHANGED <<vars, hvars>>

HInit ==
  /\ Init
  /\ region = <<>>
  /\ head = NULL
  /\ tail = NULL
  /\ failure = "none"

HNext ==
  \/ \E s \in Slots, n \in Nmemb, size \in Sizes \cup {0} : CheckedAlloc(s, n, size)
  \/ \E s \in Slots : CheckedFree(s)
  \/ ReallocEnabled /\ \E s \in Slots, size \in Sizes \cup {0} : CheckedRealloc(s, size)
  \/ Exited

HSpec == HInit /\ [][HNext]_<<vars, hvars>>

-----------------------------------------------------------------------------
(* Properties.                                                             *)

(* The objects met walking allocs from its head, as memlist_check_data   *)
(* and memlist_find do; a walk longer than there are objects has looped.  *)
RECURSIVE WalkFrom(_, _, _)
WalkFrom(l, r, fuel) ==
  IF r = NULL \/ fuel = 0 THEN <<>>
  ELSE <<r>> \o WalkFrom(l, Next_(l, r), fuel - 1)

Walk == WalkFrom(List, head, Cardinality(RegionIds) + 1)

(* While the tests run, allocs is the sorted, doubly linked list the      *)
(* framework's checks rely on, and it records exactly the allocations the *)
(* test holds: the walk from head reaches every object once, in address   *)
(* order, with prev pointers mirroring next and tail on the last one, and *)
(* the objects start at the held pointers (memlist_add_region,            *)
(* memlist_remove, checked_free, checked_realloc).                        *)
RegionListMirrorsHeld ==
  Running =>
    LET w == Walk
        n == Len(w)
    IN /\ n = Cardinality(DOMAIN region)
       /\ {w[i] : i \in 1 .. n} = DOMAIN region
       /\ head = (IF n = 0 THEN NULL ELSE w[1])
       /\ tail = (IF n = 0 THEN NULL ELSE w[n])
       /\ \A i \in 1 .. n : region[w[i]].prev = (IF i = 1 THEN NULL ELSE w[i - 1])
       /\ \A i \in 1 .. n - 1 : region[w[i]].end <= region[w[i + 1]].start
       /\ {region[r].start : r \in DOMAIN region} =
            {B(slot[t].ptr) : t \in {u \in Slots : slot[u] # NULL}}

(* The framework reports every fault of the allocator the tests can meet *)
(* at the latest by the call that makes it observable: as long as no      *)
(* check has fired, no two held allocations overlap (memlist_add_region's *)
(* overlap error) and realloc has kept all data (checked_realloc's        *)
(* retention check).                                                      *)
FaultsReported == Running => NoAliasing /\ DataPreserved

=============================================================================
