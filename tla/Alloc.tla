------------------------------- MODULE Alloc -------------------------------
(***************************************************************************)
(* The sbrk-based allocator of src/heapAllocator/alloc.c together with a   *)
(* client that holds the pointers it returns.                              *)
(*                                                                         *)
(* Memory is measured in words of ALIGNMENT bytes (one word = one meta_t   *)
(* header).  Addresses are word offsets from the heap base.  A block       *)
(* header is kept as a record [units, free]: the descriptor word of        *)
(* alloc.c packs the same two fields (size in words, flag in bit 63).      *)
(*                                                                         *)
(* The allocator is single threaded: each public call (mymalloc,           *)
(* mycalloc, myfree, myrealloc) is one atomic step.  The allocator state   *)
(* is handled as one record so that myrealloc can run mymalloc and myfree *)
(* one after the other inside its step, as the C code does.               *)
(***************************************************************************)
EXTENDS Integers, FiniteSets, FiniteSetsExt, TLC

CONSTANTS
  NULL,            \* the null pointer
  PAGE_SIZE,       \* bytes per sbrk page (4096 in alloc.c)
  MaxHeapUnits,    \* heap extent sbrk accepts, in words (max_brk_size)
  Sizes,           \* byte sizes the client passes to malloc and realloc
  Nmemb,           \* element counts the client passes to calloc
  Slots,           \* the client's pointer variables
  ReallocEnabled   \* whether the client calls realloc at all

ALIGNMENT == 8               \* sizeof(long)
MetaUnits == 1               \* sizeof(meta_t), in words
SplitSlack == 2              \* sizeof(meta_t) + ALIGNMENT, in words
PageUnits == PAGE_SIZE \div ALIGNMENT
RecentIdx == 0 .. 4          \* recent_freed[5]

ASSUME PAGE_SIZE \in Nat /\ PAGE_SIZE % ALIGNMENT = 0 /\ PAGE_SIZE > 0
ASSUME Sizes \subseteq Nat /\ Nmemb \subseteq Nat
ASSUME NULL \notin Int

VARIABLES
  heap,          \* header address -> [units, free]: the block chain
  brk,           \* sbrk(0), in words from the heap base
  base_block,    \* first block of the chain, NULL before the first call
  first_free,    \* the left-most-free hint
  recent_freed,  \* the 5-slot recency cache of freed blocks
  slot           \* client: Slots -> NULL or the allocation it holds

vars == <<heap, brk, base_block, first_free, recent_freed, slot>>

(* The allocator state as one record, and writing it back. *)
Mem == [heap |-> heap, brk |-> brk, base_block |-> base_block,
        first_free |-> first_free, recent_freed |-> recent_freed]

Commit(m) ==
  /\ heap' = m.heap
  /\ brk' = m.brk
  /\ base_block' = m.base_block
  /\ first_free' = m.first_free
  /\ recent_freed' = m.recent_freed

-----------------------------------------------------------------------------
(* Descriptor management and helpers.                                      *)

(* set_descriptor: a header of `units` words, always marked free. *)
Desc(units) == [units |-> units, free |-> TRUE]

(* get_next_meta *)
NextMeta(m, h) == h + m.heap[h].units

(* get_data_size, in words: a block of 8 words reports no data at all. *)
DataSize(m, h) == IF m.heap[h].units = 8 THEN 0 ELSE m.heap[h].units - 1

(* The size_t arithmetic (align, the page count of expand_heap); the      *)
(* client's sizes are far below the width where it wraps.                 *)
Arith == INSTANCE AllocArith WITH SIZE_WIDTH <- 30

(* align, in words. *)
AlignUnits(size) == Arith!Align(size) \div ALIGNMENT

-----------------------------------------------------------------------------
(* Block management.                                                       *)

(* expand_heap: one sbrk of whole pages, made into a single free block    *)
(* that becomes the hint.                                                 *)
ExpandHeap(m, k) ==
  LET pages == Arith!PageRequest(k * ALIGNMENT)
  IN [m EXCEPT !.heap = (m.brk :> Desc(pages * PageUnits)) @@ @,
               !.brk = @ + pages * PageUnits,
               !.first_free = m.brk]

(* Mutant: the right block is given one word too many. *)
SplitBlockRightOffByOne(m, left, k) ==
  LET total == DataSize(m, left)
      right == left + k + MetaUnits
  IN [m EXCEPT !.heap = (right :> Desc(total - k + 1))
                          @@ [@ EXCEPT ![left] = Desc(k + MetaUnits)],
               !.first_free = right]

(* split_block: left keeps k data words, the rest becomes a free right    *)
(* block that becomes the hint.  Both halves leave marked free.           *)
SplitBlock(m, left, k) ==
  LET total == DataSize(m, left)
      right == left + k + MetaUnits
  IN [m EXCEPT !.heap = (right :> Desc(total - k))
                          @@ [@ EXCEPT ![left] = Desc(k + MetaUnits)],
               !.first_free = right]

(* The split test at label block_split and in myrealloc.  The size_t    *)
(* difference would wrap to a huge value if k exceeded the data size;   *)
(* both callers only test blocks at least k large.                      *)
MaybeSplit(m, h, k) ==
  LET slack == DataSize(m, h) - k
  IN IF slack < 0 \/ slack > SplitSlack THEN SplitBlock(m, h, k) ELSE m

(* The first-fit loop of get_free_block, from h up to sbrk(0). *)
RECURSIVE FirstFit(_, _, _)
FirstFit(m, h, k) ==
  IF h = m.brk THEN NULL
  ELSE IF m.heap[h].free /\ DataSize(m, h) >= k THEN h
  ELSE FirstFit(m, NextMeta(m, h), k)

(* Cache slots holding a block with room for k words. *)
CacheHits(m, k) ==
  {i \in RecentIdx : m.recent_freed[i] # NULL
                     /\ DataSize(m, m.recent_freed[i]) >= k}

(* Mutant: a cache hit leaves the block in recent_freed. *)
GetFreeBlockKeepCached(m, k) ==
  LET hits  == CacheHits(m, k)
      grown == [blk |-> m.brk,
                m |-> [ExpandHeap(m, k) EXCEPT
                         !.base_block = IF @ = NULL THEN m.brk ELSE @]]
      found ==
        IF m.base_block = NULL THEN grown
        ELSE IF hits # {} THEN [blk |-> m.recent_freed[Min(hits)], m |-> m]
        ELSE LET h == FirstFit(m, m.first_free, k)
             IN IF h = NULL THEN grown ELSE [blk |-> h, m |-> m]
  IN [blk |-> found.blk, m |-> MaybeSplit(found.m, found.blk, k)]

(* get_free_block: the chosen block and the allocator state after it.    *)
GetFreeBlock(m, k) ==
  LET hits  == CacheHits(m, k)
      grown == [blk |-> m.brk,
                m |-> [ExpandHeap(m, k) EXCEPT
                         !.base_block = IF @ = NULL THEN m.brk ELSE @]]
      found ==
        IF m.base_block = NULL THEN grown
        ELSE IF hits # {}
          THEN [blk |-> m.recent_freed[Min(hits)],
                m |-> [m EXCEPT !.recent_freed[Min(hits)] = NULL]]
        ELSE LET h == FirstFit(m, m.first_free, k)
             IN IF h = NULL THEN grown ELSE [blk |-> h, m |-> m]
  IN [blk |-> found.blk, m |-> MaybeSplit(found.m, found.blk, k)]

(* Mutant: the walk matches a block that is already free. *)
RECURSIVE FindBlockNoFlagCheck(_, _, _)
FindBlockNoFlagCheck(m, curr, p) ==
  IF curr = m.brk THEN curr
  ELSE IF curr + MetaUnits = p THEN curr
  ELSE FindBlockNoFlagCheck(m, NextMeta(m, curr), p)

(* Mutant: the walk matches any pointer inside an in-use block. *)
RECURSIVE FindBlockInterior(_, _, _)
FindBlockInterior(m, curr, p) ==
  IF curr = m.brk THEN curr
  ELSE IF curr < p /\ p < NextMeta(m, curr) /\ ~m.heap[curr].free THEN curr
  ELSE FindBlockInterior(m, NextMeta(m, curr), p)

(* The walk of myfree: the in-use block whose data starts at p, or brk.  *)
RECURSIVE FindBlock(_, _, _)
FindBlock(m, curr, p) ==
  IF curr = m.brk THEN curr
  ELSE IF curr + MetaUnits = p /\ ~m.heap[curr].free THEN curr
  ELSE FindBlock(m, NextMeta(m, curr), p)

-----------------------------------------------------------------------------
(* The public calls, as functions of the allocator state.                  *)

(* mymalloc: [ptr, m]. *)
MyMalloc(m, size) ==
  IF size = 0 THEN [ptr |-> NULL, m |-> m]
  ELSE LET r == GetFreeBlock(m, AlignUnits(size))
       IN [ptr |-> r.blk + MetaUnits,
           m |-> [r.m EXCEPT !.heap[r.blk].free = FALSE]]

(* Mutant: the shifting loop starts at recent_freed[5]. *)
MyFreeShiftFrom5(m, p) ==
  IF p = NULL THEN m
  ELSE LET curr == FindBlock(m, m.base_block, p)
       IN IF curr = m.brk THEN m
          ELSE [m EXCEPT !.heap[curr].free = TRUE,
                         !.first_free = IF @ = NULL \/ curr < @ THEN curr ELSE @,
                         !.recent_freed = [i \in 0 .. 5 |->
                                             IF i = 0 THEN curr ELSE @[i - 1]]]

(* myfree: the allocator state after freeing p. *)
MyFree(m, p) ==
  IF p = NULL THEN m
  ELSE LET curr == FindBlock(m, m.base_block, p)
       IN IF curr = m.brk THEN m
          ELSE [m EXCEPT !.heap[curr].free = TRUE,
                         !.first_free = IF @ = NULL \/ curr < @ THEN curr ELSE @,
                         !.recent_freed = [i \in RecentIdx |->
                                             IF i = 0 THEN curr ELSE @[i - 1]]]

(* myrealloc on a non-null pointer with a non-zero size: [ptr, m, copied]*)
(* where copied is the number of words memcpy moves, -1 if none.         *)
MyReallocLive(m, p, size) ==
  LET meta == p - MetaUnits
      k    == AlignUnits(size)
  IN IF k > DataSize(m, meta)
     THEN LET r == MyMalloc(m, k * ALIGNMENT)
          IN [ptr |-> r.ptr, m |-> MyFree(r.m, p), copied |-> DataSize(m, meta)]
     ELSE [ptr |-> p, m |-> MaybeSplit(m, meta, k), copied |-> -1]

-----------------------------------------------------------------------------
(* The client.  An allocation it holds is [ptr, req, want, kept]: req is  *)
(* the words it may use, want the words of its data it expects to find    *)
(* at ptr, kept the words of that data actually there.                    *)

Fresh(ptr, size) ==
  IF ptr = NULL THEN NULL
  ELSE [ptr |-> ptr, req |-> AlignUnits(size),
        want |-> AlignUnits(size), kept |-> AlignUnits(size)]

(* Pointers no client slot holds: the data start of a block (freed, or  *)
(* never handed out) and a pointer one word into a block.                *)
Unheld == {p \in {h + d : h \in DOMAIN heap, d \in {1, 2}} :
             p < brk /\ \A s \in Slots : slot[s] = NULL \/ slot[s].ptr # p}

Init ==
  /\ heap = <<>>
  /\ brk = 0
  /\ base_block = NULL
  /\ first_free = NULL
  /\ recent_freed = [i \in RecentIdx |-> NULL]
  /\ slot = [s \in Slots |-> NULL]

(* p = malloc(size) into an empty slot; sbrk beyond the heap is fatal.    *)
Malloc(s, size) ==
  /\ slot[s] = NULL
  /\ LET r == MyMalloc(Mem, size)
     IN /\ r.m.brk <= MaxHeapUnits
        /\ Commit(r.m)
        /\ slot' = [slot EXCEPT ![s] = Fresh(r.ptr, size)]

(* p = calloc(n, size): mymalloc(n * size), then zero-filled.             *)
Calloc(s, n, size) ==
  /\ slot[s] = NULL
  /\ LET r == MyMalloc(Mem, n * size)
     IN /\ r.m.brk <= MaxHeapUnits
        /\ Commit(r.m)
        /\ slot' = [slot EXCEPT ![s] = Fresh(r.ptr, n * size)]

(* free(p) of a pointer the client holds. *)
Free(s) ==
  /\ slot[s] # NULL
  /\ Commit(MyFree(Mem, slot[s].ptr))
  /\ slot' = [slot EXCEPT ![s] = NULL]

(* free(p) of NULL, of a pointer already freed, or of an interior        *)
(* pointer: myfree must find no block for it.                            *)
FreeUnheld(p) ==
  /\ base_block # NULL
  /\ Commit(MyFree(Mem, p))
  /\ UNCHANGED slot

(* p = realloc(p, size), all branches of myrealloc. *)
Realloc(s, size) ==
  \/ /\ slot[s] = NULL
     /\ Malloc(s, size)
  \/ /\ slot[s] # NULL
     /\ size = 0
     /\ Free(s)
  \/ /\ slot[s] # NULL
     /\ size # 0
     /\ LET a == slot[s]
            r == MyReallocLive(Mem, a.ptr, size)
            k == AlignUnits(size)
        IN /\ r.m.brk <= MaxHeapUnits
           /\ Commit(r.m)
           /\ slot' = [slot EXCEPT ![s] =
                [ptr |-> r.ptr, req |-> k, want |-> Min({a.want, k}),
                 kept |-> IF r.copied < 0 THEN a.kept
                          ELSE Min({a.kept, r.copied})]]

Next ==
  \/ \E s \in Slots, size \in Sizes \cup {0} : Malloc(s, size)
  \/ \E s \in Slots, n \in Nmemb, size \in Sizes \cup {0} : Calloc(s, n, size)
  \/ \E s \in Slots : Free(s)
  \/ \E p \in Unheld \cup {NULL} : FreeUnheld(p)
  \/ ReallocEnabled /\ \E s \in Slots, size \in Sizes \cup {0} : Realloc(s, size)

Spec == Init /\ [][Next]_vars

-----------------------------------------------------------------------------
(* Properties.                                                             *)

Headers == DOMAIN heap
Ptr == Int \cup {NULL}

TypeOK ==
  /\ brk \in 0 .. MaxHeapUnits
  /\ Headers \subseteq 0 .. MaxHeapUnits
  /\ \A h \in Headers : heap[h] \in [units : Nat, free : BOOLEAN]
  /\ base_block \in {NULL, 0}
  /\ first_free \in Ptr
  /\ recent_freed \in [RecentIdx -> Ptr]
  /\ \A s \in Slots : slot[s] = NULL
        \/ slot[s] \in [ptr : Nat, req : Nat, want : Nat, kept : Nat]

(* The chain of alloc.c: blocks from the base tile the heap up to         *)
(* sbrk(0) exactly, without gaps or overlaps, so every walk of the chain  *)
(* (get_free_block, myfree) ends at sbrk(0) having seen every block.      *)
HeapTiled ==
  /\ (base_block = NULL) <=> (brk = 0)
  /\ brk > 0 => 0 \in Headers
  /\ \A h \in Headers :
       /\ h < brk
       /\ heap[h].units >= 1
       /\ NextMeta(Mem, h) = brk \/ NextMeta(Mem, h) \in Headers
  /\ \A h, g \in Headers : h < g => NextMeta(Mem, h) <= g

(* The pointers myfree leaves behind for get_free_block stay sound: the   *)
(* hint is a block header, and each of recent_freed names a distinct      *)
(* block that is free, so a cache hit never hands out a block in use.     *)
RecentFreedSound ==
  /\ first_free # NULL => first_free \in Headers
  /\ \A i \in RecentIdx : recent_freed[i] # NULL =>
        /\ recent_freed[i] \in Headers
        /\ heap[recent_freed[i]].free
  /\ \A i, j \in RecentIdx :
        i # j /\ recent_freed[i] # NULL => recent_freed[i] # recent_freed[j]

(* The words [ptr, ptr + req) of an allocation the client holds. *)
Span(a) == a.ptr .. (a.ptr + a.req - 1)

(* No two allocations the client holds share a word of memory: malloc,   *)
(* calloc and realloc never hand out memory that is still in use.         *)
NoAliasing ==
  \A s, t \in Slots :
    s # t /\ slot[s] # NULL /\ slot[t] # NULL => Span(slot[s]) \cap Span(slot[t]) = {}

(* The in-use flags of the chain agree with what the client holds: every  *)
(* held pointer starts the data of an in-use block large enough for its   *)
(* request, and every in-use block is held (no block is lost in use).     *)
InUseExactlyHeld ==
  /\ \A s \in Slots : slot[s] # NULL =>
        /\ slot[s].ptr - MetaUnits \in Headers
        /\ ~heap[slot[s].ptr - MetaUnits].free
        /\ heap[slot[s].ptr - MetaUnits].units - MetaUnits >= slot[s].req
  /\ \A h \in Headers : ~heap[h].free =>
        \E s \in Slots : slot[s] # NULL /\ slot[s].ptr = h + MetaUnits

(* realloc keeps the data: the first min(old, new) bytes of a moved       *)
(* allocation are copied to the new block (spec 4.5).                    *)
DataPreserved ==
  \A s \in Slots : slot[s] # NULL => slot[s].kept >= slot[s].want

=============================================================================
