----------------------------- MODULE AllocArith -----------------------------
(***************************************************************************)
(* The size_t arithmetic of src/heapAllocator/alloc.c, in a size_t of      *)
(* SIZE_WIDTH bits: every sum is taken modulo 2^SIZE_WIDTH as the C code   *)
(* computes it.                                                            *)
(***************************************************************************)
EXTENDS Integers

CONSTANTS
  SIZE_WIDTH,   \* bits of size_t (64 in the build)
  PAGE_SIZE     \* bytes per sbrk page (4096 in alloc.c)

ALIGNMENT == 8                 \* sizeof(long)
META_SIZE == 8                 \* sizeof(meta_t)

(* A size_t result. *)
SizeT(x) == x % (2^SIZE_WIDTH)

(* align *)
Align(size) ==
  IF size = 0 THEN ALIGNMENT
  ELSE IF size % ALIGNMENT # 0 THEN SizeT(size + ALIGNMENT - (size % ALIGNMENT))
  ELSE size

(* The page count of expand_heap for an aligned request. *)
PageRequest(aligned) == SizeT(aligned + META_SIZE) \div PAGE_SIZE + 1
=============================================================================
