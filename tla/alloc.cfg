\* Four clients of the allocator, each explored alone from the empty heap:
\* one calls malloc, calloc and free (sizes of 1, 3 and 7 words), one also
\* realloc (sizes of 1 and 7 words), and the same two calling through the
\* checked wrappers of the test framework (all three sizes; at most 9
\* calls).  Pages of 12 words, a heap of 3 pages, 2 pointers.
CONSTANTS
  NULL = NULL
  PAGE_SIZE = 96
  MaxHeapUnits = 36
  Sizes = {8, 24, 56}
  ReallocSizes = {8, 56}
  ReallocModes = {FALSE, TRUE}
  Nmemb = {0, 1}
  Slots = {s1, s2}
  HarnessModes = {FALSE, TRUE}
  MaxCheckedCalls = 9
  RegionIds = {o1, o2}
  ReallocEnabled = TRUE
SPECIFICATION MCSpec
SYMMETRY SlotSymmetry
INVARIANTS
  TypeOK
  HeapTiled
  RecentFreedSound
  NoAliasingNoRealloc
  InUseExactlyHeldNoRealloc
  HarnessListMirrorsHeld
  HarnessReportsFaults
  SilentWithoutRealloc
