\* realloc shrinking in place: is the shrunk block still owned?
CONSTANTS
  NULL = NULL
  PAGE_SIZE = 96
  MaxHeapUnits = 24
  Sizes = {8, 24, 56}
  Nmemb = {0, 1}
  Slots = {s1, s2}
  HarnessModes = {FALSE}
  MaxCheckedCalls = 0
  RegionIds = {o1, o2}
  ReallocEnabled = TRUE
  ReallocModes = {TRUE}
  ReallocSizes = {8, 24, 56}
SPECIFICATION MCSpec
SYMMETRY SlotSymmetry
INVARIANTS
  NoAliasing
