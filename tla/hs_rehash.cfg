\* HashSet alone, checked against the set its comments describe.  With 2
\* initial buckets (32 in the code) the first rehash comes at the second
\* add; the elements 0..3 include some whose bucket changes when the
\* bucket count doubles.  Behaviours end after MaxOps calls.
CONSTANTS
  Active = {"hashset"}
  MaxOps = 4
  HsElems = {0, 1, 2, 3}
  InitBuckets = 2
  MaxBuckets = 8
  GarbageCounts = {0, 64}
  VecVals = {1, 2}
  VecMax = 3
  Unset = Unset
  StackVals = {1, 2}
  Addrs = {1, 2, 3, 4, 5, 6, 7, 8, 9}
  NULL = NULL
  MaxDepth = 3
  Pids = {1, 2, 3, 4, 5, 6, 7, 8, 9}
  ShellPid = 1
  None = None
  MaxLines = 2
  PipeIds = {1, 2}
  PipeCap = 1
  GenItems = 2
SPECIFICATION Spec
PROPERTIES
  SetRefinement
CHECK_DEADLOCK FALSE
