\* The container programs and the shell, each explored alone from its
\* initial state.  HashSet starts with 2 buckets (32 in the code) so that
\* add rehashes after one element; container behaviours end after MaxOps
\* calls.  The shell runs every script of up to two lines; nine process
\* ids are enough for every fork such a script makes, and its behaviours
\* end when every process has exited, so deadlock is not checked.
CONSTANTS
  Active = {"hashset", "vector", "stack", "shell"}
  MaxOps = 8
  HsElems = {0, 1, 2, 3}
  InitBuckets = 2
  MaxBuckets = 8
  GarbageCounts = {0, 64}
  VecVals = {1, 2}
  VecMax = 3
  Unset = Unset
  StackVals = {1, 2}
  Addrs = {1, 2, 3, 4, 5, 6, 7, 8, 9}
  NULL = NULL
  MaxDepth = 3
  Pids = {1, 2, 3, 4, 5, 6, 7, 8, 9}
  ShellPid = 1
  None = None
  MaxLines = 2
  PipeIds = {1, 2}
  PipeCap = 1
  GenItems = 2
SPECIFICATION FairSpec
INVARIANTS
  TypeOK
  IteratorVisitsAll
  VisibleInitialised
  StacksAgree
  NoUseAfterFree
  NoLeakedNodes
PROPERTIES
  Terminates
  NoEarlySigpipe
CHECK_DEADLOCK FALSE
