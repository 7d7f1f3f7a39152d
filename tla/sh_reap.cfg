\* The shell alone, on every script of up to two lines: a background job
\* started by one line and a foreground command of the next, both waited
\* for with wait(NULL).  The container constants are unused.
CONSTANTS
  Active = {"shell"}
  MaxOps = 8
  HsElems = {0, 1, 2, 3}
  InitBuckets = 2
  MaxBuckets = 8
  GarbageCounts = {0, 64}
  VecVals = {1, 2}
  VecMax = 3
  Unset = Unset
  StackVals = {1, 2}
  Addrs = {1, 2, 3, 4, 5, 6, 7, 8, 9}
  NULL = NULL
  MaxDepth = 3
  Pids = {1, 2, 3, 4, 5, 6, 7, 8, 9}
  ShellPid = 1
  None = None
  MaxLines = 2
  PipeIds = {1, 2}
  PipeCap = 1
  GenItems = 2
SPECIFICATION Spec
INVARIANTS
  ForegroundFinished
CHECK_DEADLOCK FALSE
