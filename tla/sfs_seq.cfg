\* One libfuse thread: each callback of SfsDisk on its own, on both images,
\* with the process dying and being remounted between any two disk writes.
CONSTANTS
  Threads = {t1}
  NBlocks = 6
  RootSlots = 2
  DirSlots = 2
  a = a
  b = b
  c = c
  d = d
  Names <- MCNames
  NoName = NoName
  Requests <- MCRequests
  Images <- MCImages
  MaxOps = 5
  Crashes = TRUE
SPECIFICATION Spec
INVARIANTS
  TypeOK
  SurvivorsIntact
  ReadFollowsChain
PROPERTIES
  RemovalFrees
\* The file system waits for the next callback once MaxOps have run.
CHECK_DEADLOCK FALSE
