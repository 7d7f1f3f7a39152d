\* Two libfuse threads unlink files in different directories at once.
CONSTANTS
  Threads = {t1, t2}
  NBlocks = 6
  RootSlots = 2
  DirSlots = 2
  a = a
  b = b
  c = c
  d = d
  Names <- MCNames
  NoName = NoName
  Requests <- RaceRequests
  Images <- MCImages
  MaxOps = 2
  Crashes = FALSE
SPECIFICATION Spec
INVARIANTS
  NoLeakedBlocks
\* The file system waits for the next callback once MaxOps have run.
CHECK_DEADLOCK FALSE
