\* Both halves of kvstore.c. The queue: three workers, four connections, spurious
\* wake-ups included; the queue neither loses nor duplicates a job and is a FIFO.
\* The table: one worker serving six requests on three keys keeps the bucket a
\* correct map (all four cases of del_item).  The session: one worker serving two
\* connections, each sending up to two requests or one malformed or cut request,
\* to a client that may leave; every answer matches its request and every
\* connection is closed.
CONSTANTS
  Active = {"server", "table", "session"}
  NULL = NULL
  SrvWorkers = {w1, w2, w3}
  MaxJobs = 4
  SpuriousWakeups = TRUE
  HtWorkers = {w1}
  Keys = {k1, k2, k3}
  Vals = {v1, v2}
  MaxOps = 6
  SessKeys = {k1}
  NConns = 2
  SizeWidth = 3
SPECIFICATION FairSpec
INVARIANTS
  TypeOK
  JobsConserved
  BucketWellFormed
  AnsweredInOrder
PROPERTIES
  QueueRefinement
  StoreRefinement
  ConnectionsClosed
\* The server idles in accept() once every connection is taken, stops after a NULL
\* dereference, the table idles once the clients send no more requests, and the
\* session's worker waits on the queue once its connections are served.
CHECK_DEADLOCK FALSE
