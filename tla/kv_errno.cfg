\* One worker's request loop over two connections.  errno is never cleared, so a
\* write that failed with EPIPE on one connection, or a strtoul ERANGE, makes
\* parse_header reject a well-formed SET on a later connection, which is closed
\* without a response.
CONSTANTS
  Active = {"session"}
  NULL = NULL
  SrvWorkers = {w1}
  MaxJobs = 1
  SpuriousWakeups = FALSE
  HtWorkers = {w1}
  Keys = {k1}
  Vals = {v1}
  MaxOps = 1
  SessKeys = {k1}
  NConns = 2
  SizeWidth = 3
SPECIFICATION Spec
INVARIANT
  EveryRequestAnswered
\* The worker idles on the queue once its connections are served.
CHECK_DEADLOCK FALSE
