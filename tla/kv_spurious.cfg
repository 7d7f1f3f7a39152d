\* A spurious return from pthread_cond_wait makes a worker dequeue from an empty queue.
CONSTANTS
  NULL = NULL
  Workers = {w1, w2}
  MaxJobs = 2
  SpuriousWakeups = TRUE
SPECIFICATION Spec
INVARIANTS
  NoNullDequeue
CHECK_DEADLOCK FALSE
