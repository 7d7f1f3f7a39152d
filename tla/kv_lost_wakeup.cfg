\* A signal sent while no worker waits is lost and the job stays queued.
CONSTANTS
  NULL = NULL
  Workers = {w1, w2}
  MaxJobs = 2
  SpuriousWakeups = FALSE
SPECIFICATION FairSpec
PROPERTIES
  EveryJobServed
CHECK_DEADLOCK FALSE
