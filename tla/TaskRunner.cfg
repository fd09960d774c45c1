SPECIFICATION FairSpec
CONSTANTS
  Wakers = {w1, w2}
  Worker = worker
  Flush = flush
INVARIANTS
  NeverScheduledTwice
  NothingKept
PROPERTIES
  WokenIsPolled
  AbortedEnds
CHECK_DEADLOCK FALSE
