SPECIFICATION FairSpec
CONSTANTS
  r1 = r1
  r2 = r2
  b1 = b1
  b2 = b2
  b3 = b3
  Runtimes <- MCRuntimes
  BlockOns <- MCBlockOns
  On <- MCOn
  MaxAttempts = 2
INVARIANTS
  OnlyRetryDeadlocks
  BlockOnKeepsRuntime
PROPERTY DetachReturns
CHECK_DEADLOCK FALSE
