SPECIFICATION BuilderSpec
CONSTANTS
  None = none
  MaxBuilds = 2
  Requests <- MCRequests
  Features <- MCFeatures
INVARIANTS EveryOptionOrNone FailsWhole
CHECK_DEADLOCK FALSE
