SPECIFICATION CommandSpec
CONSTANTS
  a = a
  b = b
  Library_ = library
  Tokio_ = tokio
  Members = {a, b}
  Library = library
  Tokio = tokio
  Requests <- MCRequests
  Aliases <- MCAliases
  Environment <- MCEnvironment
  Graphs <- MCGraphs
  Manifests = {{"telekio-host", "telekio-abi"}, {"telekio-abi"}}
INVARIANTS EveryTokioIsItsRoles WholeRequest
PROPERTY Ends
CHECK_DEADLOCK FALSE
