SPECIFICATION Spec
CONSTANTS
  Host = Host
  Plugins = {p, q}
  Nothing = Nothing
  Unconstrained = Unconstrained
  Initial = 1
  TaskIds = {1}
  MaxDepth = 5
  MaxYields = 1
INVARIANTS SeesTheContext EveryYieldCounted PanicIsSeen
PROPERTIES OneThread
SYMMETRY Symmetry
