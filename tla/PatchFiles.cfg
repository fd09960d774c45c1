SPECIFICATION Spec
CONSTANTS
  Commands = {c1, c2}
  Versions = {1, 2}
INVARIANTS
  PatchedIsComplete
  ReadyIsComplete
  CargoReadsItsPatch
PROPERTY ForeignKept
CHECK_DEADLOCK FALSE
