SPECIFICATION FairSpec
CONSTANTS
  Tasks = {t1}
  Blocking = {}
  Entries = {}
  BlockOns = {b1}
  InPlace = {p1}
  Drivers = {}
  Runtimes = {}
  Locals = {}
  Defers = {d1}
  Resources = {}
  Modes = {"Wait"}
  MaxAttempts = 2
INVARIANTS
  NoTaskEscapesStop
  NoBlockOnSleepsThroughStop
  WaiterIsNotified
PROPERTIES
  Implements
  DetachEnds
CHECK_DEADLOCK FALSE
