SPECIFICATION Spec
CONSTANTS
  Tasks = {t1}
  Blocking = {t1}
  Entries = {e1}
  BlockOns = {}
  InPlace = {}
  Drivers = {}
  Runtimes = {r1, r2}
  Locals = {r2}
  Defers = {}
  Resources = {s1}
  Modes = {"Wait"}
  MaxAttempts = 2
INVARIANTS
  QuietWhenDetached
  DetachNeverFails
  RuntimesJoined
CHECK_DEADLOCK FALSE
