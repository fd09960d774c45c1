CONSTANTS
  Driver = driver
  Creator = creator
  MaxEvents = 3
  Workers = {w1, w2}
  Observers = {o1}
  Outside = outside
SPECIFICATION Spec
CHECK_DEADLOCK FALSE
INVARIANTS NoWakeAfterClose NoCallbackAfterIdle
PROPERTIES EventDispatched DeregisterEnds EveryWorkerObserved
