SPECIFICATION Spec
CONSTANTS
  p1 = p1
  p2 = p2
  Pollers <- MCPollers
  Scenes <- MCScenes
  Nobody = Nobody
  Delays = {0, 1}
  Late = {0, 1}
  Again = {"op"}
  MaxTime = 1
INVARIANTS NoLostReadiness ClosedWakesSleeper TimerOnTime
PROPERTIES StopEndsWaiting
CHECK_DEADLOCK FALSE
