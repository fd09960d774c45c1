SPECIFICATION Spec
CONSTANTS
  Attachers = {a, b}
  Calls = {c, d}
  Nobody = Nobody
  Capture = TRUE
INVARIANTS CountsMatch OwnHandle NothingLeft
CHECK_DEADLOCK FALSE
