SPECIFICATION Spec
CONSTANTS
  r1 = r1  r2 = r2  r3 = r3  r4 = r4
  Request = {r1}
  N = 2
  Kind <- TwoNotes
  Reachable = {"note"}
PROPERTIES CancelStops
CHECK_DEADLOCK FALSE
