SPECIFICATION FairSpec
CONSTANTS
  r1 = r1  r2 = r2  r3 = r3  r4 = r4
  Request = {r1, r2, r3}
  N = 5
  Kind <- TwoGates
  Reachable = {"tool", "agent", "note"}
INVARIANTS CheckpointCovers GateHeld StepOnce CompletedIsWhole
PROPERTIES RunSettles
CHECK_DEADLOCK FALSE
