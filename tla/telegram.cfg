SPECIFICATION FairSpec
CONSTANTS
  m1 = m1  m2 = m2  m3 = m3  yes = yes  no = no  ap = ap
  Approval = {ap}
  Verdict = {"approved", "rejected"}
  NetMayFail = TRUE
  Script <- MCScript
  NoText = NoText
  Media = {m2}
  Tap = {yes, no}
  TapOn <- MCTapOn
  MaxTraffic = 18
  MaxFaults = 1
INVARIANTS NothingDropped StateFileHonest CardTellsVerdict
PROPERTIES OutcomeArrives
CHECK_DEADLOCK FALSE
