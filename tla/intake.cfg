SPECIFICATION Spec
CONSTANTS
  u1 = u1  u2 = u2  report = report  photo = photo
  Document = {report, photo}
  Path = {"a", "a-1", "a-2", "a-1-1"}
  Name = {"a", "a-1"}
  Tried <- MCTried
  Hand = {"drop"}
  Upload = {u1, u2}
  Scan = {"scan"}
  NameOf <- MCNameOf
  DocumentOf <- MCDocumentOf
  Spooled = {u1}
  Unreadable = {photo}
  Nothing = Nothing
  Utterance = {"v1", "v2"}
  Hub = "hub"
  Other = "other"
  Silence = "nobody"
  Offline = "offline"
  MaxFaults = 1
INVARIANTS NothingLost NotesTrue TapPutBack SpeaksInTurn
CHECK_DEADLOCK FALSE
