SPECIFICATION Spec
CONSTANTS
  a1 = a1  p1 = p1  p2 = p2  c1 = c1  c2 = c2  c3 = c3  h1 = h1  h2 = h2
  to = to  body = body
  NoAgent = NoAgent  NoCall = NoCall  Boot = Boot
  Agent = {a1}
  Plan = {p1, p2}
  Binding = {to, body}
  Call = {c1, c2}
  CallOf <- TwoMails
  Handler = {h1, h2}
  Seeded = {}
  Registered <- MCRegistered
  Profiles = {"assistant"}
  MaxInFlight = 2
  DbMayFail = TRUE
SYMMETRY MCSymmetry
INVARIANTS SingleOwner FaultContained VerdictsAgree
PROPERTIES VerdictFinal WaiterCovered
