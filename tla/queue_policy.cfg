SPECIFICATION FairSpec
CONSTANTS
  a1 = a1  p1 = p1  p2 = p2  c1 = c1  c2 = c2  c3 = c3  h1 = h1  h2 = h2
  to = to  body = body
  NoAgent = NoAgent  NoCall = NoCall  Boot = Boot
  Agent = {a1}
  Plan = {p1}
  Binding = {to, body}
  Call = {c1, c2, c3}
  CallOf <- Policy
  Handler = {h1}
  Seeded <- MCSeeded
  Registered <- MCRegistered
  Profiles = {"assistant", "autonomous"}
  MaxInFlight = 1
  DbMayFail = FALSE
INVARIANTS FreshDecision NoStandingTrust
PROPERTIES ImplementsContract DecisionArrives
