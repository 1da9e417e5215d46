SPECIFICATION FairSpec
CONSTANTS
  a1 = a1  chat = chat  other = other  d1 = d1  d2 = d2  d3 = d3
  Agent = {a1}
  NoAgent = NoAgent  NoRun = NoRun
  Top = {chat, other}
  AgentOf <- ChatAndAgent
  Delegated = {d1}
  Checked = {chat}
  Timed = {other}
  MaxTop = 2
  MaxTurns = 1
  MayRaise = TRUE
  MayRestart = TRUE
INVARIANTS CancelHitsItsPlan PhantomFree FramesBalanced HeldOnce AgentRowHonest
PROPERTIES RowFinal RunsSettle
