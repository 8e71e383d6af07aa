SPECIFICATION CallsSpec
CONSTANTS
  GrantIds = {g1, g2}
  Callers = {j1}
  NoGrantId = NoGrantId
  MaxActive = 1
  MaxPending = 1
  MaxAttempts = 1
  NoRequestKey = NoRequestKey
  ApprovalIds = {r1, r2}
  MaxApprovals = 1
  MaxSeen = 2
  MaxUnread = 1
  Decisions = {"accept"}
  Imports = {i1, i2}
  Hosts = {h1, h2}
  Listed = {h1}
  MaxSlots = 1
  MaxHops = 1
  AllowExec = TRUE
  Rules <- MCRules
CHECK_DEADLOCK FALSE
INVARIANTS
  EndedIsAccounted
  SweptIsUnreadable
  DecisionsAreTheClients
  WorkersAreContained
  LaunchKeepsAuthority
PROPERTIES
  LapsedIsSwept
  EveryRequestEnds
  EveryDownloadEnds
