SPECIFICATION Spec
CONSTANTS
  Failing <- AllButStatus
  CalmLogout = TRUE
  RefreshUnlinks = TRUE
  Ordered = TRUE
  MaxRev = 3
  MaxCalls = 2
  MaxFaults = 2
INVARIANTS
  SubscribedWhenKnown
PROPERTIES
  UplinkFollows
  SessionRecovers
  TokenRenewed
CHECK_DEADLOCK FALSE
