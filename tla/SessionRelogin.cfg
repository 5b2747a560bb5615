SPECIFICATION Spec
CONSTANTS
  Failing = {}
  CalmLogout = FALSE
  RefreshUnlinks = FALSE
  Ordered = TRUE
  MaxRev = 2
  MaxCalls = 2
  MaxFaults = 2
PROPERTY FirstTimeAfterLogin
CHECK_DEADLOCK FALSE
