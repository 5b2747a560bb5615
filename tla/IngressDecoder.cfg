SPECIFICATION Spec
CONSTANTS
  a = a
  b = b
  c = c
  Sources = {a}
  Ranges <- One
  Selections = {TRUE, FALSE}
  RelayChoices = {TRUE, FALSE}
  MaxRevision = 2
  MaxQueue = 2
  MaxInbox = 2
  Allocations = {TRUE, FALSE}
  Failures = TRUE
  Ordered = TRUE
  LoggedIn = {TRUE}
  Dangling = FALSE
  Logouts = TRUE
INVARIANTS
  DecoderPlaysConnection
  FollowsServer
CHECK_DEADLOCK FALSE
