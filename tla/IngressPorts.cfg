SPECIFICATION Spec
CONSTANTS
  a = a
  b = b
  c = c
  Sources = {a, b}
  Ranges <- Short
  Selections = {TRUE}
  RelayChoices = {TRUE, FALSE}
  MaxRevision = 2
  MaxQueue = 3
  MaxInbox = 0
  Allocations = {TRUE}
  Failures = FALSE
  Ordered = TRUE
  LoggedIn = {TRUE}
  Dangling = FALSE
  Logouts = FALSE
SYMMETRY Perms
INVARIANTS
  DecodersApart
  PortsExact
PROPERTY EnoughPorts
CHECK_DEADLOCK FALSE
