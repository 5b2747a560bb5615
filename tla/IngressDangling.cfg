SPECIFICATION Spec
CONSTANTS
  a = a
  b = b
  c = c
  Sources = {a, b, c}
  Ranges <- Wide
  Selections = {TRUE, FALSE}
  RelayChoices = {TRUE, FALSE}
  MaxRevision = 4
  MaxQueue = 3
  MaxInbox = 0
  Allocations = {FALSE}
  Failures = FALSE
  Ordered = TRUE
  LoggedIn = {FALSE}
  Dangling = TRUE
  Logouts = FALSE
SYMMETRY Perms
PROPERTY EnoughPorts
CHECK_DEADLOCK FALSE
