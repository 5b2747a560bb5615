SPECIFICATION Spec
CONSTANTS
  a = a
  b = b
  c = c
  Sources = {a}
  Ranges <- One
  Selections = {TRUE, FALSE}
  RelayChoices = {TRUE, FALSE}
  MaxRevision = 2
  MaxQueue = 2
  MaxInbox = 1
  Allocations = {TRUE, FALSE}
  Failures = FALSE
  Ordered = TRUE
  LoggedIn = {TRUE}
  Dangling = FALSE
  Logouts = TRUE
INVARIANTS
  Unregistered
CHECK_DEADLOCK FALSE
