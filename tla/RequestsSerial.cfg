\* Three ordinary requests, two refreshes that never overlap, a parallel one.
CONSTANTS
  Http = {h1, h2, h3}
  Refresh = {t1, t2}
  Parallel = {p1}
  RefreshOverlap = FALSE
SPECIFICATION FairSpec
INVARIANTS
  SequentialInvocation
PROPERTY ImplementsSerialRequests
\* The client may run out of things to ask.
CHECK_DEADLOCK FALSE
