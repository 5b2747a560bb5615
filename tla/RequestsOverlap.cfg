\* Refreshes requested by the expiry timer and by the aborted websocket overlap.
CONSTANTS
  Http = {h1, h2, h3}
  Refresh = {t1, t2}
  Parallel = {}
  RefreshOverlap = TRUE
SPECIFICATION FairSpec
INVARIANTS
  NoLostWakeup
  QueueIsUnfinished
  InvokedOnce
PROPERTY EveryRequestServed
\* The client may run out of things to ask.
CHECK_DEADLOCK FALSE
