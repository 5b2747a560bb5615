CONSTANTS
  Http = {h1, h2, h3}
  Refresh = {t1, t2}
  Parallel = {}
  RefreshOverlap = TRUE
SPECIFICATION Spec
INVARIANT SequentialInvocation
SYMMETRY HttpSymmetry
CHECK_DEADLOCK FALSE
