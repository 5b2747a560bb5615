CONSTANTS
  Outputs = {o1}
  Ids = {c1}
  MaxRevision = 1
  SourceChoices <- Program
  RecordingChoices = {FALSE}
  MaxShowing = 2
  Logouts = TRUE
SPECIFICATION Spec
INVARIANT StatusReported
