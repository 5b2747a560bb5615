CONSTANTS
  Outputs = {o1}
  Ids = {c1}
  MaxRevision = 1
  SourceChoices <- AnySource
  RecordingChoices = {TRUE, FALSE}
  MaxShowing = 2
  Logouts = TRUE
SPECIFICATION Spec
INVARIANTS
  StatusMeansPipeline
  NeverOverReleased
  CountersExact
PROPERTIES
  RecordingCutForAReason
