CONSTANTS
  Outputs = {o1}
  Ids = {c1}
  MaxRevision = 1
  SourceChoices <- OwnSource
  RecordingChoices = {FALSE}
  MaxShowing = 2
  Logouts = FALSE
SPECIFICATION Spec
INVARIANT ReferencesReleased
