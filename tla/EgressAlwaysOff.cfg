CONSTANTS
  Outputs = {o1}
  Ids = {c1}
  MaxRevision = 1
  SourceChoices <- Program
  RecordingChoices = {TRUE}
  MaxShowing = 2
  Logouts = FALSE
SPECIFICATION FairSpec
PROPERTY RecordingStops
