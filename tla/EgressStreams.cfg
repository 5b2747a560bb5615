CONSTANTS
  Outputs = {o1}
  Ids = {c1, c2}
  MaxRevision = 2
  SourceChoices <- Program
  RecordingChoices = {TRUE}
  MaxShowing = 2
  Logouts = FALSE
SPECIFICATION FairSpec
INVARIANT StatusReported
PROPERTIES
  StreamsWhenWanted
  FollowsOffer
  ChangesApplied
  GoesOffAir
