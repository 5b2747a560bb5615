SPECIFICATION Spec
CONSTANTS
  Encoders <- Two
  Software = "x264"
  Priority <- Hardware
  Presets <- Low
  DefaultBitrate = 3
  Bitrates <- Entered
  Limits <- Narrow
  Sources <- One
  MaxEdits = 2
  MaxOffers = 2
  MaxChanges = 1
  MaxRestarts = 1
PROPERTY EnteredKept
CHECK_DEADLOCK FALSE
