SPECIFICATION FairSpec
CONSTANTS
  MaxFrames = 2
  MaxRetries = 1
  QueueSize = 1
  ColourSpaces = {"rec2020"}
  MaxToggles = 0
CHECK_DEADLOCK FALSE
PROPERTIES CleanupReturns
