SPECIFICATION FairSpec
CONSTANTS
  MaxFrames = 2
  MaxRetries = 1
  QueueSize = 1
  ColourSpaces = {"rec2020"}
  MaxToggles = 1
CHECK_DEADLOCK FALSE
INVARIANTS ShownBufferExists SteadyStreamIsFaithful ConnectorRestored
PROPERTIES FrameReachesScreen SubmitReturns QuietCleanupReturns
