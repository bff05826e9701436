SPECIFICATION FairSpec
CONSTANTS
  Unset = Unset
  MoonlightConf = "conf"
  HostFile = "host"
  CommandLines <- MCCommandLines
  Contents <- MCContents
  Machines <- MCMachines
  MaxOpen = 4
  MaxPrograms = 3
  FrameCount = 2
  MaxFrames = 5
  MayFail = TRUE
  PipeSize = 3
  QueueSize = 5
  MAX_GAMEPADS = 2
  MaxPlugs = 3
  MaxWork = 6
  Buttons = {"start", "back"}
  QUIT_BUTTONS = {"start", "back"}
  BufferCount = 4
  THRESHOLD = 2
  Units <- MCUnits
  InBuffers = 3
  OutBuffers = 2
  MAX_WRITE_ATTEMPTS = 3
  CodecSize = 2
  VideoBuffers = 2
CHECK_DEADLOCK FALSE
INVARIANTS SavedSettingsReturn DefaultFormatAccepted ChannelsReachSpeakers BuffersAccountedFor
INVARIANTS HostSeesPads
PROPERTIES SkipsOnlyOverwritten LastFrameShown StreamEnds
