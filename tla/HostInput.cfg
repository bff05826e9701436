SPECIFICATION InputSpec
CONSTANTS
  MaxEffects = 2
  MaxRequests = 2
  MaxRumblers = 2
  d1 = d1
  d2 = d2
  d3 = d3
  Devices = {d1, d2, d3}
  NoDevice = NoDevice
  Capacity = 3
  MaxGamepads = 2
  start = start
  rb = rb
  Buttons = {start, rb}
  Start = start
  QuitButtons = {start, rb}
  MouseEmulationEnabled = FALSE
  AutoAdd = TRUE
  Unpluggable = {d1, d2, d3}
  k1 = k1
  k2 = k2
  Keyboards = {k1, k2}
  ModifierKeys = {"ctrl", "lshift", "rshift"}
  Bit <- MCBit
  ActionModifiers = {"control", "shift"}
  QuitKey = "q"
  OtherKeys = {}
  QueueSize = 1
  Troubles = {{}, {"unplug"}}
  Pads <- MCPads
  Steps <- MCSteps
  BTN_JOYSTICK = 20
  ABS_HAT0X = 16
  Moves <- MCMoves
  Places = {0, 5, 20}
  TOUCH_CLICK_RADIUS = 10
  WindowModifierKeys = {"ctrl"}
  UngrabKey = "z"
  Centre = 1
  MaxInputs = 5
  MaxPending = 2
SYMMETRY Interchangeable
INVARIANTS TableIsOpenDevices IdsConsistent HostMaskCurrent RumbleFollowsHost UndisturbedQuits HostKeysReleased PointerReachesHost ControlsReachHost
