SPECIFICATION FairSpec
CONSTANTS
  d1 = d1
  d2 = d2
  Devices = {d1, d2}
  NoDevice = NoDevice
  Capacity = 2
  MaxGamepads = 2
  start = start
  rb = rb
  Buttons = {start, rb}
  Start = start
  QuitButtons = {start, rb}
  MouseEmulationEnabled = TRUE
  AutoAdd = FALSE
  Unpluggable = {d1, d2}
PROPERTIES JoinReturns
