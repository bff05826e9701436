SPECIFICATION FairSpec
CONSTANTS
  Sig = Sig
  Udev = Udev
  d1 = d1
  d2 = d2
  w1 = w1
  Devices = {d1, d2}
  Windows = {w1}
INVARIANTS ArrayMatchesSources NeverBlocksOnSignal
PROPERTIES ServesEverySource SignalEndsLoop AnnouncedDevicesEnabled
