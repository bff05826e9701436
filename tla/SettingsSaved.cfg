SPECIFICATION SettingsSpec
CONSTANTS
  Unset = Unset
  MoonlightConf = "conf"
  HostFile = "host"
  CommandLines <- MCCommandLines
  Contents <- MCContents
  MaxOpen = 4
  MaxPrograms = 3
CHECK_DEADLOCK FALSE
INVARIANTS SavedAsDocumented
