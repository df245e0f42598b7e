SPECIFICATION BootSpec
CONSTANTS
  v1 = v1
  v2 = v2
  Default = Default
  Values <- MCValues
  Last = 3
  Timeouts <- MCTimeouts
CHECK_DEADLOCK FALSE
INVARIANTS
  NoMixture
  SavedAsSelected
  ScanPrefersRemovable
PROPERTIES
  SettingsComeBack
  DiscoveryEnds
