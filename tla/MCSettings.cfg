CONSTANTS
  k1 = k1
  k2 = k2
  v0 = v0
  v1 = v1
  Options <- MCOptions
  GlobalOnly <- MCGlobalOnly
  Members = list
  Foreign = foreign
  Values <- MCValues
  Bad = Bad
  Default <- MCDefault
  DefaultList <- MCDefaultList
  Missing = Missing
  Torn = Torn
  Locked = Locked
  Contents <- MCContents
  StartContents <- MCStartContents
  LoadRetries = 1
  MaxWrites = 2
  MaxMishaps = 1
SPECIFICATION FairSpec
CHECK_DEADLOCK FALSE
INVARIANTS
  OverlayFollows
  NoSilentEdit
  MemoryIsOnDisk
PROPERTIES
  ForeignKept
