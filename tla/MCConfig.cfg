CONSTANTS
  k1 = k1
  k2 = k2
  v0 = v0
  v1 = v1
  Missing = Missing
  Torn = Torn
  Locked = Locked
  Global = global
  Screens = {s1}
  Keys <- MCKeys
  Values <- MCValues
  GlobalOnly <- MCGlobalOnly
  Default <- MCDefault
  Contents <- MCContents
  ParseRetries = 1
  MaxSets = 1
  MaxEdits = 1
  MaxCrashes = 1
  MaxChanges = 2
SPECIFICATION FairSpec
CHECK_DEADLOCK FALSE
INVARIANTS
  OverlayMirrorsGlobal
  MemoryIsOnDisk
  NoSilentEdit
PROPERTIES
  ComesToRest
  EditIsRead
