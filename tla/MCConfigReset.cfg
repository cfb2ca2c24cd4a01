CONSTANTS
  k1 = k1
  k2 = k2
  v0 = v0
  v1 = v1
  Missing = Missing
  Torn = Torn
  Locked = Locked
  Global = global
  Screens = {s1}
  Keys <- MCKeys
  Values <- MCValues
  GlobalOnly <- MCGlobalOnly
  Default <- MCDefault
  Contents <- MCFewContents
  ParseRetries = 1
  MaxSets = 2
  MaxEdits = 1
  MaxCrashes = 0
  MaxChanges = 3
SPECIFICATION Spec
CHECK_DEADLOCK FALSE
PROPERTIES
  ResetReleasesOption
