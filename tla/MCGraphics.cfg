CONSTANTS
  Levels <- MCLevels
  WarningLevels <- MCWarningLevels
  Scales <- MCScales
  MaxInputs = 3
SPECIFICATION FairSpec
INVARIANTS
  GraphicsFollowModes
  MotionFollowsEco
PROPERTIES
  LatchHasHysteresis
  TrafficEnds
CHECK_DEADLOCK FALSE
