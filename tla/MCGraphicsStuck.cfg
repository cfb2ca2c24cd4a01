CONSTANTS
  Levels <- MCLevels
  WarningLevels <- MCWarningLevels
  Scales <- MCScales
  MaxInputs = 1
SPECIFICATION Spec
INVARIANT EffectsComeBack
CHECK_DEADLOCK FALSE
