CONSTANTS
  Tracks = {song, tune}
  NoTrack = NoTrack
  NoCandidate = NoCandidate
  Offsets = {0, 1}
  Pickable <- MCPickable
  MaxInputs = 5
SPECIFICATION Spec
INVARIANTS
  OnlyThisTracks
  LoadingIsAwaited
  OffsetIsRemembered
PROPERTIES
  ChoiceStands
CHECK_DEADLOCK FALSE
