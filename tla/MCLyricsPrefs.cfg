CONSTANTS
  Tracks = {song, tune}
  NoTrack = NoTrack
  NoCandidate = NoCandidate
  Offsets = {0}
  Pickable <- MCNone
  MaxInputs = 2
SPECIFICATION Spec
INVARIANTS
  PrefsArePerTrack
CHECK_DEADLOCK FALSE
