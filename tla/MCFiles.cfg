CONSTANTS
  Files <- MCFiles
  SubFiles <- MCSubFiles
  HiddenFiles <- MCHiddenFiles
  Slots = {1, 2}
  MaxSets = 2
  MaxChanges = 2
SPECIFICATION Spec
CHECK_DEADLOCK FALSE
INVARIANTS
  RowsOnce
  FuturesAreLive
  ShowsDirectory
