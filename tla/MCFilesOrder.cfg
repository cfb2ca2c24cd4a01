CONSTANTS
  Files <- MCFiles
  SubFiles <- MCNone
  HiddenFiles <- MCNone
  Slots = {1, 2}
  MaxSets = 1
  MaxChanges = 2
SPECIFICATION Spec
CHECK_DEADLOCK FALSE
INVARIANT RowsSorted
