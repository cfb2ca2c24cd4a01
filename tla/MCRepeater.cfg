CONSTANTS
  Values = {11, 12}
  Delegates = {1, 2, 3, 4, 5}
  MaxCount = 3
  MaxFailures = 1
  MaxCalls = 3
SPECIFICATION RepeaterSpec
CHECK_DEADLOCK FALSE
INVARIANTS
  ItemsFollowModel
  NoneLeftBehind
