CONSTANTS
  a = a
  b = b
  c = c
  Data = {a, b, c}
  FirstRows <- MCFirstRows
  HeightOf <- MCHeightOf
  Items = {1, 2, 3, 4}
  Heights = {0, 2, 3}
  Estimate = 1
  Spacing = 1
  CacheBuffer = 0
  ViewHeight = 2
  Tops = {0, 3}
  Viewports <- MCViewports
  CreateBatch = 1
  DestroyBatch = 1
  MaxRows = 3
  MaxSteps = 2
SPECIFICATION ViewSpec
CHECK_DEADLOCK FALSE
INVARIANT BoundFollowsMapping
