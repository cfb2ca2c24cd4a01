CONSTANTS
  edp = edp
  hdmi = hdmi
  Fallback = Fallback
  None = None
  Panels <- MCPanels
  Rank <- MCRank
  Width <- MCWidth
  Height <- MCHeight
  EmptyLimit = 1
  MaxEvents = 1
  MaxInputs = 2
SPECIFICATION FairSpec
CHECK_DEADLOCK FALSE
INVARIANTS
  ListIsCurrent
  ModeReadsBack
  LayoutIsKept
PROPERTIES
  DarkIsHealed
