SPECIFICATION FairSpec
CONSTANTS
  MaxTime = 4
  MaxLines = 4
INVARIANTS
  LinesInOrder
PROPERTIES
  ImplementsTimeline
  EveryLineShown
CHECK_DEADLOCK FALSE
