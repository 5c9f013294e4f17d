SPECIFICATION FairSpec
CONSTANTS
  Files <- MCFiles
  N = 8
  MAX_DECODE_DELAY = 2
  ElementSize = 2
  SegmentOffset = 1
  ScaleRatio = 2
  IdlesPerAdd = 1
  Ahead = 4
  StackDepth = 5
  MovieTimes = {0, 6}
INVARIANTS
  ClustersInTurn
  RegionsMeet
  ShownInTime
PROPERTIES
  ImportEnds
CHECK_DEADLOCK FALSE
