SPECIFICATION FairSpec
CONSTANTS
  Files <- MCFiles
  MaxStreams = 4
  MovieScale = 2
  FirstMin = 2
  FirstMax = 3
  IdleMax = 2
  IdlesPerAdd = 1
  Ahead = 2
  Fudge = 2
  MovieTimes = {0, 3}
  Chunk = 4
INVARIANTS
  MediaTellsFile
  TrackHoldsMedia
  LoadedIsThere
PROPERTIES
  StaysBehindData
  ImportEnds
CHECK_DEADLOCK FALSE
