SPECIFICATION FairSpec
CONSTANTS
  PADDING = 1
  Nothing = Nothing
  SLACK = 1
  RingBytes = 100
  FFUSION_MAX_BUFFERS = 7
  Process <- MCProcess
  Movies <- MCMovies
INVARIANTS
  ShowsPictureInTurn
  TypeOK
  FlushOnlyForNewGOP

  
CHECK_DEADLOCK FALSE
