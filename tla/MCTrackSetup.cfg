SPECIFICATION Spec
CONSTANTS
  NAL_PEEK_SIZE = 32
  LaceMax = 3
  DescrBase = 4
  RegisterBytes = 4
  Guard = 4
  Tracks <- MCTracks
  Preferences <- MCPreferences
  ComponentsFor <- MCComponents
  Earlier <- MCEarlier
INVARIANTS
  SetupReachesDecoder
  ParserTellsStream
  PictureDrawn
CHECK_DEADLOCK FALSE
