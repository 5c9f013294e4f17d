SPECIFICATION Spec
CONSTANTS
  FFUSION_MAX_BUFFERS = 4
  Nothing = Nothing
  Records = {r1, r2}
  r1 = r1
  r2 = r2
  CodecRefs = 2
  MaxPictures = 5
INVARIANTS
  RetainCountExact
  RecordsKeepPicture
  AlwaysABuffer
CHECK_DEADLOCK FALSE
