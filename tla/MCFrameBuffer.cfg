SPECIFICATION Spec
CONSTANTS
  PADDING = 1
  Slots = 3
  RingBytes = 8
  Sizes = {1, 2}
  RestSizes = {0, 2}
  MaxFrames = 5
  MaxLive = 3
INVARIANTS
  FindReturnsLive
PROPERTIES
  ImplementsFrameFifo
