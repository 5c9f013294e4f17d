SPECIFICATION Spec
CONSTANTS
  Junk = Junk
  InitialBytes = 2
  MaxBytes = 4
  MaxPackets = 3
  PacketSizes = {0, 1, 2}
  Colours = 5
  ExactFill = FALSE
INVARIANTS
  ReaderSeesHeld
PROPERTIES
  ImplementsByteFifo
