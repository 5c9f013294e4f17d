SPECIFICATION FairSpec
CONSTANTS
  Streams <- Played
  Requests = {2, 4, 6}
  FrameBytes = 2
  OutLen = 4
  outBufSize = 4
  MaxPackets = 2
  Noise = Noise
  Stale = Stale
INVARIANTS HeardIsDecoded FramesInTurn
PROPERTY EveryFrameHeard
