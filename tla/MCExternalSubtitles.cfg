SPECIFICATION Spec
CONSTANTS
  Directories <- MCDirectories
  Spus <- MCSpus
  TimeWidth = 8
  GarbageTimes <- MCGarbageTimes
  Height = 20
  MaxRefused = 1
  Margin = 1
INVARIANTS
  TracksTellIndex
  ShowsOwnSubtitle
  TrackTellsFile
  ShownAsWritten
  RowsApart
CHECK_DEADLOCK FALSE
