SPECIFICATION Spec
CONSTANTS
  FileSizes = {0, 3, 5}
  ReadSize = 2
  Requests = {0, 1, 3}
  Low = 4
CONSTRAINT InReach
PROPERTY ReadsTellFile
CHECK_DEADLOCK FALSE
