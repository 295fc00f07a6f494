SPECIFICATION PipelineSpec
CONSTANTS
  MaxBlocks = 9
  FrameLen = 2
  Window = 2
  MaxConns = 3
  MaxFaults = 2
  SplitSize = 3
  BlockMax = 2
  IntMax = 7
  MaxBytes = 3
  MaxChanges = 0
  MaxFiles = 2
INVARIANTS
  TypeOK
  ExactlyOnePlace
  FramesWhole
  OrderedByConnection
  StoredOnce
PROPERTIES
  BlocksArrive
  LogArrives
