SPECIFICATION Spec
CONSTANTS
  Tasks = {t1, t2}
  LogPath = logPath
  Paths = {logPath}
  PathOf <- MCPathOf
  LocalTime <- MCLocalTime
  SplitSize = 2
  IntMax = 3
  Messages = 2
  MaxPieces = 2
  MaxSeconds = 2
  MaxFaults = 1
SYMMETRY MCSymmetry
INVARIANTS
  TypeOK
  MovedAsSeen
  FoundUnlessSameTime
  SortedByName
  PiecesTogether
PROPERTIES
  EachStream
