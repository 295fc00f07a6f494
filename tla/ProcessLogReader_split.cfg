SPECIFICATION FairSpec
CONSTANTS
  SplitSize = 3
  BlockMax = 2
  IntMax = 5
  MaxBytes = 5
  MaxChanges = 0
  MaxFiles = 2
PROPERTIES
  DividedNotDropped
