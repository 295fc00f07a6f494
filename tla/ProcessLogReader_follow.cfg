SPECIFICATION FairSpec
CONSTANTS
  SplitSize = 4
  BlockMax = 2
  IntMax = 5
  MaxBytes = 6
  MaxChanges = 2
  MaxFiles = 3
INVARIANTS
  TypeOK
  NothingTwice
  NothingPassedOver
PROPERTIES
  FailsOnlyIfTouched
  EverythingIsRead
