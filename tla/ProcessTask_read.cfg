SPECIFICATION Spec
CONSTANTS
  Messages = 4
  HeaderLen = 3
  BodyLen <- MCBodyLen
  MaxFaults = 2
INVARIANTS
  TypeOK
  Framed
  NeverMisread
  Accounted
PROPERTIES
  LogStreamSpec
