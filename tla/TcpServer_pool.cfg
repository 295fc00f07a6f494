SPECIFICATION Spec
CONSTANTS
  AcceptThreads = {a1}
  Workers = {w1, w2}
  Tasks = {t1, t2}
  ServerTask = serverTask
  None = None
  QueueSize = 2
  MaxEvents = 2
  MaxSends = 1
  MaxFaults = 1
SYMMETRY Symmetry
INVARIANTS
  TypeOK
  SinglePlace
  NoUseAfterFree
  NoConnectionLost
  NoEdgeLost
PROPERTIES
  ClosedIsHeardOut
