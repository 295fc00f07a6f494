SPECIFICATION FairSpec
CONSTANTS
  AcceptThreads = {a1, a2}
  Workers = {w1}
  Tasks = {t1}
  ServerTask = serverTask
  None = None
  QueueSize = 1
  MaxEvents = 1
  MaxSends = 2
  MaxFaults = 1
INVARIANTS
  AcceptExclusive
  AcceptInv
PROPERTIES
  BacklogIsServed
  StopReachesAll
  DataIsRead
  GonePeerIsFreed
