SPECIFICATION FairSpec
CONSTANTS
  AcceptThreads = {a1}
  Workers = {w1}
  Tasks = {t1, t2}
  ServerTask = serverTask
  None = None
  QueueSize = 2
  MaxEvents = 2
  MaxSends = 1
  MaxFaults = 0
PROPERTIES
  LeavesQueueToWorker
