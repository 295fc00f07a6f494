SPECIFICATION Spec
CONSTANTS
  AcceptThreads = {a1}
  Workers = {w1}
  Tasks = {t1}
  ServerTask = serverTask
  None = None
  QueueSize = 2
  MaxEvents = 2
  MaxSends = 2
  MaxFaults = 0
INVARIANTS
  DeletedFromEpoll
