SPECIFICATION FairSpec
CONSTANTS
  ConfigFiles <- MCConfigFiles
  DefaultBacklog = 6
  DefaultThreads = 3
  DefaultQueue = 3
  AcceptThreadNum = 2
  MaxThreads = 5
INVARIANTS
  ServesAsConfigured
PROPERTIES
  StartEnds
