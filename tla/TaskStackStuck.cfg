SPECIFICATION FairSpec
CONSTANTS
  Entry = 12
  SpillNeed = 10
  ReadNeed = 1
  LineElems = 2
  TopCacheDepth = 4
  ScanWindow = 2
  QueueSize = 12
  Tasks <- MCTasks
  JvmQueue <- MCJvmQueue
  MaxJvm = 1
  MaxPush = 3
  PushTask <- MCPushTask
  MaxPops = 1
  MaxJobs = 1
PROPERTY ReadBackServed
CHECK_DEADLOCK FALSE
