SPECIFICATION MCSpec
CONSTANTS
  Entry = 12
  SpillNeed = 10
  ReadNeed = 1
  LineElems = 2
  TopCacheDepth = 4
  ScanWindow = 2
  QueueSize = 12
  Tasks <- MCTasks
  JvmQueue <- MCJvmQueue
  MaxJvm = 2
  MaxPush = 3
  PushTask <- MCPushTask
  MaxPops = 1
  MaxJobs = 2
  None = None
  MaxObjects = 2
  ObjSizes = {1, 3}
  TypeArrayCmds = {1}
  Mirrors = {2}
  Inflated = {2}
  JvmTop <- MCJvmTop
  JvmEnd <- MCJvmEnd
  BufferWords = 4
  HeapWords = 11
INVARIANTS TopCacheCoherent PushFollowServable NoOverlap
PROPERTIES JobEnds ImplementsSurvivor EveryObjectDone
CHECK_DEADLOCK FALSE
