SPECIFICATION PathSpec
CONSTANTS
  Entry = 8
  SpillNeed = 7
  ReadNeed = 1
  LineElems = 2
  TopCacheDepth = 2
  ScanWindow = 1
  QueueSize = 12
  Tasks <- MCTasks
  JvmQueue <- MCJvmQueue
  MaxJvm = 1
  MaxPush = 7
  PushTask <- MCPushTask
  MaxPops = 1
  MaxJobs = 1
  a1 = a1
  a2 = a2
  b1 = b1
  b2 = b2
  c1 = c1
  A = A
  B = B
  C = C
  r1 = r1
  r2 = r2
  r3 = r3
  None = None
  OopTasks = {a1, a2, b1, b2, c1}
  Objects = {A, B, C}
  Regions = {r1, r2, r3}
  SrcOop <- MCSrcOop
  FieldRegion <- MCFieldRegion
  ObjectRegion <- MCObjectRegion
  InCset = {r1}
  Humongous = {r2}
  TypeArrays = {B}
  SameRegion <- MCSameRegion
  AttrEntries = 2
  HeapEntries = 2
INVARIANTS SpillIntact ReadFresh FetchHeldByOne FieldsAgree CardsMarked
PROPERTIES RefinesTaskStack CopiedOnce TasksSettled
CHECK_DEADLOCK FALSE
