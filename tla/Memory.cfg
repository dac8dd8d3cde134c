SPECIFICATION MCSpec
CONSTANTS
  SourceIDs = {s1, s2}
  Txns = {t1, t2}
  None = None
  count = 2
  BeatBytes = 2
  GCCopyEntry = 4
  CompletionEntries = 4
  WcbEntries = 2
  EpochValues = 2
  Copies <- MCCopies
  Queried = {20, 22, 23}
  MaxCopies = 2
  LineElems = 4
  TraceJobs <- MCTraceJobs
  OopMaps <- MCOopMaps
  Statics <- MCStatics
  discoveredField = 2
  referentField = 1
  Heap <- MCHeap
  NullOop = "null"
  HumongousAt <- MCHumongousAt
  CsetOops = {"c1", "c2"}
  OwnOops = {"own"}
  RegionAttrCacheEntries = 2
  HumRegionCacheEntries = 1
  KlassCacheEntries = 1
  MaxTraces = 2
  ChunkSize = 2
  task_limit = 2
  task_fanout = 2
  ArrayLengths = {0, 1, 2, 3, 5, 8, 13, 14}
INVARIANTS AnswersWelcome AnswerAssembled BoundedWait
  CopyExact ForwardSound CopyAssertions FieldsSettled ChunksOnce
PROPERTY PathWorkEnds
CHECK_DEADLOCK FALSE
