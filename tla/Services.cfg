SPECIFICATION MCSpec
CONSTANTS
  r1 = r1  r2 = r2  r3 = r3  p = p  h = h  f1 = f1  f2 = f2  g1 = g1  g2 = g2
  A = A  B = B  C = C  T = T
  NoTask = NoTask  NoObject = NoObject
  PreFetchBufferNum = 3
  ForwardCacheEntries = 4
  PreFetchScanWindow = 3
  Tasks = {r1, r2, r3, p, h, f1, f2, g1, g2}
  Objects = {A, B, C, T}
  Partial = {p}
  TypeArrays = {T}
  Target <- MCTarget
  Traced <- MCTraced
  Chunks <- MCChunks
  Roots <- MCRoots
  Regions = {"r0", "r1", "r2"}
  NoRegion = "null"
  DummyRegion = "dummy"
  OldRegion = "r0"
  JvmOrder <- MCJvmOrder
  LengthMod = 9
  MaxCycles = 1
  ArrayMax = 2
  RegionWords = 3
  Sizes <- MCSizes
  MaxCommands = 2
  ObjectSizes = {1, 5}
  PlabWords = 7
  WasteFactor = 2
  HeadSize = 3
  SpaceWords = 10
  MaxAsked = 3
  Nodes = {"n1", "n2", "n3"}
  NoNode = "null"
  Cards = {"c1", "c2"}
  NoCard = "none"
  LineOffset <- MCLineOffset
  Capacity = 2
  LineWords = 2
  MaxJobs = 2
INVARIANTS HandedOverOnce FreeListSound RegionCacheFresh RegionsAccounted
  WordsAccounted CardsKept
PROPERTY WorkEnds
CHECK_DEADLOCK FALSE
