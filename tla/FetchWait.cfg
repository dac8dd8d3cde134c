SPECIFICATION Spec
CONSTANTS
  r1 = r1  r2 = r2  r3 = r3  p = p  h = h  f1 = f1  f2 = f2  g1 = g1  g2 = g2
  A = A  B = B  C = C  T = T
  NoTask = NoTask  NoObject = NoObject
  PreFetchBufferNum = 3
  ForwardCacheEntries = 4
  PreFetchScanWindow = 3
  Tasks = {r1, r2, r3, p, h, f1, f2, g1, g2}
  Objects = {A, B, C, T}
  Partial = {p}
  TypeArrays = {T}
  Target <- MCTarget
  Traced <- MCTraced
  Chunks <- MCChunks
  Roots <- MCRoots
INVARIANT WaitServed
CHECK_DEADLOCK FALSE
