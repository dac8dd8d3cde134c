SPECIFICATION Spec
CONSTANTS
  s0 = s0  s1 = s1  s2 = s2  s3 = s3  s4 = s4  a1 = a1  a2 = a2  a3 = a3  l = l
  b1 = b1  m = m  c1 = c1  c2 = c2  c3 = c3  l2 = l2  d1 = d1  m2 = m2
  R = R  L = L  U = U  V = V  X = X  Y = Y  Z = Z
  NoTask = NoTask  NoObject = NoObject
  PreFetchBufferNum = 3
  ForwardCacheEntries = 8
  PreFetchScanWindow = 3
  Tasks = {s0, s1, s2, s3, s4, a1, a2, a3, l, b1, m, c1, c2, c3, l2, d1, m2}
  Objects = {R, L, U, V, X, Y, Z}
  Partial = {}
  TypeArrays = {Z}
  Target <- MCTarget
  Traced <- MCTraced
  Chunks <- MCChunks
  Roots <- MCRoots
INVARIANT DispatchFresh
CHECK_DEADLOCK FALSE
