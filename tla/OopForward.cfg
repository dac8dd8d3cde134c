SPECIFICATION OopFairSpec
CONSTANTS
  a1 = a1
  a2 = a2
  b1 = b1
  b2 = b2
  c1 = c1
  A = A
  B = B
  C = C
  r1 = r1
  r2 = r2
  r3 = r3
  None = None
  OopTasks = {b1, b2}
  Objects = {B}
  Regions = {r1, r2, r3}
  SrcOop <- MCSrcOop
  FieldRegion <- MCFieldRegion
  ObjectRegion <- MCObjectRegion
  InCset = {r1}
  Humongous = {r2}
  TypeArrays = {B}
  SameRegion <- MCSameRegion
  AttrEntries = 2
  HeapEntries = 2
PROPERTY ForwardOnce
