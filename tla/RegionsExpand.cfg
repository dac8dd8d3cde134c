SPECIFICATION AllocSpec
CONSTANTS
  Regions = {"r0", "r1", "r2"}
  NoRegion = "null"
  DummyRegion = "dummy"
  OldRegion = "r0"
  JvmOrder <- MCJvmOrder
  LengthMod = 9
  MaxCycles = 1
  ArrayMax = 2
  RegionWords = 3
  Sizes <- MCSizes
  MaxCommands = 2
PROPERTY ExpansionAsked
CHECK_DEADLOCK FALSE
