SPECIFICATION MCSpec
CONSTANTS
  Users = {u1, u2}
  Pages = {p1, p2}
  MaxPinned = 1
  Raised = {"TLB_MISS", "GROW", "DONE", "ERROR"}
  MaxOps = 2
  MaxRequests = 2
  MaxFaults = 1
  None = None
  Callers = {c1, c2}
  MaxCalls = 4
  MaxDevs = 2
INVARIANTS DeviceMemoryPinned HwgcAnswersAwaited NothingLeft OwnResult
  HeldAsLongAsUsed ModuleUndone
PROPERTIES DeliveredInOrder OperationEnds RemoveEnds
CHECK_DEADLOCK FALSE
