SPECIFICATION Spec
CONSTANTS
  Bytes = {1, 2}
  MaxKeyLength = 1
  MetaValues = {0, 1, 2}
  NumSecondary = 2
  VINT_BASE = 3
  MemoryLimit = 2
  MaxCalls = 5
  MaxSecondaryCalls = 3
INVARIANTS Ascending LastCallWins LastChunkWins
CHECK_DEADLOCK FALSE
