SPECIFICATION Spec
CONSTANTS
  NUMBER_OF_STATE_CODINGS = 3
  VSHORT_SLOTS = 2
  VSHORT_BASE = 3
  LOW_PART = 2
  COMPACT_SIZE_WINDOW = 14
  RELATIVE_MAX_VALUE = 16
  ABSOLUTE_MAX_VALUE = 2
  SPARSE_ARRAY_SEARCH_OFFSET = 2
  COMPACT_SIZE_INNER_WEIGHT_MAX_VALUE = 2
  BufferSize = 20
  FlushSize = 9
  UsedLabels = {0, 1, 3}
  FinalValues = {4}
  Weights = {1, 3}
  MaxChildren = 2
  MaxStates = 3
INVARIANT WritesInBuffer
PROPERTY ImplementsStore
CHECK_DEADLOCK FALSE
