SPECIFICATION Spec
CONSTANTS
  Values <- MCValues
  Vectors <- MCVectors
  MaxAdds = 4
  MaxMerged = 3
  NumFiles = 2
  MAX_LENGTH = 3
  PROBE = 4
  VINT_BASE = 3
  HashCodes = 2
  chunk_size_ = 4
  hash_size_step_table_ <- MCSizes
  OverflowShare = 2
  MaxCookie = 8
  OverflowLimit = 1
  SizePerGeneration = 1
  MaxGenerations = 2
INVARIANTS ReadsBack NoChunkBehindTail FoundAgain
CHECK_DEADLOCK FALSE
