SPECIFICATION Spec
CONSTANTS
  hash_size_step_table_ <- MCSizes
  OverflowShare = 2
  MaxCookie = 8
  OverflowLimit = 1
  SizePerGeneration = 2
  MaxGenerations = 3
  Alphabet = {0, 1}
  MaxKeyLength = 3
  MaxKeys = 4
  Values = {1, 2}
  WeightCutOff = 2
INVARIANTS AcceptsExactly InnerWeights Minimal
CHECK_DEADLOCK FALSE
