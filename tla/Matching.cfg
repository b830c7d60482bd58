SPECIFICATION SpecMatching
CONSTANTS
  Keys <- MCKeys
  Values = {1, 2}
  MaxFsas = 3
  MaxKeys = 3
  MaxWeighted = 2
  Kinds = {"plain", "weighted"}
  CutOff = 2
  SPACE = 9
  SEPARATOR = 8
  LeadBytes = {3}
  FollowBytes = {4, 5}
  Searches <- MCSearches
  SearchFsas <- MCSearchFsas
INVARIANTS FuzzyFindsExactly NearFindsClosest CompletesExactly FuzzyCompletes TextFindsLongest
PROPERTY ImplementsWalk
CHECK_DEADLOCK FALSE
