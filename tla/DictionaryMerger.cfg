SPECIFICATION Spec
CONSTANTS
    Keys = {1, 2, 3}
    N = 3
    MaxEntries = 6
CHECK_DEADLOCK FALSE
INVARIANTS
    OutputSorted
    NothingUndeletedDropped
    ComputesMergedDictionary
    StatsAddUp
