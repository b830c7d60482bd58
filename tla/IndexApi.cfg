SPECIFICATION FairSpec
CONSTANTS
    Callers = {a, b}
    Main = a
    NoOne = NoOne
    CompileKeyThreshold = 1
    MaxSegments = 2
    MaxSets = 2
    MaxFlushes = 1
    MaxForced = 1
CHECK_DEADLOCK FALSE
INVARIANTS
    LostOnlyIfOvertaken
    LockProtects
PROPERTIES
    FlushCoversOwn
    CallsReturn
