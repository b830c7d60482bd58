SPECIFICATION FairSpec
CONSTANTS
    Keys = {1}
    NoFile = NoFile
    MaxSegIds = 3
    MaxDeletes = 1
    MaxMerges = 1
    MaxReloads = 1
CHECK_DEADLOCK FALSE
INVARIANTS
    ListPublished
PROPERTIES
    ReloadCovers
    EventuallyConsistent
