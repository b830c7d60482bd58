SPECIFICATION Spec
CONSTANTS
    Keys = {1, 2, 3}
    NoFile = NoFile
    CrashInMerge = FALSE
    PolicyLoads = TRUE
INVARIANTS
    TypeOK
    FlushedDurable
    PersistedBeforeMerge
    DuringMergeIsNew
PROPERTY
    DeletedStaysDeleted
