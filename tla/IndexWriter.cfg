SPECIFICATION Spec
CONSTANTS
    Keys = {1, 2}
    NoFile = NoFile
    Policy = "tiered"
    MaxSegments = 14
    MaxSegmentsPerMerge = 20
    MaxSegIds = 6
    Scenarios <- DeletesAndFaults
CHECK_DEADLOCK FALSE
INVARIANTS
    TypeOK
    TocOpens
    SetsSurvive
    DurableUndisturbed
    MergesApart
    VisibleUnlessUnread
