SPECIFICATION Spec
CONSTANTS
    Keys = {1}
    NoFile = NoFile
    Policy = "tiered"
    MaxSegments = 30
    MaxSegmentsPerMerge = 20
    MaxSegIds = 5
    Scenarios <- FailedMerge
CHECK_DEADLOCK FALSE
INVARIANT
    DurableAllowed
