SPECIFICATION FairSpec
CONSTANTS
    Keys = {1}
    NoFile = NoFile
    Policy = "tiered"
    MaxSegments = 30
    MaxSegmentsPerMerge = 20
    MaxSegIds = 8
    Scenarios <- Calm
CHECK_DEADLOCK FALSE
PROPERTY
    EventuallyOneSegment
