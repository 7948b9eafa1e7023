SPECIFICATION FairSpec
CONSTANTS
    u1 = u1
    u2 = u2
    User <- Users
    kMaxPendingWrites = 2
    MaxWrites = 3
    MaxFaults = 3
CHECK_DEADLOCK FALSE
INVARIANTS
    AssertionsHold
    ResponsesMatchPipeline
    SuccessMeansApplied
    NoWriteLost
PROPERTIES
    SuccessIsFinal
    WritesSpec
    EverythingIsSent
