SPECIFICATION FairSpec
CONSTANTS
    FaultSets <- MCFaultSets
    MaxFaults = 2
INVARIANTS
    TypeOK
    AlarmWasTrue
PROPERTIES
    KeepsItsPromise
    StatusWaitEnds
    FollowUpWaitsEnd
CHECK_DEADLOCK FALSE
