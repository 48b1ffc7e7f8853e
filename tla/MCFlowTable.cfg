\* Frames of which two collide; a clock that never steps back.
CONSTANTS
    Packets <- OneConnectionAndOthers
    FlowOutTime = 1
    UINT32 = 3
    ClockMayStepBack = FALSE
    MaxBatch = 2
    MaxPackets = 4
    MaxTime = 3
SPECIFICATION Spec
INVARIANTS
    TableMatchesCache
    PacketsAccounted
    ConversationNotSplit
    TwoFinsClose
    NoExpiredFlowAfterSweep
    RecordsOrdered
PROPERTY ImplementsSessions
CHECK_DEADLOCK FALSE
