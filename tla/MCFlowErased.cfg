\* A connection that both sides close.
CONSTANTS
    Packets <- Closing
    FlowOutTime = 2
    UINT32 = 64
    ClockMayStepBack = FALSE
    MaxBatch = 2
    MaxPackets = 4
    MaxTime = 2
SPECIFICATION Spec
INVARIANT UpdatesAreInTable
CHECK_DEADLOCK FALSE
