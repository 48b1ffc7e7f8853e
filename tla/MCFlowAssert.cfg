\* Two conversations of different hosts with one hash.
CONSTANTS
    Packets <- CollidingHosts
    FlowOutTime = 2
    UINT32 = 64
    ClockMayStepBack = FALSE
    MaxBatch = 2
    MaxPackets = 4
    MaxTime = 2
SPECIFICATION Spec
INVARIANT NoAbort
CHECK_DEADLOCK FALSE
