\* A ring that one burst fills; one SIGINT at any moment.
CONSTANTS
    Burst = 2
    RingCap = 2
    NumBufs = 6
    RxDesc = 0
    UINT32 = 8
    Signals = {s1}
    MaxPkts = 4
    Packets <- MCPackets
    FlowOutTime = 1
    ClockMayStepBack = FALSE
    MaxTime = 2
    Traffic <- MCTraffic
SPECIFICATION Spec
INVARIANTS
    PacketsTraced
    SummaryMatchesRecords
CHECK_DEADLOCK FALSE
