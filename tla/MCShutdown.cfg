\* Liveness: no symmetry, a short traffic.
CONSTANTS
    Burst = 1
    RingCap = 2
    NumBufs = 6
    RxDesc = 1
    UINT32 = 4
    Signals = {s1, s2}
    MaxPkts = 2
SPECIFICATION FairSpec
PROPERTIES
    StopLeadsToExit
    RingIsDrained
CHECK_DEADLOCK FALSE
