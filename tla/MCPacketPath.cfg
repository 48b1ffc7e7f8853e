\* The ring is smaller than the traffic; two SIGINTs at any moment.
CONSTANTS
    Burst = 2
    RingCap = 3
    NumBufs = 8
    RxDesc = 1
    UINT32 = 5
    Signals = {s1, s2}
    MaxPkts = 6
SYMMETRY SignalSymmetry
SPECIFICATION Spec
INVARIANTS
    MbufsConserved
    RxNeverStarved
    CaptureAccounted
    AtMostOneBurstStranded
    SummaryWithinOneBurst
    SummaryConsistent
PROPERTY ImplementsQueue
CHECK_DEADLOCK FALSE
