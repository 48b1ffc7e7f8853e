CONSTANTS
    Files <- MCFiles
    NoFile = NoFile
    Texts <- MCTexts
    Atol <- MCAtol
    UINT32 = 16
    UINT64 = 64
    Second = 2
    DefaultTimeout = 4
    RxQueNumber = 1
    MaxRxQueues = {0, 1, 2}

SPECIFICATION Spec

INVARIANTS
    SettingsFollowFile
    FailsWithReason
    TimeoutInRange
