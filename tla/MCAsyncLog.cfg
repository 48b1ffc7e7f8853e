\* Two callers and one SIGINT over a queue of two messages.
CONSTANTS
    QueueSize = 2
    Signals = {s1}
    MaxCalls = 1
SPECIFICATION FairSpec
INVARIANTS
    NothingAfterTerminate
    WrittenAtExit
PROPERTIES
    ImplementsPipe
    SigintEndsProcess
CHECK_DEADLOCK FALSE
