CONSTANTS
    MaxFiles = 2
    MaxSize = 3
    Lengths = {1, 2, 4}
    MaxMessages = 5
    MaxFaults = 3
SPECIFICATION Spec
INVARIANTS
    KeepsNewest
    KeepsEnough
    SizeLimit
CHECK_DEADLOCK FALSE
