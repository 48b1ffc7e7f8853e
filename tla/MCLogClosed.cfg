CONSTANTS
    MaxFiles = 1
    MaxSize = 3
    Lengths = {1, 2}
    MaxMessages = 4
    MaxFaults = 1
SPECIFICATION Spec
INVARIANT WritesHaveFile
