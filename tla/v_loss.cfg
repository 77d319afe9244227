CONSTANTS
    Streams = {s}
    ATTEMPTS = 2
    MaxThreads = 2
    MaxFaults = 1
CHECK_DEADLOCK FALSE
SPECIFICATION LinkSpec
PROPERTY LossIsNoticed
