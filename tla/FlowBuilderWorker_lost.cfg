SPECIFICATION WorkerSpec
CONSTANTS
    Keys <- MCKeys
    Reverse <- MCReverse
    MaxFlows = 1
    Timeout = 1
    SweepEvery = 3
    Skew = 0
    MaxTime = 2
    MaxPackets = 6
    MaxRetries = 2
    MaxMessages = 3
    MaxFaults = 1
INVARIANTS
    EveryEventIsSent
\* MaxMessages or a dead process ends the run.
CHECK_DEADLOCK FALSE
