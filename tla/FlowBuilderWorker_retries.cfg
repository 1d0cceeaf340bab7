SPECIFICATION WorkerSpec
CONSTANTS
    Keys <- MCKeys
    Reverse <- MCReverse
    MaxFlows = 2
    Timeout = 1
    SweepEvery = 3
    Skew = 1
    MaxTime = 3
    MaxPackets = 8
    MaxRetries = 2
    MaxMessages = 4
    MaxFaults = 3
INVARIANTS
    PacketsAccounted
    
    LossPaidByFaults
    FoldsPaidByFaults
PROPERTIES
    DropsTheIdlest
    SweepIsComplete
    
\* MaxMessages or a dead process ends the run.
CHECK_DEADLOCK FALSE
