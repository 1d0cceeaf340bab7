SPECIFICATION FairSpec
CONSTANTS
    MaxPackets = 8
    QueueSize = 2
    Skipped = {2}
    MaxFaults = 3
INVARIANTS
    StreamInOrder
    DropsAreCounted
PROPERTIES
    CapturedIsForwarded
\* MaxPackets ends the run, and so does a failing source.
CHECK_DEADLOCK FALSE
