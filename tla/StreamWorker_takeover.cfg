SPECIFICATION FairSpec
CONSTANTS
    Workers = {w1, w2}
    MaxMsgs = 3
    BatchSize = 2
    MaxRetries = 1
    MaxLen = 0
    Malformed = {}
    Poison = {}
    MaxFaults = 0
    CanCrash = TRUE
    CanStop = FALSE
PROPERTIES
    PeerPicksUp
\* Every process may have stopped or died: the run ends there.
CHECK_DEADLOCK FALSE
