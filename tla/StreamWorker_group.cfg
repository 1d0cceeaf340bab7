SPECIFICATION FairSpec
CONSTANTS
    Workers = {w1, w2}
    MaxMsgs = 3
    BatchSize = 2
    MaxRetries = 2
    MaxLen = 2
    Malformed = {1}
    Poison = {2}
    MaxFaults = 2
    CanCrash = TRUE
    CanStop = TRUE
INVARIANTS
    LiveWorkerHoldsItsPending
    AckOnlyAfterOutcome
    DuplicatesPaidByFaults
PROPERTIES
    DeliversAtMostOnce
    EligibleIsDelivered
    InflightEnds
    SigtermEndsWorker
\* Every process may have stopped or died: the run ends there.
CHECK_DEADLOCK FALSE
