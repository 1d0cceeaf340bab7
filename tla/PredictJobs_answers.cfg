SPECIFICATION FairSpec
CONSTANTS
    Jobs = {j1, j2, p1}
    Probes = {p1}
    Failing = {j2}
    Workers = {w1, w2}
    MaxRetries = 2
    MaxFaults = 2
    Expirable = {j1}
    CanCrash = TRUE
    Losable = {j1, p1}
INVARIANTS
    CompletedHasItsAlert
    DivergencePaidByFaults
    DlqNeedsAFaultPerAttempt
    ProbeVerdictIsSound
PROPERTIES
    SettledNeverReopens
    
    
\* Jobs, calls that fail and workers run out: the run ends there.
CHECK_DEADLOCK FALSE
