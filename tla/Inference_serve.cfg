SPECIFICATION FairSpec
CONSTANTS
    Artifacts <- MCArtifacts
    MaxCalls = 4
    Threads = 2
    Budget = 2
    MaxWork = 3
INVARIANTS
    
    MissingExplanationHasACause
PROPERTIES
    EveryCallReturns
\* MaxCalls ends the run, and so does a refusal to start.
CHECK_DEADLOCK FALSE
