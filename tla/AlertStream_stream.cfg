SPECIFICATION FairSpec
CONSTANTS
    MaxAlerts = 4
    Writers = 2
    MaxBatch = 2
    MaxFaults = 2
INVARIANTS
    TypeOK
    EventsAscend
    PassedOverHasACause
PROPERTIES
    InHandIsSeen
\* MaxAlerts ends the run, except for reconnects.
CHECK_DEADLOCK FALSE
