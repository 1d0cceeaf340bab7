SPECIFICATION Spec
CONSTANTS
    MaxAlerts = 3
    Writers = 1
    MaxBatch = 3
    MaxFaults = 0
INVARIANTS
    NothingPassedOver
\* MaxAlerts ends the run, except for reconnects.
CHECK_DEADLOCK FALSE
