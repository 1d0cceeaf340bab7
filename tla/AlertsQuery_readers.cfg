SPECIFICATION QuerySpec
CONSTANTS
    Labels = {high, low}
    Limit = 2
    Retention = 1
    MaxLag = 1
    MaxLogs = 4
    MaxTime = 3
SYMMETRY LabelSymmetry
INVARIANTS
    ScrollShowsEachOnce
    
    ListedIsFoundWhileRetained
\* The bounds end the run.
CHECK_DEADLOCK FALSE
