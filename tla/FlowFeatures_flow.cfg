SPECIFICATION Spec
CONSTANTS
    Threshold = 1
    Sizes = {1, 2}
    FlagSets <- SomeFlags
    Skew = 1
    MaxGap = 2
    MaxPackets = 4
INVARIANTS
    SizesForgetTheOrder
    TimesAddUp
\* The last packet ends the run.
CHECK_DEADLOCK FALSE
