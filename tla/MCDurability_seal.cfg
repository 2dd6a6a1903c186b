CONSTANTS
    Keys = {1, 2}
    MaxSeq = 3
    OptionSets <- CrashingStores
SPECIFICATION ForkSpec
INVARIANT ReopenSucceeds
CHECK_DEADLOCK FALSE
