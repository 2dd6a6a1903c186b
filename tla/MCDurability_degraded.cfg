CONSTANTS
    Keys = {1, 2}
    MaxSeq = 3
    OptionSets <- DegradingStores
SPECIFICATION ForkSpec
INVARIANT DegradedStoreServes
CHECK_DEADLOCK FALSE
