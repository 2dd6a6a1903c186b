CONSTANTS
    Keys = {1, 2}
    MaxSeq = 3
    OptionSets <- KillingStores
SPECIFICATION ForkSpec
INVARIANT PayloadsBehindTables
CHECK_DEADLOCK FALSE
