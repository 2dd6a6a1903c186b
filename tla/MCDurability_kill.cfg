CONSTANTS
    Keys = {1, 2}
    MaxSeq = 3
    OptionSets <- KillingStores
SPECIFICATION ForkSpec
INVARIANT CrashesDoNoDamage
CHECK_DEADLOCK FALSE
