CONSTANTS
    Keys = {1, 2}
    MaxSeq = 3
    OptionSets <- Stores
SPECIFICATION ForkSpec
INVARIANTS TypeOK ReadsResolve DamageNeedsFailure ArchivesAreCuts
PROPERTIES PromisesKept RecoversPrefix
CHECK_DEADLOCK FALSE
