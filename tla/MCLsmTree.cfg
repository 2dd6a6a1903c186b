CONSTANTS
    r1 = r1
    r2 = r2
    w1 = w1
    w2 = w2
    Keys = {1, 2}
    Readers = {r1, r2}
    Writers = {w1, w2}
    MaxSeq = 4
    OptionSets <- Stores
SPECIFICATION FairSpec
INVARIANTS TypeOK RegistrableStatesIntact SnapshotsMatchHandles RecencyOrder FragmentsOrdered ConflictsStayVisible JobsInPlace
PROPERTIES ImplementsStore StallEnds PassEnds
CHECK_DEADLOCK FALSE
