CONSTANTS
    c1 = c1
    c2 = c2
    c3 = c3
    k1 = k1
    k2 = k2
    big = big
    Clients = {c1, c2}
    Keys = {k1, k2, big}
    TooBig = {big}
    Footprints <- WriteSkew
    MaxSeq = 3
    Modes = {TRUE, FALSE}
    Gc = TRUE
    Faults = TRUE
    Panics = TRUE
    Closes = TRUE
SPECIFICATION FairSpec
INVARIANTS TypeOK FirstCommitterWins SeqnosContiguous AppliedOnce AnswersAreTrue RequestNumbersUnique
PROPERTIES CallsAnswered CloseCompletes
CHECK_DEADLOCK FALSE
