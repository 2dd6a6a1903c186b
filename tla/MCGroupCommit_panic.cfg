CONSTANTS
    c1 = c1
    c2 = c2
    c3 = c3
    k1 = k1
    k2 = k2
    big = big
    Clients = {c1, c2}
    Keys = {k1}
    TooBig = {}
    Footprints <- OneKey
    MaxSeq = 2
    Modes = {TRUE}
    Gc = FALSE
    Faults = FALSE
    Panics = TRUE
    Closes = FALSE
CHECK_DEADLOCK FALSE
SPECIFICATION FairSpec
PROPERTY CallsReturn
