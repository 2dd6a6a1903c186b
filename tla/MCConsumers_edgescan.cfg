CONSTANTS
    Keys = {1, 2, 3}
    Scope = {1, 2}
    Groups <- AllGroups
    MaxSeq = 2
    CopySeq = 2
    QueueCap = 1
    ChanCap = 1
    MaxEdgeFaults = 1
    RotateAt = 4
    MaxEvents = 1
    ChannelItems = 1
    Modes = {"edge"}
SPECIFICATION Spec
INVARIANT EdgeScanCoversFrontier
CHECK_DEADLOCK FALSE
