CONSTANTS
    Keys = {1, 2, 3}
    Scope = {1, 2}
    Groups <- AllGroups
    MaxSeq = 4
    CopySeq = 3
    QueueCap = 2
    ChanCap = 1
    MaxEdgeFaults = 1
    RotateAt = 4
    MaxEvents = 1
    ChannelItems = 1
    Modes = {"direct", "feed", "edge", "journal"}
SPECIFICATION FairSpec
INVARIANTS SubscriptionGapFree StreamResolves FeedSnapshotsHold FeedIsGapFree EdgeViewIsACut JournalAlwaysRebuilds JournalKeepsReported
PROPERTIES EdgeNeverGoesBack ReplicaConverges JournalConverges
CHECK_DEADLOCK FALSE
