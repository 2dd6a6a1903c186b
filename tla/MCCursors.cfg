CONSTANTS
    Keys = {1, 2}
    MaxOps = 4
    MaxInserts = 1
    BlockLen = 2
    Prefetch = 1
    Cuts <- SmallCuts
    Snaps = {3}
    Overlays <- SmallOverlays
    Caps = {1, 3}
    MaxErrors = 1
SPECIFICATION Spec
INVARIANTS ScansAreExact GetsAgree
CHECK_DEADLOCK FALSE
