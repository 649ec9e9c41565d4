\* Two calls at a time, a disk error, a restart.
CONSTANTS
    Ids = {"a", "b"}
    Channels = {"s"}
    Replayers = {r1, r2}
    Requests <- SomeIds
    RotateLines = 1
    MaxEntries = 3
    MaxReplays = 2
    MaxCrashes = 1
    MaxFaults = 1
CONSTRAINT ThreeAtATime
CHECK_DEADLOCK FALSE
SPECIFICATION Spec
INVARIANTS
    DLQInv
    ReadsAreFaithful
PROPERTIES
    NoTakeAfterMark
    ReplayEnds
