\* Both halves change; faults, stops, crashes and restarts.
CONSTANTS
    MaxChanges = 2
    MaxFaults = 1
    MaxStarts = 2
CHECK_DEADLOCK FALSE
SPECIFICATION Spec
INVARIANTS
    StateInv
PROPERTIES
    EventuallyStored
