\* Three names: a variable list of every shape up to length three; failing updates.
CONSTANTS
    VariableNames = {a, b, c}
    VariableTypes = {"QUERY", "CUSTOM"}
    CycleNodes <- cycleNodes
    MaxPending = 1
    MaxRows = 3
    UpdatesFail = TRUE
SYMMETRY Symmetry
CONSTRAINT FewUnsavedRows
SPECIFICATION PageSpec
INVARIANTS
    DerivedDataIsRight
    CycleDetectionIsExact
    MessageNamesACycle
PROPERTIES
    NoCycleIsSent
