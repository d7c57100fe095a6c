SPECIFICATION FairEmbeddedSpec
CONSTANTS
    Process = {p1}
    Call = {c1}
    MaxGenerations = 2
    MaxAttempts = 1
    RepairAttempts = 0
    MaxEmbeddedFaults = 0
PROPERTY ReadyWorkStarts
CHECK_DEADLOCK FALSE
