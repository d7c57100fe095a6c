SPECIFICATION WorkersSpec
CONSTANTS
    Generation = {g1}
    Lane = {w1, w2}
    NoGeneration = NoGeneration
    NoLane = NoLane
    MaxEvents = 2
    MaxTries = 2
    PageLimit = 2
    MaxRedrives = 1
    MaxHostChanges = 1
    MaxFaults = 1
    MaxUpsets = 2
    Process = {p1}
    Call = {c1, c2}
    MaxGenerations = 2
    MaxAttempts = 2
    RepairAttempts = 1
    MaxEmbeddedFaults = 1
SYMMETRY WorkerSymmetry
INVARIANT NothingSkipped
INVARIANT RunsAreInHand
PROPERTY FirstDeliveryInOrder
PROPERTY DeliveredForGood
CHECK_DEADLOCK FALSE
