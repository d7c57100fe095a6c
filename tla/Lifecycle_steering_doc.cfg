SPECIFICATION Spec
CONSTANTS
    NoGeneration = NoGeneration
    NoLane = NoLane
    Generation = {g1}
    Lane = {w1, w2}
    Steer = {s1}
    RepairAttempts = 1
    MaxAttempts = 3
    MaxVersions = 1
    MaxFaults = 1
PROPERTY SteeringReachesTheResult
CHECK_DEADLOCK FALSE
