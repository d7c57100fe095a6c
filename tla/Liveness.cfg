SPECIFICATION LiveSpec
CONSTANTS
    Generation = {g1, g2}
    First = g1
    Lane = {w1, w2}
    NoGeneration = NoGeneration
    NoLane = NoLane
    MaxEvents = 2
    MaxTries = 1
    PageLimit = 1
    MaxRedrives = 0
    MaxHostChanges = 0
    MaxFaults = 1
    Steer = {s1}
    RepairAttempts = 0
    MaxAttempts = 1
    MaxVersions = 1
PROPERTY EventuallySettles
PROPERTY EveryEventSettles
CHECK_DEADLOCK FALSE
