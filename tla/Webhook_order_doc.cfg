SPECIFICATION FairSpec
CONSTANTS
    Generation = {g1}
    Lane = {w1}
    NoGeneration = NoGeneration
    NoLane = NoLane
    MaxEvents = 2
    MaxTries = 1
    PageLimit = 2
    MaxRedrives = 0
    MaxHostChanges = 0
    MaxFaults = 0
PROPERTY LateEventsSettle
CHECK_DEADLOCK FALSE
