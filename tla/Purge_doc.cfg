SPECIFICATION LocalSpec
CONSTANTS
    LocalGeneration = {a1}
    LocalToken = {t1}
    LocalKey = {k1}
    NoLocal = NoLocal
    MaxLocalAttempts = 2
    MaxLocalVersions = 2
    MaxLocalEdits = 1
    MaxLocalRows = 2
    MaxLocalTries = 1
INVARIANT PurgeLeavesNothing
CHECK_DEADLOCK FALSE
