SPECIFICATION PartsSpec
CONSTANTS
    g1 = g1
    g2 = g2
    w1 = w1
    w2 = w2
    s1 = s1
    NoGeneration = NoGeneration
    NoLane = NoLane
    Generation = {g1, g2}
    Lane = {w1, w2}
    Steer = {s1}
    RepairAttempts = 1
    MaxAttempts = 3
    MaxVersions = 3
    MaxFaults = 1
INVARIANT TypeOK
INVARIANT ResultCommittedOnce
INVARIANT AttemptsTellTheHistory
INVARIANT NoSteeringLeftBehind
INVARIANT TasksMatchAttempts
INVARIANT NoTaskOpenInDeletedChat
INVARIANT FollowUpsEditTheIntendedResult
PROPERTY StaleRunsNeverCommit
PROPERTY LeaseNotStolen
PROPERTY OlderAttemptsImmutable
PROPERTY DeletedChatStaysQuiet
PROPERTY KeepsContract
SYMMETRY LifecycleSymmetry
CHECK_DEADLOCK FALSE
