SPECIFICATION AllSpec
CONSTANTS
    c1 = c1
    c2 = c2
    s1 = s1
    s2 = s2
    NobodyRemote = NobodyRemote
    PushCall = {c1, c2}
    PushKey = {k1}
    MaxCommits = 4
    MaxForeign = 1
    MaxPushFaults = 1
    DeployCall = {c1, c2}
    DeployKey = {k1}
    MaxDeploys = 2
    MaxBuilds = 2
    MaxDeployFaults = 1
    ConnCall = {c1, c2}
    AuthSession = {s1, s2}
    MaxConnCalls = 4
    MaxTokens = 3
    MaxConnFaults = 1
    SbProc = {s1, s2}
    SbCall = {c1, c2}
    MaxSbCalls = 3
    MaxSbSessions = 3
    MaxSbFaults = 1
    RemoteWorker = {c1, c2}
    MaxRemoteDeltas = 2
    MaxRemoteFaults = 2
    MaxFailedCalls = 1
    MaxLog = 4
    DefaultEventLimit = 2
    MaxReconnects = 1
    MaxWire = 2
    MaxStreamFaults = 1
    MiddlewareCount = 2
    RowId = {1, 2, 3}
    MaxPageTime = 2
    MaxPending = 1
    Courier = {c1, c2}
    MaxLogged = 2
    MaxSends = 2
    PageLimit = 2
    MaxOutFaults = 1
    MaxRedrives = 1
SYMMETRY ProviderSymmetry
INVARIANT HistoryIsTrue
INVARIANT RecordsAreTrue
INVARIANT CredentialsAreSound
INVARIANT RunningIsAccountedFor
INVARIANT DeltasReachTheLog
INVARIANT StreamsAreFaithful
INVARIANT AnswersTellTheEffect
INVARIANT PagesAreFaithful
INVARIANT OutboundIsFaithful
PROPERTY BranchesOnlyGrow
PROPERTY RetriesRepeatNothing
PROPERTY OverPreviewsStayOver
CHECK_DEADLOCK FALSE
