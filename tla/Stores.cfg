SPECIFICATION AllSpec
CONSTANTS
    a1 = a1
    a2 = a2
    t1 = t1
    t2 = t2
    k1 = k1
    k2 = k2
    m1 = m1
    m2 = m2
    m3 = m3
    NoLocal = NoLocal
    NoProcess = NoProcess
    NoAction = NoAction
    LocalGeneration = {a1, a2}
    LocalToken = {t1, t2}
    LocalKey = {k1, k2}
    MaxLocalAttempts = 2
    MaxLocalVersions = 3
    MaxLocalEdits = 2
    MaxLocalRows = 2
    MaxLocalTries = 2
    SqProcess = {a1, a2}
    Value <- Rows
    First = {}
    Mutation <- Methods
    MaxRevision = 3
    ArtWriter = {a1, a2}
    ArtChat = {t1, t2}
    MaxArtifacts = 3
    MaxArtFaults = 1
    ToolRun = {a1, a2}
    ToolSlot = {t1, t2}
    ToolAction = {k1, k2}
    MaxToolAttempts = 3
    MaxToolCalls = 2
    MaxToolFaults = 1
    SrcPath = {a1, a2}
    SrcText = {t1, t2}
    MaxSources = 2
    MaxChanges = 2
    MaxAnswered = 1
    CheckConcurrency = 2
    FeedbackId = {1, 2}
    FeedbackKey = {"again"}
    MaxFeedbackTime = 1
    MaxRating = 2
    EnvName = {t1, t2}
    EnvCall = {a1, a2}
    MaxSecrets = 3
    MaxEnvFaults = 1
    ToolSource = {m1}
    SrcRun = {a1, a2}
    MaxEdits = 1
    MaxSelects = 2
    MaxOpened = 2
    MaxOpenFails = 1
SYMMETRY StoreSymmetry
INVARIANT LocalRowsAgree
INVARIANT CacheIsCurrent
INVARIANT BytesAgree
INVARIANT EffectsAreGoverned
INVARIANT SourcesAreKept
INVARIANT VotesAreCounted
INVARIANT VariablesAreSound
INVARIANT SourcesAreFaithful
PROPERTY LocalKeepsContract
PROPERTY ActsAsOneStore
CHECK_DEADLOCK FALSE
