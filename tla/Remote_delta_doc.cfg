SPECIFICATION RemoteSpec
CONSTANTS
    RemoteWorker = {w1, w2}
    NobodyRemote = NobodyRemote
    MaxRemoteDeltas = 2
    MaxRemoteFaults = 2
    MaxFailedCalls = 0
INVARIANT DeltasAreCopied
CHECK_DEADLOCK FALSE
