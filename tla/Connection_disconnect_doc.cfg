SPECIFICATION ConnSpec
CONSTANTS
    ConnCall = {a1, a2}
    AuthSession = {s1}
    MaxConnCalls = 4
    MaxTokens = 3
    MaxConnFaults = 0
PROPERTY DisconnectIsFinal
CHECK_DEADLOCK FALSE
