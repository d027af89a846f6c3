CONSTANTS
    NClients <- MC_TwoClients
    MaxClients <- MC_MaxClients
    DialAttempts <- MC_DialAttempts
    FailureWords <- MC_FailureWords
    MaxCalls <- MC_TwoCalls
    MaxLeaderChanges <- MC_MaxLeaderChanges
    MaxCrashes <- MC_MaxCrashes
    CallerOps <- MC_AllOps
    NoLeader = NoLeader
    Junk = Junk
SPECIFICATION Spec
PROPERTY CallsComplete
