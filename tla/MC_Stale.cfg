CONSTANTS
    NClients <- MC_TwoClients
    MaxClients <- MC_MaxClients
    DialAttempts <- MC_DialAttempts
    FailureWords <- MC_FailureWords
    MaxCalls <- MC_FourCalls
    MaxLeaderChanges <- MC_MaxLeaderChanges
    MaxCrashes <- MC_MaxCrashes
    CallerOps <- MC_StaleOps
    NoLeader = NoLeader
    Junk = Junk
SPECIFICATION Spec
INVARIANT StatementIsOwn
