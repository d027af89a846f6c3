CONSTANTS
    NClients <- MC_NClients
    MaxClients <- MC_MaxClients
    DialAttempts <- MC_DialAttempts
    FailureWords <- MC_FailureWords
    MaxCalls <- MC_MaxCalls
    MaxLeaderChanges <- MC_MaxLeaderChanges
    MaxCrashes <- MC_MaxCrashes
    CallerOps <- MC_DriverOps
    NoLeader = NoLeader
    Junk = Junk
SPECIFICATION Spec
INVARIANT NoDuplicateExecution
