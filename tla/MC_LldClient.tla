---------------------------- MODULE MC_LldClient ----------------------------
(* Small instances of LldClient for TLC.                                   *)
EXTENDS LldClient, TLC

\* Three pool slots, three caller calls, two leadership changes, one crash;
\* the instances below vary the pool size, the calls and the entry points.
MC_NClients == 3
MC_MaxClients == 32
MC_DialAttempts == 2
MC_FailureWords == 2
MC_MaxCalls == 3
MC_MaxLeaderChanges == 2
MC_MaxCrashes == 1
MC_AllOps == {"exec", "query", "create", "open", "add", "remove",
             "getleader", "close"}
MC_DriverOps == {"open", "exec", "query"}
MC_PoolOps == {"open", "exec", "add", "close"}
MC_TwoClients == 2
MC_FourCalls == 4
MC_StaleOps == {"open", "add", "create"}
MC_OneClient == 1
MC_LeaderOps == {"getleader"}
MC_TwoCalls == 2
=============================================================================
