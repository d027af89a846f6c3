CONSTANTS
    MaxServers <- MC_MaxServers
    MaxLineSize <- MC_MaxLineSize
    Files <- MC_Files
    Urls <- MC_Urls
    NoFile = NoFile
    NUL = NUL
    NL = NL
SPECIFICATION Spec
INVARIANT HostTerminated
