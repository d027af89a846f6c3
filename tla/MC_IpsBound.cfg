CONSTANTS
    MaxServers <- MC_MaxServers
    MaxLineSize <- MC_MaxLineSize
    Files <- MC_ManyLineFiles
    Urls <- MC_OneUrl
    NoFile = NoFile
    NUL = NUL
    NL = NL
SPECIFICATION Spec
INVARIANT IpsInArray
