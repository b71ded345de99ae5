SPECIFICATION FairSpec
INVARIANTS Served ConfigLoaded
PROPERTIES Returns Implements
\* With the calls used up, a daemon has nothing left to do.
CHECK_DEADLOCK FALSE
CONSTANTS
    c1 = c1
    c2 = c2
    Clients = {c1, c2}
    ClientPath <- Shared
    ServerPath <- Socket
    Calls <- McCalls
    Files <- McFiles
    Remote <- McRemote
    Nobody = Nobody
    Backlog = 2
    MaxCalls = 3
    MaxStarts = 2
    MaxFaults = 1
    MaxSrvcAddrs = 2
    MaxKeyWords = 4
