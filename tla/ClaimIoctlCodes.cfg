SPECIFICATION Spec
CONSTANTS
    NumBars = 6
    MapLimit = 16
    Resources <- GoyaResources
    VirtualAddrs = {v1, v2}
    NULL = NULL
    Requests <- AccessorRequests
    MaxPending = 1
    Offsets = {0, 4}
INVARIANT AccessorReachesDriver
