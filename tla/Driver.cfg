SPECIFICATION Spec
CONSTANTS
    NumBars = 3
    MapLimit = 16
    Resources <- MCResources
    VirtualAddrs = {v1, v2}
    NULL = NULL
    Requests <- MCRequests
    MaxPending = 1
INVARIANTS
    TypeOK
    AccessInWindow
    MappingsBalanced
    PresentBarsReported
