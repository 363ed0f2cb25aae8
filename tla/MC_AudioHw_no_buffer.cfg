CONSTANTS
    Outs = {o1}
    Ins = {i1}
    Ctl = ctl
    NULL = NULL
    DeepBuffer = {}
    OutOpenDevices <- MCOutOpenDevices
    OutRoutes <- MCOutRoutes
    InOpenDevices <- MCInOpenDevices
    InRoutes <- MCInRoutes
    InRates <- MCInRates
    Orientations <- MCOrientations
    AllocFail = TRUE
    MaxXrun = 1
SPECIFICATION Spec
INVARIANT NoResampleWithoutBuffer
