CONSTANTS
    Outs = {o1, o2}
    Ins = {i1}
    Ctl = ctl
    NULL = NULL
    DeepBuffer = {o2}
    OutOpenDevices <- MCOutOpenDevices
    OutRoutes <- MCOutRoutesNoHdmi
    InOpenDevices <- MCInOpenDevices
    InRoutes <- MCInRoutes
    InRates <- MCInRates
    Orientations <- MCOrientations
    AllocFail = FALSE
    MaxXrun = 1
SPECIFICATION Spec
INVARIANT RateFamilyExclusion
