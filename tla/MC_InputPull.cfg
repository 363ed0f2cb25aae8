CONSTANTS
    Period <- MCPeriod
    PcmRate <- MCPcmRate
    ReqRate <- MCReqRate
    Requests <- MCRequestsVaried
    SizeWidth <- MCSizeWidth
SPECIFICATION Spec
INVARIANTS
    TypeOK
    PullGapFree
PROPERTIES
    ReadFramesReturns
