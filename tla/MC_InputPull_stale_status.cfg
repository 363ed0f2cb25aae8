CONSTANTS
    Period <- MCPeriod
    PcmRate <- MCPcmRate
    ReqRate <- MCReqRate
    Requests <- MCRequestsVaried
    SizeWidth <- MCSizeWidth
SPECIFICATION Spec
INVARIANT ReadErrorIsCurrent
