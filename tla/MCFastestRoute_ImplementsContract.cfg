CONSTANTS
    StationId <- MCStationId
    ObjIdx <- MCObjIdx
    Networks <- MCNetworks
    NoEdge = NoEdge
    UIntLimit <- MCUIntLimit
    MaxSteps = 6
SPECIFICATION QuerySpec
PROPERTY ImplementsContract
CHECK_DEADLOCK FALSE
