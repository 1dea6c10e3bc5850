CONSTANTS
    StationId <- MCStationId
    ObjIdx <- MCObjIdx
    Networks <- MCNetworks
    NoEdge = NoEdge
    UIntLimit = 16
    MaxSteps = 6
SPECIFICATION QuerySpec
INVARIANT ResultCorrect
CHECK_DEADLOCK FALSE
