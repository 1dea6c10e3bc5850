CONSTANTS
    StationId <- MCStationId
    ObjIdx <- MCObjIdx
    Networks <- MCNetworks
    NoEdge = NoEdge
    UIntLimit <- MCUIntLimit
    MaxSteps = 6
SPECIFICATION QuerySpec
INVARIANT ResultCorrect
INVARIANT StepsFormWalk
INVARIANT StepsTotalIsCost
INVARIANT WalkBackDefined
PROPERTY Termination
CHECK_DEADLOCK FALSE
