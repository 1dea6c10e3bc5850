CONSTANTS
    StationId <- MCStationId
    LineId <- MCLineId
    RouteId <- MCRouteId
    LineInputs <- MCLineInputs
    Times <- MCTimes
    MaxRouteObjects = 6
    MaxPassengers = 1
    NoRoute = NoRoute
    NoEdge = NoEdge
SPECIFICATION LoadSpec
INVARIANT EdgeTimesConsistent
INVARIANT RouteTimeIsHopSum
CHECK_DEADLOCK FALSE
