-------------------------- MODULE TransportNetwork --------------------------
(***************************************************************************)
(* The topology store, edge index and passenger counter of                 *)
(* NetworkMonitor::TransportNetwork (src/src/transport-network.cpp).        *)
(*                                                                         *)
(* The code keeps stations in stations_ (id -> GraphNode), lines in        *)
(* lines_ (id -> LineInternal, each holding id -> RouteInternal), and      *)
(* every GraphNode holds a vector of GraphEdge (route, nextStop,           *)
(* travelTime).  Routes and edges are shared_ptr objects compared by       *)
(* pointer.  The model gives every RouteInternal object a slot of an       *)
(* arena 1..MaxRouteObjects; an edge is identified by the station that     *)
(* holds it and the slot of its route.  A station holds at most one edge   *)
(* per route object (stops are distinct), and edges are appended in the    *)
(* order their route objects are created, so the order of the vector      *)
(* GraphNode::edges is the order of the slots.                             *)
(***************************************************************************)
EXTENDS Integers, Sequences, FiniteSets

CONSTANTS
    StationId,        \* station ids that can appear in calls
    LineId,           \* line ids
    RouteId,          \* route ids
    LineInputs,       \* the Line arguments AddLine may be called with
    Times,            \* travel times SetTravelTime may be called with
    MaxRouteObjects,  \* bound: RouteInternal objects ever created
    MaxPassengers,    \* bound: |passengerCount| at a station
    NoRoute,          \* an empty arena slot
    NoEdge            \* no edge for this route object at this station

RouteIn == [id : RouteId, stops : Seq(StationId)]
LineIn  == [id : LineId, routes : Seq(RouteIn)]

(* The header requires Line arguments to be well formed: every route has  *)
(* at least two stops and no stop twice.  Stops need not be stations yet: *)
(* AddRouteToLine checks that, and it is an error path of AddLine.        *)
ASSUME InputsAssumption ==
    /\ LineInputs \subseteq LineIn
    /\ \A l \in LineInputs : \A j \in 1..Len(l.routes) :
          LET st == l.routes[j].stops IN
          /\ Len(st) >= 2
          /\ \A i, k \in 1..Len(st) : st[i] = st[k] => i = k
    /\ Times \subseteq Nat

ASSUME BoundsAssumption ==
    /\ MaxRouteObjects \in Nat
    /\ MaxPassengers \in Nat

ObjIdx   == 1..MaxRouteObjects
RouteRec == [id : RouteId, line : LineId, stops : Seq(StationId)]
EdgeRec  == [next : StationId, time : Nat]

ASSUME NullAssumption ==
    /\ NoRoute \notin RouteRec
    /\ NoEdge \notin EdgeRec

VARIABLES
    stations,    \* keys of stations_
    passengers,  \* GraphNode::passengerCount of every station
    lineIds,     \* keys of lines_
    lineRoutes,  \* LineInternal::routes of a registered line, as slots
    nSlots,      \* arena slots handed out so far
    route,       \* RouteInternal object in each slot: id, line->id, stops
    edge         \* edge[s][o]: the GraphEdge of route object o at station s

vars == <<stations, passengers, lineIds, lineRoutes, nSlots, route, edge>>

TypeOK ==
    /\ stations \subseteq StationId
    /\ passengers \in [StationId -> -MaxPassengers..MaxPassengers]
    /\ lineIds \subseteq LineId
    /\ lineRoutes \in [LineId -> SUBSET ObjIdx]
    /\ nSlots \in 0..MaxRouteObjects
    /\ route \in [ObjIdx -> RouteRec \cup {NoRoute}]
    /\ edge \in [StationId -> [ObjIdx -> EdgeRec \cup {NoEdge}]]

Init ==
    /\ stations = {}
    /\ passengers = [s \in StationId |-> 0]
    /\ lineIds = {}
    /\ lineRoutes = [l \in LineId |-> {}]
    /\ nSlots = 0
    /\ route = [o \in ObjIdx |-> NoRoute]
    /\ edge = [s \in StationId |-> [o \in ObjIdx |-> NoEdge]]

-----------------------------------------------------------------------------
(* Helpers. *)

(* s is a stop of a route with a following stop, i.e. it gets an edge. *)
IsNonTerminal(stops, s) == \E i \in 1..Len(stops) - 1 : stops[i] = s

(* The stop after s in a route (stops are distinct). *)
NextStop(stops, s) == stops[(CHOOSE i \in 1..Len(stops) - 1 : stops[i] = s) + 1]

(* Station x has an edge of route object o whose nextStop is y. *)
EdgeTo(x, y, o) == edge[x][o] # NoEdge /\ edge[x][o].next = y

(* The first edge of x whose nextStop is y, in the order of x's vector. *)
FirstEdgeTo(x, y) ==
    CHOOSE o \in ObjIdx : EdgeTo(x, y, o) /\ \A p \in 1..o - 1 : ~EdgeTo(x, y, p)

(* AddRouteToLine fails on the j-th route of the line: its id was already *)
(* added to this LineInternal, or one of its stops is not a station.      *)
RouteFails(line, j) ==
    \/ \E k \in 1..j - 1 : line.routes[k].id = line.routes[j].id
    \/ \E i \in 1..Len(line.routes[j].stops) :
          line.routes[j].stops[i] \notin stations

(* The loop of AddLine reaches and completes route j: no route up to j fails. *)
Added(line, j) == \A k \in 1..j : ~RouteFails(line, k)

-----------------------------------------------------------------------------
(* Operations. *)

(* AddStation: a new GraphNode with no passengers and no edges. *)
AddStation(s) ==
    /\ s \notin stations
    /\ stations' = stations \cup {s}
    /\ passengers' = [passengers EXCEPT ![s] = 0]
    /\ UNCHANGED <<lineIds, lineRoutes, nSlots, route, edge>>

(* AddLine: a LineInternal is made, then AddRouteToLine runs for every    *)
(* route in order and the loop returns false at the first failing one.    *)
(* Each route that passes creates its RouteInternal and appends one edge  *)
(* (travel time 0) to each of its non-terminal stops; these stay in the   *)
(* station nodes when a later route fails.  The line is put in lines_     *)
(* only when all routes passed.  A call for a line id already in lines_   *)
(* returns false with no effect (a stutter step).  Route j of the call    *)
(* gets slot nSlots + j.                                                  *)
AddLine(line) ==
    LET rs == line.routes
        New(o) == o - nSlots \in 1..Len(rs) /\ Added(line, o - nSlots)
        StopsOf(o) == rs[o - nSlots].stops
    IN
    /\ line.id \notin lineIds
    /\ nSlots + Len(rs) <= MaxRouteObjects
    /\ route' = [o \in ObjIdx |->
                   IF New(o)
                   THEN [id |-> rs[o - nSlots].id, line |-> line.id,
                         stops |-> StopsOf(o)]
                   ELSE route[o]]
    /\ edge' = [s \in StationId |-> [o \in ObjIdx |->
                  IF New(o) /\ IsNonTerminal(StopsOf(o), s)
                  THEN [next |-> NextStop(StopsOf(o), s), time |-> 0]
                  ELSE edge[s][o]]]
    /\ nSlots' = nSlots + Len(rs)
    /\ IF Added(line, Len(rs))
       THEN /\ lineIds' = lineIds \cup {line.id}
            /\ lineRoutes' = [lineRoutes EXCEPT ![line.id] =
                                {nSlots + j : j \in 1..Len(rs)}]
       ELSE UNCHANGED <<lineIds, lineRoutes>>
    /\ UNCHANGED <<stations, passengers>>

(* RecordPassengerEvent: In increments, Out decrements the count of a     *)
(* known station; an unknown station returns false with no effect.        *)
RecordPassengerEvent(s, type) ==
    LET delta == IF type = "In" THEN 1 ELSE -1 IN
    /\ s \in stations
    /\ passengers[s] + delta \in -MaxPassengers..MaxPassengers
    /\ passengers' = [passengers EXCEPT ![s] = @ + delta]
    /\ UNCHANGED <<stations, lineIds, lineRoutes, nSlots, route, edge>>

(* SetTravelTime finds an edge between a and b, in either direction.      *)
FoundAnyEdge(a, b) == \E o \in ObjIdx : EdgeTo(a, b, o) \/ EdgeTo(b, a, o)

(* Mutant: the lambda is called for a -> b only, not for b -> a. *)
SetTravelTimeOneWay(a, b, t) ==
    /\ a \in stations /\ b \in stations
    /\ FoundAnyEdge(a, b)
    /\ edge' = [s \in StationId |-> [o \in ObjIdx |->
                  IF s = a /\ EdgeTo(a, b, o)
                  THEN [edge[s][o] EXCEPT !.time = t]
                  ELSE edge[s][o]]]
    /\ UNCHANGED <<stations, passengers, lineIds, lineRoutes, nSlots, route>>

(* Mutant: the lambda stops at the first matching edge of each station. *)
SetTravelTimeFirstOnly(a, b, t) ==
    /\ a \in stations /\ b \in stations
    /\ FoundAnyEdge(a, b)
    /\ edge' = [s \in StationId |-> [o \in ObjIdx |->
                  IF \/ s = a /\ EdgeTo(a, b, o) /\ o = FirstEdgeTo(a, b)
                     \/ s = b /\ EdgeTo(b, a, o) /\ o = FirstEdgeTo(b, a)
                  THEN [edge[s][o] EXCEPT !.time = t]
                  ELSE edge[s][o]]]
    /\ UNCHANGED <<stations, passengers, lineIds, lineRoutes, nSlots, route>>

(* SetTravelTime: every edge a -> b and every edge b -> a gets time t.    *)
(* With no such edge nothing changes and the call returns false.          *)
SetTravelTime(a, b, t) ==
    /\ a \in stations /\ b \in stations
    /\ FoundAnyEdge(a, b)
    /\ edge' = [s \in StationId |-> [o \in ObjIdx |->
                  IF (s = a /\ EdgeTo(a, b, o)) \/ (s = b /\ EdgeTo(b, a, o))
                  THEN [edge[s][o] EXCEPT !.time = t]
                  ELSE edge[s][o]]]
    /\ UNCHANGED <<stations, passengers, lineIds, lineRoutes, nSlots, route>>

Next ==
    \/ \E s \in StationId : AddStation(s)
    \/ \E l \in LineInputs : AddLine(l)
    \/ \E s \in StationId, ty \in {"In", "Out"} : RecordPassengerEvent(s, ty)
    \/ \E a, b \in StationId, t \in Times : SetTravelTime(a, b, t)

Spec == Init /\ [][Next]_vars

-----------------------------------------------------------------------------
(* Queries (const methods: they change no state). *)

(* GetTravelTime(A, B): the first edge A -> B, else the first B -> A. *)
GetTravelTime(a, b) ==
    IF a \notin stations \/ b \notin stations THEN 0
    ELSE IF \E o \in ObjIdx : EdgeTo(a, b, o) THEN edge[a][FirstEdgeTo(a, b)].time
    ELSE IF \E o \in ObjIdx : EdgeTo(b, a, o) THEN edge[b][FirstEdgeTo(b, a)].time
    ELSE 0

(* GetRoute(line, route): the route object registered under that id in *)
(* the registered line, 0 for nullptr.                                  *)
GetRoute(l, r) ==
    IF l \in lineIds /\ \E o \in lineRoutes[l] : route[o].id = r
    THEN CHOOSE o \in lineRoutes[l] : route[o].id = r
    ELSE 0

(* GetTravelTime(line, route, A, B): walks the stops of the route; from  *)
(* A on it adds the time of the stop's edge for this route object, and   *)
(* returns the sum on reaching B.  A missing edge returns 0; reaching    *)
(* the end without B returns 0.  walk[i] is the loop state after stop i. *)
GetTravelTimeOnRoute(l, r, a, b) ==
    LET o == GetRoute(l, r)
        st == route[o].stops
        walk[i \in 0..Len(st)] ==
            IF i = 0 THEN [foundA |-> FALSE, acc |-> 0, ret |-> -1]
            ELSE LET w == walk[i - 1]
                     fa == w.foundA \/ st[i] = a
                 IN IF w.ret # -1 THEN w
                    ELSE IF st[i] = b THEN [w EXCEPT !.ret = w.acc]
                    ELSE IF ~fa THEN w
                    ELSE IF edge[st[i]][o] = NoEdge THEN [w EXCEPT !.ret = 0]
                    ELSE [foundA |-> TRUE, acc |-> w.acc + edge[st[i]][o].time,
                          ret |-> -1]
    IN IF o = 0 \/ a \notin stations \/ b \notin stations THEN 0
       ELSE IF walk[Len(st)].ret = -1 THEN 0 ELSE walk[Len(st)].ret

(* The route objects reachable from lines_. *)
RegisteredSlots == UNION {lineRoutes[l] : l \in lineIds}

(* Mutant: the corner-case loop over the routes' end stops is missing. *)
GetRoutesServingStationEdgesOnly(s) ==
    IF s \notin stations THEN {}
    ELSE {route[o].id : o \in {p \in ObjIdx : edge[s][p] # NoEdge}}

(* GetRoutesServingStation: the route of every edge leaving the station, *)
(* and every registered route whose last stop is the station.  The code  *)
(* returns a vector; the model keeps the set of its ids.                 *)
GetRoutesServingStation(s) ==
    IF s \notin stations THEN {}
    ELSE {route[o].id : o \in {p \in ObjIdx : edge[s][p] # NoEdge}}
         \cup {route[o].id : o \in {p \in RegisteredSlots :
                   route[p].stops[Len(route[p].stops)] = s}}

-----------------------------------------------------------------------------
(* Properties. *)

(* I6, which GetTravelTime(A, B) relies on when it returns the first edge  *)
(* it finds: all directed edges between two stations, of any route and in *)
(* either direction, carry the same travel time.                          *)
EdgeTimesConsistent ==
    \A x, y \in StationId, o, p \in ObjIdx :
        /\ EdgeTo(x, y, o) /\ EdgeTo(x, y, p) => edge[x][o].time = edge[x][p].time
        /\ EdgeTo(x, y, o) /\ EdgeTo(y, x, p) => edge[x][o].time = edge[y][p].time

(* Spec section 8: GetTravelTime(A, B) = GetTravelTime(B, A) for every   *)
(* pair of stations, whatever calls came before.                         *)
TravelTimeSymmetric ==
    \A a, b \in StationId : GetTravelTime(a, b) = GetTravelTime(b, a)

(* The sum of GetTravelTime over the hops from stop i to stop j of a route. *)
HopSum(st, i, j) ==
    LET h[k \in i..j] == IF k = i THEN 0
                         ELSE h[k - 1] + GetTravelTime(st[k - 1], st[k])
    IN h[j]

(* Spec section 8: walking a registered route from stop i to stop j with *)
(* GetTravelTime(line, route, A, B), which reads the route's own edges,  *)
(* gives the sum of the adjacent-station times GetTravelTime(A, B),      *)
(* which reads the first edge between the two stations of any route.     *)
RouteTimeIsHopSum ==
    \A l \in lineIds : \A o \in lineRoutes[l] :
        LET st == route[o].stops IN
        \A i, j \in 1..Len(st) :
            i <= j => GetTravelTimeOnRoute(l, route[o].id, st[i], st[j])
                        = HopSum(st, i, j)

(* Spec 4.1 key policy: GetRoutesServingStation lists every registered    *)
(* route at each of its stops, its terminal stop included, which has no  *)
(* edge for the route.                                                    *)
RoutesServingComplete ==
    \A o \in RegisteredSlots : \A i \in 1..Len(route[o].stops) :
        route[o].id \in GetRoutesServingStation(route[o].stops[i])

(* Spec 4.1: AddLine is atomic, a line that fails leaves no trace; so     *)
(* every route GetRoutesServingStation lists is a route of a registered  *)
(* line that stops at the station.                                        *)
RoutesServingSound ==
    \A s \in StationId : \A r \in GetRoutesServingStation(s) :
        \E o \in RegisteredSlots :
            route[o].id = r /\ \E i \in 1..Len(route[o].stops) : route[o].stops[i] = s

-----------------------------------------------------------------------------
(* The inductive invariant behind RoutesServingComplete: a registered     *)
(* route object was created before the arena's next slot, so no later     *)
(* AddLine writes over it; its stops are stations; and each of its        *)
(* non-terminal stops holds an edge of it, which SetTravelTime retimes    *)
(* but never removes.                                                      *)

RegisteredBelow == \A l \in lineIds : lineRoutes[l] \subseteq 1..nSlots

RouteWellFormed(o) ==
    /\ route[o] # NoRoute
    /\ Len(route[o].stops) >= 1
    /\ \A i \in 1..Len(route[o].stops) : route[o].stops[i] \in stations
    /\ \A i \in 1..Len(route[o].stops) - 1 : edge[route[o].stops[i]][o] # NoEdge

RegisteredWellFormed == \A o \in RegisteredSlots : RouteWellFormed(o)

ServingInv == TypeOK /\ RegisteredBelow /\ RegisteredWellFormed

=============================================================================
