------------------------- MODULE TransportNetworkProofs -------------------------
(***************************************************************************)
(* Proofs about TransportNetwork and NetworkLoader, for every value of the *)
(* constants that satisfies their assumptions.                             *)
(***************************************************************************)
EXTENDS NetworkLoader, TLAPS

USE InputsAssumption, BoundsAssumption, NullAssumption

(* A Line argument's routes are route inputs. *)
LEMMA LineInputRoutes ==
    ASSUME NEW line \in LineInputs
    PROVE  /\ line.id \in LineId
           /\ line.routes \in Seq(RouteIn)
BY DEF LineIn

(* The stop NextStop picks after a non-terminal stop is a station id. *)
LEMMA NextStopType ==
    ASSUME NEW stops \in Seq(StationId), NEW s, IsNonTerminal(stops, s)
    PROVE  NextStop(stops, s) \in StationId
<1>1. PICK i \in 1..Len(stops) - 1 : stops[i] = s
  BY DEF IsNonTerminal
<1>2. (CHOOSE k \in 1..Len(stops) - 1 : stops[k] = s) \in 1..Len(stops) - 1
  BY <1>1
<1>. QED BY <1>2 DEF NextStop

-----------------------------------------------------------------------------
(* Type correctness of the network operations. *)

LEMMA InitTypeOK == Init => TypeOK
BY DEF Init, TypeOK, ObjIdx

LEMMA AddStationTypeOK ==
    ASSUME TypeOK, NEW s \in StationId, AddStation(s)
    PROVE  TypeOK'
BY DEF TypeOK, AddStation

LEMMA AddLineTypeOK ==
    ASSUME TypeOK, NEW line \in LineInputs, AddLine(line)
    PROVE  TypeOK'
<1>. DEFINE rs == line.routes
<1>1. rs \in Seq(RouteIn) /\ line.id \in LineId
  BY LineInputRoutes
<1>2. nSlots' = nSlots + Len(rs) /\ nSlots + Len(rs) <= MaxRouteObjects
  BY DEF AddLine
<1>3. nSlots' \in 0..MaxRouteObjects
  BY <1>1, <1>2 DEF TypeOK
<1>4. route' \in [ObjIdx -> RouteRec \cup {NoRoute}]
  <2>. SUFFICES ASSUME NEW o \in ObjIdx, o - nSlots \in 1..Len(rs)
                PROVE  [id |-> rs[o - nSlots].id, line |-> line.id,
                        stops |-> rs[o - nSlots].stops] \in RouteRec
    BY DEF AddLine, TypeOK
  <2>1. rs[o - nSlots] \in RouteIn
    BY <1>1
  <2>. QED BY <2>1, <1>1 DEF RouteIn, RouteRec
<1>5. edge' \in [StationId -> [ObjIdx -> EdgeRec \cup {NoEdge}]]
  <2>. SUFFICES ASSUME NEW s \in StationId, NEW o \in ObjIdx,
                       o - nSlots \in 1..Len(rs),
                       IsNonTerminal(rs[o - nSlots].stops, s)
                PROVE  [next |-> NextStop(rs[o - nSlots].stops, s), time |-> 0]
                         \in EdgeRec
    BY DEF AddLine, TypeOK
  <2>0. rs[o - nSlots] \in RouteIn
    BY <1>1
  <2>1. rs[o - nSlots].stops \in Seq(StationId)
    BY <2>0 DEF RouteIn
  <2>. QED BY <2>1, NextStopType DEF EdgeRec
<1>6. lineIds' \subseteq LineId /\ lineRoutes' \in [LineId -> SUBSET ObjIdx]
  <2>1. {nSlots + j : j \in 1..Len(rs)} \subseteq ObjIdx
    BY <1>1, <1>2 DEF TypeOK, ObjIdx
  <2>. QED BY <1>1, <2>1 DEF AddLine, TypeOK
<1>. QED BY <1>3, <1>4, <1>5, <1>6 DEF AddLine, TypeOK

LEMMA RecordPassengerEventTypeOK ==
    ASSUME TypeOK, NEW s \in StationId, NEW ty, RecordPassengerEvent(s, ty)
    PROVE  TypeOK'
BY DEF TypeOK, RecordPassengerEvent

LEMMA SetTravelTimeTypeOK ==
    ASSUME TypeOK, NEW a \in StationId, NEW b \in StationId, NEW t \in Times,
           SetTravelTime(a, b, t)
    PROVE  TypeOK'
<1>1. ASSUME NEW s \in StationId, NEW o \in ObjIdx,
             (s = a /\ EdgeTo(a, b, o)) \/ (s = b /\ EdgeTo(b, a, o))
      PROVE  [edge[s][o] EXCEPT !.time = t] \in EdgeRec
  <2>1. edge[s][o] \in EdgeRec
    BY <1>1 DEF EdgeTo, TypeOK
  <2>. QED BY <2>1 DEF EdgeRec
<1>. QED BY <1>1 DEF SetTravelTime, TypeOK

LEMMA NextTypeOK == TypeOK /\ [Next]_vars => TypeOK'
<1>. SUFFICES ASSUME TypeOK, [Next]_vars PROVE TypeOK'
  OBVIOUS
<1>1. CASE \E s \in StationId : AddStation(s)
  BY <1>1, AddStationTypeOK
<1>2. CASE \E l \in LineInputs : AddLine(l)
  BY <1>2, AddLineTypeOK
<1>3. CASE \E s \in StationId, ty \in {"In", "Out"} : RecordPassengerEvent(s, ty)
  BY <1>3, RecordPassengerEventTypeOK
<1>4. CASE \E a, b \in StationId, t \in Times : SetTravelTime(a, b, t)
  BY <1>4, SetTravelTimeTypeOK
<1>5. CASE UNCHANGED vars
  BY <1>5 DEF TypeOK, vars
<1>. QED BY <1>1, <1>2, <1>3, <1>4, <1>5 DEF Next

(* Every state of the network, under any sequence of API calls, has the  *)
(* types TypeOK states.                                                  *)
THEOREM TypeCorrect == Spec => []TypeOK
BY InitTypeOK, NextTypeOK, PTL DEF Spec

-----------------------------------------------------------------------------
(* I6 under FromJson.  EdgeTimesConsistent alone is not inductive: AddLine *)
(* appends edges with time 0 next to edges that may carry another time.    *)
(* It is preserved because FromJson adds every line before it sets any    *)
(* travel time, so while lines are added all times are still 0.           *)

AllTimesZero ==
    \A s \in StationId, o \in ObjIdx : edge[s][o] # NoEdge => edge[s][o].time = 0

LoadInv ==
    /\ LoadTypeOK
    /\ EdgeTimesConsistent
    /\ phase \in {"stations", "lines", "failed"} => AllTimesZero

LEMMA AllTimesZeroConsistent == TypeOK /\ AllTimesZero => EdgeTimesConsistent
BY DEF AllTimesZero, EdgeTimesConsistent, EdgeTo

(* AddLine gives its new edges time 0 and leaves the others alone. *)
LEMMA AddLineAllTimesZero ==
    ASSUME TypeOK, AllTimesZero, NEW line \in LineInputs, AddLine(line)
    PROVE  AllTimesZero'
<1>. SUFFICES ASSUME NEW s \in StationId, NEW o \in ObjIdx, edge'[s][o] # NoEdge
              PROVE  edge'[s][o].time = 0
  BY DEF AllTimesZero
<1>. QED BY DEF AddLine, AllTimesZero

(* SetTravelTime keeps every edge and its nextStop, and gives time t to *)
(* exactly the edges a -> b and b -> a.                                 *)
LEMMA SetTravelTimeEffect ==
    ASSUME TypeOK, NEW a \in StationId, NEW b \in StationId, NEW t \in Times,
           SetTravelTime(a, b, t),
           NEW x \in StationId, NEW y \in StationId, NEW o \in ObjIdx
    PROVE  /\ EdgeTo(x, y, o)' <=> EdgeTo(x, y, o)
           /\ EdgeTo(x, y, o) =>
                 edge'[x][o].time = IF (x = a /\ y = b) \/ (x = b /\ y = a)
                                    THEN t ELSE edge[x][o].time
<1>1. edge[x][o] \in EdgeRec \cup {NoEdge}
  BY DEF TypeOK
<1>2. edge'[x][o] = IF (x = a /\ EdgeTo(a, b, o)) \/ (x = b /\ EdgeTo(b, a, o))
                    THEN [edge[x][o] EXCEPT !.time = t] ELSE edge[x][o]
  BY DEF SetTravelTime
<1>. QED BY <1>1, <1>2 DEF EdgeTo, EdgeRec

LEMMA SetTravelTimeConsistent ==
    ASSUME TypeOK, EdgeTimesConsistent,
           NEW a \in StationId, NEW b \in StationId, NEW t \in Times,
           SetTravelTime(a, b, t)
    PROVE  EdgeTimesConsistent'
<1>. SUFFICES ASSUME NEW x \in StationId, NEW y \in StationId,
                     NEW o \in ObjIdx, NEW p \in ObjIdx
              PROVE  /\ EdgeTo(x, y, o)' /\ EdgeTo(x, y, p)'
                          => edge'[x][o].time = edge'[x][p].time
                     /\ EdgeTo(x, y, o)' /\ EdgeTo(y, x, p)'
                          => edge'[x][o].time = edge'[y][p].time
  BY DEF EdgeTimesConsistent
<1>1. /\ EdgeTo(x, y, o)' <=> EdgeTo(x, y, o)
      /\ EdgeTo(x, y, o) =>
            edge'[x][o].time = IF (x = a /\ y = b) \/ (x = b /\ y = a)
                               THEN t ELSE edge[x][o].time
  BY SetTravelTimeEffect
<1>2. /\ EdgeTo(x, y, p)' <=> EdgeTo(x, y, p)
      /\ EdgeTo(x, y, p) =>
            edge'[x][p].time = IF (x = a /\ y = b) \/ (x = b /\ y = a)
                               THEN t ELSE edge[x][p].time
  BY SetTravelTimeEffect
<1>3. /\ EdgeTo(y, x, p)' <=> EdgeTo(y, x, p)
      /\ EdgeTo(y, x, p) =>
            edge'[y][p].time = IF (y = a /\ x = b) \/ (y = b /\ x = a)
                               THEN t ELSE edge[y][p].time
  BY SetTravelTimeEffect
<1>4. /\ EdgeTo(x, y, o) /\ EdgeTo(x, y, p) => edge[x][o].time = edge[x][p].time
      /\ EdgeTo(x, y, o) /\ EdgeTo(y, x, p) => edge[x][o].time = edge[y][p].time
  BY DEF EdgeTimesConsistent
<1>. QED BY <1>1, <1>2, <1>3, <1>4

(* A step that leaves edge alone keeps both edge properties. *)
LEMMA EdgeUnchanged ==
    ASSUME edge' = edge
    PROVE  /\ EdgeTimesConsistent' = EdgeTimesConsistent
           /\ AllTimesZero' = AllTimesZero
BY DEF EdgeTimesConsistent, AllTimesZero, EdgeTo

LEMMA LoadInitInv == LoadInit => LoadInv
<1>. SUFFICES ASSUME LoadInit PROVE LoadInv
  OBVIOUS
<1>1. TypeOK BY InitTypeOK DEF LoadInit
<1>2. AllTimesZero BY DEF LoadInit, Init, AllTimesZero
<1>3. EdgeTimesConsistent BY <1>1, <1>2, AllTimesZeroConsistent
<1>4. phase \in Phases /\ ok \in BOOLEAN BY DEF LoadInit, Phases
<1>. QED BY <1>1, <1>2, <1>3, <1>4 DEF LoadInv, LoadTypeOK

LEMMA LoadNextInv == LoadInv /\ [LoadNext]_loadVars => LoadInv'
<1>. SUFFICES ASSUME LoadInv, [LoadNext]_loadVars PROVE LoadInv'
  OBVIOUS
<1>0. /\ TypeOK /\ phase \in Phases /\ ok \in BOOLEAN
      /\ EdgeTimesConsistent
      /\ phase \in {"stations", "lines", "failed"} => AllTimesZero
  BY DEF LoadInv, LoadTypeOK
<1>. SUFFICES /\ TypeOK' /\ phase' \in Phases /\ ok' \in BOOLEAN
              /\ EdgeTimesConsistent'
              /\ phase' \in {"stations", "lines", "failed"} => AllTimesZero'
  BY DEF LoadInv, LoadTypeOK
<1>1. CASE \E s \in StationId : LoadStation(s)
  <2>. PICK s \in StationId : LoadStation(s)
    BY <1>1
  <2>0. phase = "stations" BY DEF LoadStation
  <2>1. CASE AddStation(s) /\ UNCHANGED <<phase, ok>>
    <3>1. TypeOK' BY <1>0, <2>1, AddStationTypeOK
    <3>2. edge' = edge BY <2>1 DEF AddStation
    <3>. QED BY <1>0, <2>1, <3>1, <3>2, EdgeUnchanged
  <2>2. CASE s \in stations /\ phase' = "failed" /\ UNCHANGED <<vars, ok>>
    <3>1. TypeOK' = TypeOK /\ edge' = edge BY <2>2 DEF vars, TypeOK
    <3>. QED BY <1>0, <2>0, <2>2, <3>1, EdgeUnchanged DEF Phases
  <2>. QED BY <2>1, <2>2 DEF LoadStation
<1>2. CASE \E l \in LineInputs : LoadLine(l)
  <2>. PICK l \in LineInputs : LoadLine(l)
    BY <1>2
  <2>0. phase = "lines" BY DEF LoadLine
  <2>1. CASE AddLine(l) /\ UNCHANGED ok
           /\ phase' = IF Added(l, Len(l.routes)) THEN "lines" ELSE "failed"
    <3>1. TypeOK' BY <1>0, <2>1, AddLineTypeOK
    <3>2. AllTimesZero' BY <1>0, <2>0, <2>1, AddLineAllTimesZero
    <3>3. phase' \in Phases BY <2>1 DEF Phases
    <3>4. EdgeTimesConsistent' BY <3>1, <3>2 DEF AllTimesZero, EdgeTimesConsistent, EdgeTo, TypeOK
    <3>. QED BY <1>0, <2>1, <3>1, <3>2, <3>3, <3>4
  <2>2. CASE l.id \in lineIds /\ phase' = "failed" /\ UNCHANGED <<vars, ok>>
    <3>1. TypeOK' = TypeOK /\ edge' = edge BY <2>2 DEF vars, TypeOK
    <3>. QED BY <1>0, <2>0, <2>2, <3>1, EdgeUnchanged DEF Phases
  <2>. QED BY <2>1, <2>2 DEF LoadLine
<1>3. CASE \E a, b \in StationId, t \in Times : LoadTravelTime(a, b, t)
  <2>. PICK a \in StationId, b \in StationId, t \in Times : LoadTravelTime(a, b, t)
    BY <1>3
  <2>0. phase = "times" BY DEF LoadTravelTime
  <2>1. CASE SetTravelTime(a, b, t) /\ UNCHANGED <<phase, ok>>
    <3>1. TypeOK' BY <1>0, <2>1, SetTravelTimeTypeOK
    <3>2. EdgeTimesConsistent' BY <1>0, <2>1, SetTravelTimeConsistent
    <3>. QED BY <1>0, <2>0, <2>1, <3>1, <3>2
  <2>2. CASE ok' = FALSE /\ UNCHANGED <<vars, phase>>
    <3>1. TypeOK' = TypeOK /\ edge' = edge BY <2>2 DEF vars, TypeOK
    <3>. QED BY <1>0, <2>0, <2>2, <3>1, EdgeUnchanged
  <2>. QED BY <2>1, <2>2 DEF LoadTravelTime
<1>4. CASE EndLoop
  <2>1. UNCHANGED <<vars, ok>> BY <1>4 DEF EndLoop
  <2>2. TypeOK' = TypeOK /\ edge' = edge BY <2>1 DEF vars, TypeOK
  <2>3. phase' \in Phases /\ phase' \in {"lines", "times", "done"}
    BY <1>4 DEF EndLoop, Phases
  <2>4. phase' = "lines" => phase = "stations" BY <1>4 DEF EndLoop
  <2>. QED BY <1>0, <2>1, <2>2, <2>3, <2>4, EdgeUnchanged
<1>5. CASE \E s \in StationId, ty \in {"In", "Out"} : Serve(s, ty)
  <2>. PICK s \in StationId, ty \in {"In", "Out"} : Serve(s, ty)
    BY <1>5
  <2>1. TypeOK' BY <1>0, RecordPassengerEventTypeOK DEF Serve
  <2>2. edge' = edge /\ phase' = phase /\ ok' = ok BY DEF Serve, RecordPassengerEvent
  <2>. QED BY <1>0, <2>1, <2>2, EdgeUnchanged
<1>6. CASE UNCHANGED loadVars
  <2>1. TypeOK' = TypeOK /\ edge' = edge /\ phase' = phase /\ ok' = ok
    BY <1>6 DEF loadVars, vars, TypeOK
  <2>. QED BY <1>0, <2>1, EdgeUnchanged
<1>. QED BY <1>1, <1>2, <1>3, <1>4, <1>5, <1>6 DEF LoadNext

(* I6: after any prefix of a FromJson load, and while passenger events   *)
(* are recorded afterwards, all edges between two stations carry the     *)
(* same travel time, which GetTravelTime(A, B) relies on.                 *)
THEOREM LoadKeepsEdgeTimesConsistent == LoadSpec => []EdgeTimesConsistent
<1>1. LoadInv => EdgeTimesConsistent
  BY DEF LoadInv
<1>. QED BY LoadInitInv, LoadNextInv, <1>1, PTL DEF LoadSpec

-----------------------------------------------------------------------------
(* RoutesServingComplete under any sequence of API calls.  It rests on     *)
(* ServingInv: registered route objects lie below the arena's next slot,   *)
(* so an AddLine never rewrites them, and each keeps its stops among the   *)
(* stations and an edge at each non-terminal stop.                         *)

LEMMA ServingInitInv == Init => ServingInv
BY InitTypeOK DEF Init, ServingInv, RegisteredBelow, RegisteredWellFormed,
                  RegisteredSlots

(* The stops of a route object that is not NoRoute are station ids. *)
LEMMA RouteStopsType ==
    ASSUME TypeOK, NEW o \in ObjIdx, route[o] # NoRoute
    PROVE  route[o].stops \in Seq(StationId)
BY DEF TypeOK, RouteRec

(* A registered slot is an arena slot. *)
LEMMA RegisteredIsSlot ==
    ASSUME TypeOK, NEW o \in RegisteredSlots
    PROVE  o \in ObjIdx
BY DEF TypeOK, RegisteredSlots

LEMMA AddStationServing ==
    ASSUME ServingInv, NEW s \in StationId, AddStation(s)
    PROVE  ServingInv'
<1>1. TypeOK'
  BY AddStationTypeOK DEF ServingInv
<1>2. RegisteredSlots' = RegisteredSlots
  BY DEF AddStation, RegisteredSlots
<1>3. RegisteredBelow'
  BY DEF AddStation, RegisteredBelow, ServingInv
<1>4. ASSUME NEW o \in RegisteredSlots PROVE RouteWellFormed(o)'
  BY DEF AddStation, RouteWellFormed, RegisteredWellFormed, ServingInv
<1>. QED BY <1>1, <1>2, <1>3, <1>4 DEF ServingInv, RegisteredWellFormed

LEMMA RecordPassengerEventServing ==
    ASSUME ServingInv, NEW s \in StationId, NEW ty, RecordPassengerEvent(s, ty)
    PROVE  ServingInv'
<1>1. TypeOK'
  BY RecordPassengerEventTypeOK DEF ServingInv
<1>2. RegisteredSlots' = RegisteredSlots
  BY DEF RecordPassengerEvent, RegisteredSlots
<1>3. RegisteredBelow'
  BY DEF RecordPassengerEvent, RegisteredBelow, ServingInv
<1>4. ASSUME NEW o \in RegisteredSlots PROVE RouteWellFormed(o)'
  BY DEF RecordPassengerEvent, RouteWellFormed, RegisteredWellFormed, ServingInv
<1>. QED BY <1>1, <1>2, <1>3, <1>4 DEF ServingInv, RegisteredWellFormed

(* SetTravelTime retimes edges and never removes one. *)
LEMMA SetTravelTimeServing ==
    ASSUME ServingInv, NEW a \in StationId, NEW b \in StationId, NEW t \in Times,
           SetTravelTime(a, b, t)
    PROVE  ServingInv'
<1>1. TypeOK'
  BY SetTravelTimeTypeOK DEF ServingInv
<1>2. RegisteredSlots' = RegisteredSlots
  BY DEF SetTravelTime, RegisteredSlots
<1>3. RegisteredBelow'
  BY DEF SetTravelTime, RegisteredBelow, ServingInv
<1>4. ASSUME NEW s \in StationId, NEW o \in ObjIdx, edge[s][o] # NoEdge
      PROVE  edge'[s][o] # NoEdge
  <2>1. edge[s][o] \in EdgeRec
    BY <1>4 DEF ServingInv, TypeOK
  <2>2. [edge[s][o] EXCEPT !.time = t] \in EdgeRec
    BY <2>1 DEF EdgeRec
  <2>. QED BY <1>4, <2>1, <2>2 DEF SetTravelTime
<1>5. ASSUME NEW o \in RegisteredSlots PROVE RouteWellFormed(o)'
  <2>1. o \in ObjIdx /\ RouteWellFormed(o)
    BY RegisteredIsSlot DEF ServingInv, RegisteredWellFormed
  <2>2. route[o].stops \in Seq(StationId)
    BY <2>1, RouteStopsType DEF ServingInv, RouteWellFormed
  <2>3. route' = route /\ stations' = stations
    BY DEF SetTravelTime
  <2>4. \A i \in 1..Len(route[o].stops) - 1 : edge'[route[o].stops[i]][o] # NoEdge
    BY <2>1, <2>2, <1>4 DEF RouteWellFormed
  <2>. QED BY <2>1, <2>3, <2>4 DEF RouteWellFormed
<1>. QED BY <1>1, <1>2, <1>3, <1>5 DEF ServingInv, RegisteredWellFormed

(* ServingInv gives RoutesServingComplete: a non-terminal stop lists the *)
(* route through its edge, the terminal stop through the corner case.   *)
LEMMA ServingInvComplete == ServingInv => RoutesServingComplete
<1>. SUFFICES ASSUME ServingInv, NEW o \in RegisteredSlots,
                     NEW i \in 1..Len(route[o].stops)
              PROVE  route[o].id \in GetRoutesServingStation(route[o].stops[i])
  BY DEF RoutesServingComplete
<1>1. o \in ObjIdx /\ RouteWellFormed(o)
  BY RegisteredIsSlot DEF ServingInv, RegisteredWellFormed
<1>2. route[o].stops \in Seq(StationId)
  BY <1>1, RouteStopsType DEF ServingInv, RouteWellFormed
<1>. DEFINE s == route[o].stops[i]
<1>3. s \in stations
  BY <1>1 DEF RouteWellFormed
<1>4. CASE i < Len(route[o].stops)
  <2>1. edge[s][o] # NoEdge
    BY <1>1, <1>2, <1>4 DEF RouteWellFormed
  <2>. QED BY <1>1, <1>3, <2>1 DEF GetRoutesServingStation
<1>5. CASE i = Len(route[o].stops)
  BY <1>3, <1>5 DEF GetRoutesServingStation
<1>. QED BY <1>2, <1>4, <1>5

(* AddLine writes only slots above nSlots, so registered route objects   *)
(* keep their route and edges; when the line is registered, each of its *)
(* new objects passed AddRouteToLine: its stops are stations, and each   *)
(* non-terminal stop got an edge of it.                                   *)
LEMMA AddLineServing ==
    ASSUME ServingInv, NEW line \in LineInputs, AddLine(line)
    PROVE  ServingInv'
<1>. DEFINE rs == line.routes
            New(o) == o - nSlots \in 1..Len(rs) /\ Added(line, o - nSlots)
            StopsOf(o) == rs[o - nSlots].stops
            NewSlots == {nSlots + j : j \in 1..Len(rs)}
<1>0. TypeOK
  BY DEF ServingInv
<1>1. rs \in Seq(RouteIn) /\ line.id \in LineId
  BY LineInputRoutes
<1>2. /\ \A o \in ObjIdx : route'[o] = IF New(o)
                                      THEN [id |-> rs[o - nSlots].id, line |-> line.id,
                                            stops |-> StopsOf(o)]
                                      ELSE route[o]
      /\ \A s \in StationId, o \in ObjIdx :
            edge'[s][o] = IF New(o) /\ IsNonTerminal(StopsOf(o), s)
                          THEN [next |-> NextStop(StopsOf(o), s), time |-> 0]
                          ELSE edge[s][o]
      /\ nSlots' = nSlots + Len(rs)
      /\ stations' = stations
      /\ line.id \notin lineIds
  BY DEF AddLine
<1>3. TypeOK'
  BY <1>0, AddLineTypeOK
(* A registered object is not rewritten. *)
<1>4. ASSUME NEW o \in RegisteredSlots PROVE RouteWellFormed(o)'
  <2>1. o \in ObjIdx /\ RouteWellFormed(o) /\ o \in 1..nSlots
    BY RegisteredIsSlot, <1>0 DEF ServingInv, RegisteredWellFormed, RegisteredBelow,
                                 RegisteredSlots
  <2>2. ~New(o)
    <3>1. o - nSlots \notin 1..Len(rs)
      BY <2>1, <1>0 DEF TypeOK
    <3>. QED BY <3>1 DEF New
  <2>3. route'[o] = route[o] /\ \A s \in StationId : edge'[s][o] = edge[s][o]
    BY <2>1, <2>2, <1>2
  <2>4. route[o].stops \in Seq(StationId)
    BY <2>1, <1>0, RouteStopsType DEF RouteWellFormed
  <2>5. route'[o] # NoRoute /\ route'[o].stops = route[o].stops
    BY <2>1, <2>3 DEF RouteWellFormed
  <2>6. Len(route'[o].stops) >= 1
    BY <2>1, <2>5 DEF RouteWellFormed
  <2>7. \A i \in 1..Len(route'[o].stops) : route'[o].stops[i] \in stations'
    BY <2>1, <2>5, <1>2 DEF RouteWellFormed
  <2>8. \A i \in 1..Len(route'[o].stops) - 1 : edge'[route'[o].stops[i]][o] # NoEdge
    <3>. SUFFICES ASSUME NEW i \in 1..Len(route[o].stops) - 1
                  PROVE  edge'[route[o].stops[i]][o] # NoEdge
      BY <2>5
    <3>1. route[o].stops[i] \in StationId
      BY <2>4
    <3>2. edge[route[o].stops[i]][o] # NoEdge
      BY <2>1 DEF RouteWellFormed
    <3>. QED BY <3>1, <3>2, <2>3
  <2>. QED BY <2>5, <2>6, <2>7, <2>8 DEF RouteWellFormed
(* A new object of a registered line is well formed. *)
<1>5. ASSUME Added(line, Len(rs)), NEW j \in 1..Len(rs), NEW obj, obj = nSlots + j
      PROVE  RouteWellFormed(obj)'
  <2>. DEFINE st == rs[j].stops
  <2>1. obj \in ObjIdx /\ obj - nSlots = j
    BY <1>5, <1>1, <1>2, <1>0 DEF TypeOK, AddLine, ObjIdx
  <2>2. New(obj) /\ StopsOf(obj) = st
    BY <2>1, <1>5 DEF Added
  <2>3. route'[obj] = [id |-> rs[j].id, line |-> line.id, stops |-> st]
    BY <2>1, <2>2, <1>2
  <2>4. rs[j] \in RouteIn /\ st \in Seq(StationId)
    <3>1. rs[j] \in RouteIn
      BY <1>1
    <3>. QED BY <3>1 DEF RouteIn
  <2>5. route'[obj] # NoRoute
    <3>1. route'[obj] \in RouteRec
      BY <2>3, <2>4, <1>1 DEF RouteIn, RouteRec
    <3>. QED BY <3>1
  <2>6. Len(st) >= 2
    BY <1>1, LineInputRoutes DEF LineIn
  <2>7. \A i \in 1..Len(st) : st[i] \in stations
    <3>1. ~RouteFails(line, j)
      BY <1>5 DEF Added
    <3>. QED BY <3>1 DEF RouteFails
  <2>8. ASSUME NEW i \in 1..Len(st) - 1 PROVE edge'[st[i]][obj] # NoEdge
    <3>1. st[i] \in StationId /\ IsNonTerminal(st, st[i])
      BY <2>4 DEF IsNonTerminal
    <3>2. NextStop(st, st[i]) \in StationId
      BY <3>1, <2>4, NextStopType
    <3>3. edge'[st[i]][obj] = [next |-> NextStop(st, st[i]), time |-> 0]
      BY <3>1, <2>1, <2>2, <1>2
    <3>4. edge'[st[i]][obj] \in EdgeRec
      BY <3>2, <3>3 DEF EdgeRec
    <3>. QED BY <3>4
  <2>9. route'[obj].stops = st /\ stations' = stations
    BY <2>3, <1>2
  <2>. QED BY <2>5, <2>6, <2>7, <2>8, <2>9 DEF RouteWellFormed
<1>6. CASE Added(line, Len(rs))
  <2>1. lineIds' = lineIds \cup {line.id}
        /\ lineRoutes' = [lineRoutes EXCEPT ![line.id] = NewSlots]
    BY <1>6 DEF AddLine
  <2>2. RegisteredSlots' = RegisteredSlots \cup NewSlots
    <3>1. \A l \in lineIds : lineRoutes'[l] = lineRoutes[l]
      BY <2>1, <1>2
    <3>2. lineRoutes'[line.id] = NewSlots
      BY <2>1, <1>1, <1>0 DEF TypeOK
    <3>. SUFFICES ASSUME NEW x
                  PROVE  x \in RegisteredSlots' <=> x \in RegisteredSlots \cup NewSlots
      OBVIOUS
    <3>3. x \in RegisteredSlots' <=> \E l \in lineIds \cup {line.id} : x \in lineRoutes'[l]
      BY <2>1 DEF RegisteredSlots
    <3>. QED BY <3>1, <3>2, <3>3 DEF RegisteredSlots
  <2>3. RegisteredBelow'
    BY <2>1, <1>1, <1>2, <1>0 DEF RegisteredBelow, ServingInv, TypeOK
  <2>4. RegisteredWellFormed'
    <3>. SUFFICES ASSUME NEW o \in RegisteredSlots' PROVE RouteWellFormed(o)'
      BY DEF RegisteredWellFormed
    <3>1. CASE o \in RegisteredSlots
      BY <3>1, <1>4
    <3>2. CASE o \in NewSlots
      <4>1. PICK k \in 1..Len(rs) : o = nSlots + k
        BY <3>2
      <4>. QED BY <4>1, <1>5, <1>6
    <3>. QED BY <2>2, <3>1, <3>2
  <2>. QED BY <1>3, <2>3, <2>4 DEF ServingInv
<1>7. CASE ~Added(line, Len(rs))
  <2>1. UNCHANGED <<lineIds, lineRoutes>>
    BY <1>7 DEF AddLine
  <2>2. RegisteredSlots' = RegisteredSlots
    BY <2>1 DEF RegisteredSlots
  <2>3. RegisteredBelow'
    BY <2>1, <1>1, <1>2, <1>0 DEF RegisteredBelow, ServingInv, TypeOK
  <2>. QED BY <1>3, <1>4, <2>2, <2>3 DEF ServingInv, RegisteredWellFormed
<1>. QED BY <1>6, <1>7

LEMMA ServingNextInv == ServingInv /\ [Next]_vars => ServingInv'
<1>. SUFFICES ASSUME ServingInv, [Next]_vars PROVE ServingInv'
  OBVIOUS
<1>1. CASE \E s \in StationId : AddStation(s)
  BY <1>1, AddStationServing
<1>2. CASE \E l \in LineInputs : AddLine(l)
  BY <1>2, AddLineServing
<1>3. CASE \E s \in StationId, ty \in {"In", "Out"} : RecordPassengerEvent(s, ty)
  BY <1>3, RecordPassengerEventServing
<1>4. CASE \E a, b \in StationId, t \in Times : SetTravelTime(a, b, t)
  BY <1>4, SetTravelTimeServing
<1>5. CASE UNCHANGED vars
  BY <1>5 DEF ServingInv, TypeOK, RegisteredBelow, RegisteredWellFormed,
              RouteWellFormed, RegisteredSlots, vars
<1>. QED BY <1>1, <1>2, <1>3, <1>4, <1>5 DEF Next

(* Whatever sequence of API calls came before, GetRoutesServingStation    *)
(* lists every route of a registered line at each of its stops, the       *)
(* terminal stop (which has no edge of the route) included.               *)
THEOREM RoutesServingCompleteHolds == Spec => []RoutesServingComplete
BY ServingInitInv, ServingNextInv, ServingInvComplete, PTL DEF Spec

=============================================================================
