----------------------------- MODULE FastestRoute -----------------------------
(***************************************************************************)
(* TransportNetwork::GetFastestTravelRoute (src/src/transport-network.cpp) *)
(* on a network whose edges are fixed during the call (a const method).   *)
(* The search runs over PathStops: a station together with the edge used  *)
(* to reach it (no edge for the start).  An edge is named by the station  *)
(* that holds it and the slot of its route object, as in TransportNetwork.*)
(* A change of route object between two consecutive edges costs          *)
(* RouteChangePenalty.  Each step of the model is one iteration of a loop *)
(* of the code: one pop of the priority queue with its whole neighbour    *)
(* loop, the choice of the fastest PathStop at B, one step of the walk    *)
(* back along previousStop.  Distances are unsigned int: every sum wraps  *)
(* modulo UIntLimit (2^32 in the build).                                   *)
(***************************************************************************)
EXTENDS Integers, Sequences, FiniteSets

CONSTANTS
    StationId,   \* station ids
    ObjIdx,      \* route object slots
    Networks,    \* the networks the query may run on
    NoEdge,      \* no edge of this route object at this station
    UIntLimit,   \* one more than the largest unsigned int
    MaxSteps     \* bound: iterations of the walk back from B

(* A network: its stations and edge[s][o] of each station s and slot o; *)
(* a travel time is an unsigned int.                                     *)
EdgeRec == [next : StationId, time : 0..UIntLimit - 1]
NetRec == [stations : SUBSET StationId, edge : [StationId -> [ObjIdx -> EdgeRec \cup {NoEdge}]]]

ASSUME FastestAssumption ==
    /\ MaxSteps \in Nat
    /\ UIntLimit \in Nat \ {0}
    /\ NoEdge \notin EdgeRec
    /\ Networks \subseteq NetRec

(* The empty id, which NoStop and the default TravelRoute carry, is no  *)
(* station's id.                                                          *)
ASSUME EmptyIdAssumption == "" \notin StationId

RouteChangePenalty == 5

VARIABLES
    net,        \* the network, unchanged by the query
    a, b,       \* the arguments stationAId and stationBId
    pc,         \* "start", "search", "walk", "done"
    dist,       \* distFromA, Unseen where the map has no entry
    prev,       \* previousStop, NoStop where the map has no entry
    queue,      \* nodesToVisit: a set of <<PathStop, distance>>
    cursor,     \* stop, the PathStop the walk back has reached
    result      \* the TravelRoute being assembled and returned

qvars == <<net, a, b, pc, dist, prev, queue, cursor, result>>

Unseen == -1
NoneEdge == <<>>                \* PathStop.edge == nullptr
AllStops == [node : StationId, edge : {NoneEdge} \cup (StationId \X ObjIdx)]
NoStop == [node |-> "", edge |-> NoneEdge]

(* The GraphEdge named by <<holder, slot>>. *)
EdgeOf(e) == net.edge[e[1]][e[2]]

(* The PathStop reached over edge slot o of station s. *)
Over(s, o) == [node |-> net.edge[s][o].next, edge |-> <<s, o>>]

(* Mutant: the penalty is also added when the current stop is the start *)
(* (the edgeToCurrStation != nullptr test is dropped).                  *)
HopPenaltyFromStart(p, o) ==
    net.edge[p.node][o].time
      + (IF p.edge = NoneEdge \/ p.edge[2] # o THEN RouteChangePenalty ELSE 0)

(* The distance added by taking edge slot o of the station of PathStop p. *)
Hop(p, o) ==
    net.edge[p.node][o].time
      + (IF p.edge # NoneEdge /\ p.edge[2] # o THEN RouteChangePenalty ELSE 0)

(* neighborDistFromA: currentDistFromA + travelTime, then += 5 on a     *)
(* change of route, both in unsigned int arithmetic.                     *)
NeighborDist(d, p, o) == (d + Hop(p, o)) % UIntLimit

Start(st) == [node |-> st, edge |-> NoneEdge]

EmptyRoute == [start |-> "", end |-> "", total |-> 0, steps |-> <<>>]

QueryInit ==
    /\ net \in Networks
    /\ a \in StationId /\ b \in StationId
    /\ pc = "start"
    /\ dist = [p \in AllStops |-> Unseen]
    /\ prev = [p \in AllStops |-> NoStop]
    /\ queue = {}
    /\ cursor = NoStop
    /\ result = EmptyRoute

(* Mutant: the A = B corner case is missing and the search runs. *)
BeginNoSameStation ==
    /\ pc = "start"
    /\ \/ /\ a \notin net.stations \/ b \notin net.stations
          /\ pc' = "done"
          /\ UNCHANGED <<dist, queue, result>>
       \/ /\ a \in net.stations /\ b \in net.stations
          /\ pc' = "search"
          /\ dist' = [dist EXCEPT ![Start(a)] = 0]
          /\ queue' = {<<Start(a), 0>>}
          /\ UNCHANGED result
    /\ UNCHANGED <<net, a, b, prev, cursor>>

(* The two early returns, then the set-up of Dijkstra's algorithm. *)
Begin ==
    /\ pc = "start"
    /\ \/ /\ a \notin net.stations \/ b \notin net.stations
          /\ pc' = "done"
          /\ UNCHANGED <<dist, queue, result>>
       \/ /\ a \in net.stations /\ b \in net.stations /\ a = b
          /\ pc' = "done"
          /\ result' = [start |-> a, end |-> a, total |-> 0,
                        steps |-> << [from |-> a, to |-> a, slot |-> 0, time |-> 0] >>]
          /\ UNCHANGED <<dist, queue>>
       \/ /\ a \in net.stations /\ b \in net.stations /\ a # b
          /\ pc' = "search"
          /\ dist' = [dist EXCEPT ![Start(a)] = 0]
          /\ queue' = {<<Start(a), 0>>}
          /\ UNCHANGED result
    /\ UNCHANGED <<net, a, b, prev, cursor>>

(* Relaxing edge slot o of the station of cur, popped with distance d,   *)
(* improves the record of the neighbour it reaches: the neighbour is new  *)
(* or its recorded distance is larger.  Nothing is relaxed from B (the    *)
(* continue after the check for station B).                               *)
Improves(cur, d, o) ==
    /\ net.edge[cur.node][o] # NoEdge
    /\ cur.node # b
    /\ \/ dist[Over(cur.node, o)] = Unseen
       \/ NeighborDist(d, cur, o) < dist[Over(cur.node, o)]

(* PathStop p is a neighbour of cur whose record the loop updates. *)
Updated(cur, d, p) ==
    /\ p.edge # NoneEdge /\ p.edge[1] = cur.node
    /\ Improves(cur, d, p.edge[2])
    /\ p = Over(cur.node, p.edge[2])

(* Mutant: previousStop is written only when a recorded distance is     *)
(* improved, not when the neighbour is seen for the first time.          *)
RelaxNoPrevOnFirst(top, rest) ==
    LET cur == top[1]
        d == top[2]
    IN /\ dist' = [p \in AllStops |->
                     IF Updated(cur, d, p) THEN NeighborDist(d, cur, p.edge[2]) ELSE dist[p]]
       /\ prev' = [p \in AllStops |->
                     IF Updated(cur, d, p) /\ dist[p] # Unseen THEN cur ELSE prev[p]]
       /\ queue' = rest \cup {<<Over(cur.node, o), NeighborDist(d, cur, o)>> :
                               o \in {x \in ObjIdx : Improves(cur, d, x)}}

(* The neighbour loop for the popped entry top, using the distance top  *)
(* was queued with (it may be stale); rest is what is left of the queue. *)
(* The neighbours of one station are distinct PathStops, so the loop     *)
(* over them is one simultaneous update, pushing every improved one.     *)
Relax(top, rest) ==
    LET cur == top[1]
        d == top[2]
    IN /\ dist' = [p \in AllStops |->
                     IF Updated(cur, d, p) THEN NeighborDist(d, cur, p.edge[2]) ELSE dist[p]]
       /\ prev' = [p \in AllStops |-> IF Updated(cur, d, p) THEN cur ELSE prev[p]]
       /\ queue' = rest \cup {<<Over(cur.node, o), NeighborDist(d, cur, o)>> :
                               o \in {x \in ObjIdx : Improves(cur, d, x)}}

(* The least-distance entry of the queue (ties in any order). *)
IsTop(top) == \A q \in queue : top[2] <= q[2]

(* Mutant: top() is read but pop() is forgotten. *)
VisitNoPop ==
    /\ pc = "search"
    /\ queue # {}
    /\ \E top \in queue : IsTop(top) /\ Relax(top, queue)
    /\ UNCHANGED <<net, a, b, pc, cursor, result>>

(* One iteration of the while loop: pop a least-distance entry and run  *)
(* the neighbour loop for it.                                             *)
Visit ==
    /\ pc = "search"
    /\ queue # {}
    /\ \E top \in queue : IsTop(top) /\ Relax(top, queue \ {top})
    /\ UNCHANGED <<net, a, b, pc, cursor, result>>

(* Mutant: front() instead of back() after the sort: the slowest path. *)
AssembleFront ==
    /\ pc = "search"
    /\ queue = {}
    /\ LET AtB == {p \in AllStops : p.node = b /\ dist[p] # Unseen} IN
       \/ /\ AtB = {}
          /\ pc' = "done"
          /\ result' = [start |-> a, end |-> b, total |-> 0, steps |-> <<>>]
          /\ UNCHANGED cursor
       \/ \E p \in AtB :
            /\ \A q \in AtB : dist[p] >= dist[q]
            /\ pc' = "walk"
            /\ cursor' = p
            /\ result' = [start |-> a, end |-> b, total |-> dist[p], steps |-> <<>>]
    /\ UNCHANGED <<net, a, b, dist, prev, queue>>

(* The queue is empty: collect the PathStops at B; none means no path,   *)
(* else std::sort and back() take one of least distance (any one of a    *)
(* tie: the sort is not stable).                                          *)
Assemble ==
    /\ pc = "search"
    /\ queue = {}
    /\ LET AtB == {p \in AllStops : p.node = b /\ dist[p] # Unseen} IN
       \/ /\ AtB = {}
          /\ pc' = "done"
          /\ result' = [start |-> a, end |-> b, total |-> 0, steps |-> <<>>]
          /\ UNCHANGED cursor
       \/ \E p \in AtB :
            /\ \A q \in AtB : dist[p] <= dist[q]
            /\ pc' = "walk"
            /\ cursor' = p
            /\ result' = [start |-> a, end |-> b, total |-> dist[p], steps |-> <<>>]
    /\ UNCHANGED <<net, a, b, dist, prev, queue>>

(* Mutant: std::reverse is forgotten; the steps stay in B-to-A order. *)
WalkBackNoReverse ==
    /\ pc = "walk"
    /\ \/ /\ cursor.node = a
          /\ pc' = "done"
          /\ UNCHANGED <<cursor, result>>
       \/ /\ cursor.node # a
          /\ prev[cursor] # NoStop
          /\ Len(result.steps) < MaxSteps
          /\ cursor' = prev[cursor]
          /\ result' = [result EXCEPT !.steps =
                          Append(@, [from |-> prev[cursor].node, to |-> cursor.node,
                                     slot |-> cursor.edge[2],
                                     time |-> EdgeOf(cursor.edge).time])]
          /\ UNCHANGED pc
    /\ UNCHANGED <<net, a, b, dist, prev, queue>>

(* One iteration of the walk from B back to the first stop at A.  The    *)
(* steps are pushed back and reversed at the end, so the model prepends. *)
(* previousStop.at throws when the stop has no entry: the walk is then   *)
(* stuck, and Termination fails.                                          *)
WalkBack ==
    /\ pc = "walk"
    /\ \/ /\ cursor.node = a
          /\ pc' = "done"
          /\ UNCHANGED <<cursor, result>>
       \/ /\ cursor.node # a
          /\ prev[cursor] # NoStop
          /\ Len(result.steps) < MaxSteps
          /\ cursor' = prev[cursor]
          /\ result' = [result EXCEPT !.steps =
                          << [from |-> prev[cursor].node, to |-> cursor.node,
                              slot |-> cursor.edge[2],
                              time |-> EdgeOf(cursor.edge).time] >> \o @]
          /\ UNCHANGED pc
    /\ UNCHANGED <<net, a, b, dist, prev, queue>>

QueryNext == Begin \/ Visit \/ Assemble \/ WalkBack

(* The query is a sequential function: once called it runs on. *)
QuerySpec == QueryInit /\ [][QueryNext]_qvars /\ WF_qvars(QueryNext)

-----------------------------------------------------------------------------
(* The contract of spec section 4.4.1 under the refinement mapping: the  *)
(* call has returned when pc is "done", and its answer is then result.   *)

Contract == INSTANCE FastestRouteContract
                WITH called <- (pc = "done"),
                     answer <- (IF pc = "done" THEN result ELSE EmptyRoute)

-----------------------------------------------------------------------------
(* Properties. *)

Distinct == a \in net.stations /\ b \in net.stations /\ a # b

(* GetFastestTravelRoute between two distinct stations returns the       *)
(* fastest travel time there is, with the route-change penalty, and an   *)
(* empty step list exactly when B cannot be reached from A.  This rests  *)
(* on the search not stopping at B, on stale queue entries, and on the   *)
(* choice among the PathStops at B after the sort.                       *)
ResultCorrect ==
    pc = "done" /\ Distinct =>
        IF Contract!OptimalTime = Unseen
        THEN result.steps = <<>> /\ result.total = 0
        ELSE result.steps # <<>> /\ result.total = Contract!OptimalTime

(* The steps the walk back along previousStop assembles, once reversed, *)
(* form a path of edges of the network from A to B, each step with the  *)
(* travel time of its edge.                                              *)
StepsFormWalk ==
    pc = "done" /\ Distinct /\ result.steps # <<>> => Contract!IsWalk(result.steps)

(* The totalTravelTime returned with the steps is what they cost: their  *)
(* travel times plus 5 for every change of route (spec section 8).       *)
StepsTotalIsCost ==
    pc = "done" /\ Distinct /\ result.steps # <<>> =>
        result.total = Contract!StepsCost(result.steps)

(* Every call of GetFastestTravelRoute returns: the search loop ends and *)
(* the walk back reaches A without previousStop.at throwing.             *)
Termination == <>(pc = "done")

(* The walk back reads previousStop.at(stop) for every stop it reaches   *)
(* before A: the map always has that entry, so the call never throws out *)
(* of the reconstruction, whatever stale entries the search popped.       *)
WalkBackDefined ==
    pc = "walk" /\ cursor.node # a => prev[cursor] # NoStop

(* GetFastestTravelRoute implements its contract: every call returns an  *)
(* answer the contract allows, in all four cases (unknown station,       *)
(* A = B, unreachable, reachable), and the intermediate steps of the     *)
(* search are invisible to the caller.                                    *)
ImplementsContract == Contract!ContractSpec

-----------------------------------------------------------------------------
(* The inductive invariant behind WalkBackDefined: the types of the      *)
(* search state; every queued PathStop has a distance; every PathStop    *)
(* with a distance, other than the start, has a previousStop that has a  *)
(* distance; the walk back is at a PathStop with a distance.  Distances  *)
(* are never erased, so these survive stale pops and later improvements. *)

QueryTypeOK ==
    /\ net \in NetRec
    /\ a \in StationId /\ b \in StationId
    /\ pc \in {"start", "search", "walk", "done"}
    /\ dist \in [AllStops -> Nat \cup {Unseen}]
    /\ prev \in [AllStops -> AllStops \cup {NoStop}]
    /\ queue \subseteq AllStops \X Nat
    /\ cursor \in AllStops \cup {NoStop}

QueueSeen == \A q \in queue : dist[q[1]] # Unseen

PrevDefined ==
    \A p \in AllStops :
        dist[p] # Unseen /\ p # Start(a) => prev[p] # NoStop /\ dist[prev[p]] # Unseen

CursorSeen == pc = "walk" => cursor \in AllStops /\ dist[cursor] # Unseen

QueryInv == QueryTypeOK /\ QueueSeen /\ PrevDefined /\ CursorSeen

-----------------------------------------------------------------------------
(* The inductive invariant behind StepsFormWalk: previousStop of a        *)
(* PathStop is the station holding the edge that reaches it; the steps    *)
(* are empty until the walk back starts at a PathStop of B; during the    *)
(* walk they are a contiguous run of real edges from the cursor to B.     *)

StepRec == [from : StationId, to : StationId, slot : ObjIdx \cup {0}, time : Nat]

WalkFrom(st, x) ==
    /\ st[1].from = x
    /\ st[Len(st)].to = b
    /\ \A i \in 1..Len(st) - 1 : st[i].to = st[i + 1].from
    /\ \A i \in 1..Len(st) :
          /\ net.edge[st[i].from][st[i].slot] # NoEdge
          /\ net.edge[st[i].from][st[i].slot].next = st[i].to
          /\ net.edge[st[i].from][st[i].slot].time = st[i].time

PrevIsEdge ==
    \A p \in AllStops :
        prev[p] # NoStop =>
            /\ p.edge # NoneEdge
            /\ p.edge[1] = prev[p].node
            /\ EdgeOf(p.edge) # NoEdge
            /\ EdgeOf(p.edge).next = p.node

StepsInv ==
    /\ "steps" \in DOMAIN result
    /\ result.steps \in Seq(StepRec)
    /\ pc \in {"start", "search"} => result.steps = <<>>
    /\ pc = "walk" => IF result.steps = <<>> THEN cursor.node = b
                      ELSE WalkFrom(result.steps, cursor.node)
    /\ StepsFormWalk

WalkInv == QueryInv /\ PrevIsEdge /\ StepsInv

=============================================================================
