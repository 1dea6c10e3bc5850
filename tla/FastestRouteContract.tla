------------------------- MODULE FastestRouteContract -------------------------
(***************************************************************************)
(* What fastest(A, B) promises (spec section 4.4.1), with no algorithm:    *)
(* one call, answered in one step by any TravelRoute the contract allows.  *)
(* The network is the one FastestRoute runs on: stations, and edge[s][o],  *)
(* the edge of route object o at station s.  A step names the edge it      *)
(* takes by its station and route slot.  FastestRoute is shown to          *)
(* implement this specification under a refinement mapping.               *)
(***************************************************************************)
EXTENDS Integers, Sequences, FiniteSets

CONSTANTS
    StationId,   \* station ids
    ObjIdx,      \* route object slots
    Networks,    \* the networks the query may run on
    NoEdge       \* no edge of this route object at this station

VARIABLES
    net,         \* the network
    a, b,        \* the stations asked for
    called,      \* the call has returned
    answer       \* the TravelRoute it returned

cvars == <<net, a, b, called, answer>>

Unseen == -1
NoneEdge == <<>>
Start(st) == [node |-> st, edge |-> NoneEdge]
EmptyRoute == [start |-> "", end |-> "", total |-> 0, steps |-> <<>>]

-----------------------------------------------------------------------------
(* The cost model: the sum of the travel times of the edges taken plus 5  *)
(* minutes for every change of route between two consecutive edges, none  *)
(* at the origin.                                                          *)

(* The least element of a set of distances, ignoring Unseen. *)
LowestOf(S) ==
    LET T == S \ {Unseen} IN
    IF T = {} THEN Unseen ELSE CHOOSE m \in T : \A x \in T : m <= x

(* Every PathStop a walk from A can be at. *)
RealStops ==
    {Start(a)} \cup {[node |-> net.edge[e[1]][e[2]].next, edge |-> e] :
                       e \in {x \in net.stations \X ObjIdx : net.edge[x[1]][x[2]] # NoEdge}}

(* The cost of moving from PathStop q over the edge that reaches p. *)
RefCost(q, p) ==
    net.edge[p.edge[1]][p.edge[2]].time
      + (IF q.edge = NoneEdge \/ q.edge[2] = p.edge[2] THEN 0 ELSE 5)

(* cheapest[k][p]: the least cost of a walk of at most k edges from A to *)
(* p (Bellman-Ford), Unseen if there is none.                            *)
Cheapest ==
    LET N == Cardinality(RealStops)
        c[k \in 0..N] ==
          IF k = 0 THEN [p \in RealStops |-> IF p = Start(a) THEN 0 ELSE Unseen]
          ELSE [p \in RealStops |->
                  LowestOf({c[k - 1][p]} \cup
                           {c[k - 1][q] + RefCost(q, p) :
                              q \in {x \in RealStops :
                                       /\ p.edge # NoneEdge
                                       /\ x.node = p.edge[1]
                                       /\ c[k - 1][x] # Unseen}})]
    IN c[N]

(* The fastest travel time from A to B, Unseen if B cannot be reached. *)
OptimalTime == LowestOf({Cheapest[p] : p \in {x \in RealStops : x.node = b}})

(* The sum of a sequence of step travel times and route-change penalties. *)
StepsCost(st) ==
    LET c[i \in 0..Len(st)] ==
          IF i = 0 THEN 0
          ELSE c[i - 1] + st[i].time
                 + (IF i > 1 /\ st[i - 1].slot # st[i].slot THEN 5 ELSE 0)
    IN c[Len(st)]

(* The steps are a contiguous walk from A to B over edges of the network, *)
(* each with the edge's raw travel time.                                   *)
IsWalk(st) ==
    /\ st # <<>>
    /\ st[1].from = a
    /\ st[Len(st)].to = b
    /\ \A i \in 1..Len(st) - 1 : st[i].to = st[i + 1].from
    /\ \A i \in 1..Len(st) :
          /\ net.edge[st[i].from][st[i].slot] # NoEdge
          /\ net.edge[st[i].from][st[i].slot].next = st[i].to
          /\ net.edge[st[i].from][st[i].slot].time = st[i].time

(* The answers the contract allows: an unknown station gives the empty    *)
(* TravelRoute; A = B one zero-length step with no route; an unreachable  *)
(* B no steps and total 0; otherwise any minimum-cost walk (ties broken   *)
(* in any way), whose total is its cost.                                   *)
IsAnswer(r) ==
    CASE a \notin net.stations \/ b \notin net.stations -> r = EmptyRoute
      [] a = b -> r = [start |-> a, end |-> a, total |-> 0,
                       steps |-> << [from |-> a, to |-> a, slot |-> 0, time |-> 0] >>]
      [] OptimalTime = Unseen -> r = [start |-> a, end |-> b, total |-> 0, steps |-> <<>>]
      [] OTHER -> /\ r.start = a /\ r.end = b
                  /\ IsWalk(r.steps)
                  /\ r.total = StepsCost(r.steps)
                  /\ r.total = OptimalTime

ContractInit ==
    /\ net \in Networks
    /\ a \in StationId /\ b \in StationId
    /\ called = FALSE
    /\ answer = EmptyRoute

(* The call returns an allowed answer; nothing changes after it. *)
Answer ==
    /\ ~called
    /\ called' = TRUE
    /\ IsAnswer(answer')
    /\ UNCHANGED <<net, a, b>>

(* The call returns. *)
Returns == <>called

ContractSpec == ContractInit /\ [][Answer]_cvars /\ Returns

=============================================================================
