-------------------------- MODULE FastestRouteProofs --------------------------
(***************************************************************************)
(* Proofs about GetFastestTravelRoute that hold on every network and for  *)
(* every unsigned width.  The walk back along previousStop never reads a  *)
(* missing entry (QueryInv: a PathStop gets a distance only together with *)
(* a previousStop that already has one, and distances are never erased).  *)
(* The steps it returns form a walk of real edges from A to B (WalkInv:   *)
(* previousStop is the holder of the edge reaching a PathStop).           *)
(***************************************************************************)
EXTENDS FastestRoute, SequenceTheorems, TLAPS

USE FastestAssumption

(* The types QueryInv gives, as one fact to cite. *)
LEMMA InvTypes ==
    ASSUME QueryInv
    PROVE  /\ net \in NetRec
           /\ a \in StationId /\ b \in StationId
           /\ dist \in [AllStops -> Nat \cup {Unseen}]
           /\ prev \in [AllStops -> AllStops \cup {NoStop}]
           /\ queue \subseteq AllStops \X Nat
           /\ cursor \in AllStops \cup {NoStop}
BY DEF QueryInv, QueryTypeOK

LEMMA StartIsStop ==
    ASSUME NEW s \in StationId
    PROVE  Start(s) \in AllStops
BY DEF Start, AllStops, NoneEdge

LEMMA NoStopIsNoStop == NoStop \notin AllStops
BY EmptyIdAssumption, Zenon DEF NoStop, AllStops

(* A neighbour reached over an existing edge is a PathStop, and its new *)
(* distance is a natural number.                                          *)
LEMMA NeighborFacts ==
    ASSUME net \in NetRec, NEW cur \in AllStops, NEW d \in Nat,
           NEW o \in ObjIdx, net.edge[cur.node][o] # NoEdge
    PROVE  /\ Over(cur.node, o) \in AllStops
           /\ NeighborDist(d, cur, o) \in Nat
<1>0. cur.node \in StationId
  BY DEF AllStops
<1>1. net.edge[cur.node][o] \in EdgeRec
  <2>1. net.edge[cur.node][o] \in EdgeRec \cup {NoEdge}
    BY <1>0 DEF NetRec
  <2>. QED BY <2>1
<1>2. Over(cur.node, o) \in AllStops
  <2>1. net.edge[cur.node][o].next \in StationId
    BY <1>1 DEF EdgeRec
  <2>. QED BY <2>1, <1>0 DEF Over, AllStops
<1>3. Hop(cur, o) \in Nat
  <2>1. net.edge[cur.node][o].time \in Nat
    BY <1>1 DEF EdgeRec
  <2>. QED BY <2>1 DEF Hop, RouteChangePenalty
<1>4. NeighborDist(d, cur, o) \in Nat
  <2>1. UIntLimit \in Nat \ {0}
    BY FastestAssumption
  <2>2. d + Hop(cur, o) \in Nat
    BY <1>3
  <2>. QED BY <2>1, <2>2 DEF NeighborDist
<1>. QED BY <1>2, <1>4

LEMMA InitInv == QueryInit => QueryInv
<1>. SUFFICES ASSUME QueryInit PROVE QueryInv
  OBVIOUS
<1>1. QueryTypeOK
  BY NoStopIsNoStop DEF QueryInit, QueryTypeOK, NetRec
<1>2. QueueSeen /\ PrevDefined /\ CursorSeen
  BY DEF QueryInit, QueueSeen, PrevDefined, CursorSeen
<1>. QED BY <1>1, <1>2 DEF QueryInv

LEMMA BeginInv ==
    ASSUME QueryInv, Begin
    PROVE  QueryInv'
<1>0. UNCHANGED <<net, a, b, prev, cursor>>
  BY DEF Begin
<1>1. CASE UNCHANGED <<dist, queue>>
  <2>1. pc' \in {"start", "search", "walk", "done"} /\ pc' # "walk"
    BY DEF Begin
  <2>2. QueryTypeOK'
    BY <1>0, <1>1, <2>1, InvTypes DEF QueryTypeOK
  <2>3. (QueueSeen /\ PrevDefined)'
    BY <1>0, <1>1 DEF QueryInv, QueueSeen, PrevDefined, Start
  <2>. QED BY <2>1, <2>2, <2>3 DEF QueryInv, CursorSeen
<1>2. CASE /\ a \in net.stations /\ b \in net.stations /\ a # b
           /\ pc' = "search"
           /\ dist' = [dist EXCEPT ![Start(a)] = 0]
           /\ queue' = {<<Start(a), 0>>}
  <2>0. /\ dist \in [AllStops -> Nat \cup {Unseen}]
        /\ prev \in [AllStops -> AllStops \cup {NoStop}]
    BY InvTypes
  <2>1. Start(a) \in AllStops
    BY StartIsStop, InvTypes
  <2>2. \A p \in AllStops : dist[p] # Unseen => dist'[p] # Unseen
    BY <1>2, <2>0, <2>1 DEF Unseen
  <2>3. QueryTypeOK'
    <3>1. dist' \in [AllStops -> Nat \cup {Unseen}]
      BY <1>2, <2>0, <2>1
    <3>. QED BY <3>1, <1>0, <1>2, <2>1, InvTypes DEF QueryTypeOK
  <2>4. QueueSeen'
    BY <1>2, <2>0, <2>1 DEF QueueSeen, Unseen
  <2>5. PrevDefined'
    <3>. SUFFICES ASSUME NEW p \in AllStops, dist'[p] # Unseen, p # Start(a)
                  PROVE  prev[p] # NoStop /\ dist'[prev[p]] # Unseen
      BY <1>0 DEF PrevDefined
    <3>1. dist[p] # Unseen
      BY <1>2, <2>0
    <3>2. prev[p] # NoStop /\ dist[prev[p]] # Unseen /\ prev[p] \in AllStops
      BY <3>1, <2>0 DEF QueryInv, PrevDefined
    <3>. QED BY <3>2, <2>2
  <2>6. CursorSeen'
    BY <1>2 DEF CursorSeen
  <2>. QED BY <2>3, <2>4, <2>5, <2>6 DEF QueryInv
<1>. QED BY <1>1, <1>2 DEF Begin

LEMMA VisitInv ==
    ASSUME QueryInv, Visit
    PROVE  QueryInv'
<1>1. PICK top \in queue : IsTop(top) /\ Relax(top, queue \ {top})
  BY DEF Visit
<1>. DEFINE cur == top[1]
            d == top[2]
<1>0. /\ dist \in [AllStops -> Nat \cup {Unseen}]
      /\ prev \in [AllStops -> AllStops \cup {NoStop}]
      /\ queue \subseteq AllStops \X Nat
  BY InvTypes
<1>2. cur \in AllStops /\ d \in Nat /\ dist[cur] # Unseen
  BY <1>0, <1>1 DEF QueryInv, QueueSeen
<1>3. /\ dist' = [p \in AllStops |->
                    IF Updated(cur, d, p) THEN NeighborDist(d, cur, p.edge[2]) ELSE dist[p]]
      /\ prev' = [p \in AllStops |-> IF Updated(cur, d, p) THEN cur ELSE prev[p]]
      /\ queue' = (queue \ {top}) \cup {<<Over(cur.node, o), NeighborDist(d, cur, o)>> :
                                         o \in {x \in ObjIdx : Improves(cur, d, x)}}
  BY <1>1 DEF Relax
<1>4. UNCHANGED <<net, a, b, pc, cursor, result>> /\ pc = "search"
  BY DEF Visit
<1>5. net \in NetRec
  BY InvTypes
<1>6. ASSUME NEW p \in AllStops, Updated(cur, d, p)
      PROVE  /\ p.edge[2] \in ObjIdx
             /\ net.edge[cur.node][p.edge[2]] # NoEdge
             /\ NeighborDist(d, cur, p.edge[2]) \in Nat
  <2>1. p.edge \in StationId \X ObjIdx
    BY <1>6 DEF Updated, AllStops
  <2>2. p.edge[2] \in ObjIdx /\ net.edge[cur.node][p.edge[2]] # NoEdge
    BY <1>6, <2>1 DEF Updated, Improves
  <2>. QED BY <2>2, <1>2, <1>5, NeighborFacts
<1>7. \A p \in AllStops : dist[p] # Unseen => dist'[p] # Unseen
  <2>. SUFFICES ASSUME NEW p \in AllStops, dist[p] # Unseen PROVE dist'[p] # Unseen
    OBVIOUS
  <2>1. CASE Updated(cur, d, p)
    BY <1>3, <1>6, <2>1 DEF Unseen
  <2>2. CASE ~Updated(cur, d, p)
    BY <1>3, <2>2
  <2>. QED BY <2>1, <2>2
<1>8. \A p \in AllStops : Updated(cur, d, p) => dist'[p] # Unseen
  BY <1>3, <1>6 DEF Unseen
<1>9. QueryTypeOK'
  <2>1. dist' \in [AllStops -> Nat \cup {Unseen}]
    BY <1>0, <1>3, <1>6
  <2>2. prev' \in [AllStops -> AllStops \cup {NoStop}]
    BY <1>0, <1>2, <1>3
  <2>3. queue' \subseteq AllStops \X Nat
    <3>1. queue \ {top} \subseteq AllStops \X Nat
      BY <1>0
    <3>2. ASSUME NEW o \in ObjIdx, Improves(cur, d, o)
          PROVE  <<Over(cur.node, o), NeighborDist(d, cur, o)>> \in AllStops \X Nat
      BY <3>2, <1>2, <1>5, NeighborFacts DEF Improves
    <3>. QED BY <1>3, <3>1, <3>2
  <2>. QED BY <1>4, <2>1, <2>2, <2>3, InvTypes DEF QueryTypeOK
<1>10. QueueSeen'
  <2>1. ASSUME NEW q \in queue \ {top} PROVE dist'[q[1]] # Unseen
    BY <1>0, <1>7 DEF QueryInv, QueueSeen
  <2>2. ASSUME NEW o \in ObjIdx, Improves(cur, d, o)
        PROVE  dist'[Over(cur.node, o)] # Unseen
    <3>1. Over(cur.node, o) \in AllStops
      BY <2>2, <1>2, <1>5, NeighborFacts DEF Improves
    <3>2. Updated(cur, d, Over(cur.node, o))
      BY <2>2 DEF Updated, Over, NoneEdge
    <3>. QED BY <3>1, <3>2, <1>8
  <2>. QED BY <1>3, <2>1, <2>2 DEF QueueSeen
<1>11. PrevDefined'
  <2>. SUFFICES ASSUME NEW p \in AllStops, dist'[p] # Unseen, p # Start(a)
                PROVE  prev'[p] # NoStop /\ dist'[prev'[p]] # Unseen
    BY <1>4 DEF PrevDefined
  <2>1. CASE Updated(cur, d, p)
    <3>1. prev'[p] = cur
      BY <1>3, <2>1
    <3>. QED BY <3>1, <1>2, <1>7, NoStopIsNoStop
  <2>2. CASE ~Updated(cur, d, p)
    <3>1. prev'[p] = prev[p] /\ dist'[p] = dist[p]
      BY <1>3, <2>2
    <3>2. prev[p] # NoStop /\ prev[p] \in AllStops /\ dist[prev[p]] # Unseen
      BY <3>1, <1>0 DEF QueryInv, PrevDefined
    <3>. QED BY <3>1, <3>2, <1>7
  <2>. QED BY <2>1, <2>2
<1>12. CursorSeen'
  BY <1>4 DEF CursorSeen
<1>. QED BY <1>9, <1>10, <1>11, <1>12 DEF QueryInv

LEMMA AssembleInv ==
    ASSUME QueryInv, Assemble
    PROVE  QueryInv'
<1>0. UNCHANGED <<net, a, b, dist, prev, queue>>
  BY DEF Assemble
<1>. DEFINE AtB == {p \in AllStops : p.node = b /\ dist[p] # Unseen}
<1>1. CASE pc' = "done" /\ UNCHANGED cursor
  BY <1>0, <1>1 DEF QueryInv, QueryTypeOK, QueueSeen, PrevDefined, CursorSeen
<1>2. CASE \E p \in AtB : pc' = "walk" /\ cursor' = p
  <2>1. pc' = "walk" /\ cursor' \in AllStops /\ dist[cursor'] # Unseen
    BY <1>2
  <2>. QED BY <1>0, <2>1 DEF QueryInv, QueryTypeOK, QueueSeen, PrevDefined, CursorSeen
<1>. QED BY <1>1, <1>2 DEF Assemble

LEMMA WalkBackInv ==
    ASSUME QueryInv, WalkBack
    PROVE  QueryInv'
<1>0. UNCHANGED <<net, a, b, dist, prev, queue>>
  BY DEF WalkBack
<1>1. CASE pc' = "done" /\ UNCHANGED cursor
  BY <1>0, <1>1 DEF QueryInv, QueryTypeOK, QueueSeen, PrevDefined, CursorSeen
<1>2. CASE /\ pc = "walk" /\ cursor.node # a
           /\ cursor' = prev[cursor] /\ UNCHANGED pc
  <2>1. cursor \in AllStops /\ dist[cursor] # Unseen
    BY <1>2 DEF QueryInv, CursorSeen
  <2>2. cursor # Start(a)
    <3>1. Start(a).node = a
      BY DEF Start
    <3>. QED BY <3>1, <1>2
  <2>3. prev[cursor] # NoStop /\ prev[cursor] \in AllStops /\ dist[prev[cursor]] # Unseen
    BY <2>1, <2>2 DEF QueryInv, QueryTypeOK, PrevDefined
  <2>. QED BY <1>0, <1>2, <2>3 DEF QueryInv, QueryTypeOK, QueueSeen, PrevDefined, CursorSeen
<1>. QED BY <1>1, <1>2 DEF WalkBack

LEMMA NextInv == QueryInv /\ [QueryNext]_qvars => QueryInv'
<1>. SUFFICES ASSUME QueryInv, [QueryNext]_qvars PROVE QueryInv'
  OBVIOUS
<1>1. CASE Begin        BY <1>1, BeginInv
<1>2. CASE Visit        BY <1>2, VisitInv
<1>3. CASE Assemble     BY <1>3, AssembleInv
<1>4. CASE WalkBack     BY <1>4, WalkBackInv
<1>5. CASE UNCHANGED qvars
  BY <1>5 DEF qvars, QueryInv, QueryTypeOK, QueueSeen, PrevDefined, CursorSeen, Start
<1>. QED BY <1>1, <1>2, <1>3, <1>4, <1>5 DEF QueryNext

LEMMA InvWalkBackDefined == QueryInv => WalkBackDefined
<1>. SUFFICES ASSUME QueryInv, pc = "walk", cursor.node # a
              PROVE  prev[cursor] # NoStop
  BY DEF WalkBackDefined
<1>1. cursor \in AllStops /\ dist[cursor] # Unseen
  BY DEF QueryInv, CursorSeen
<1>2. cursor # Start(a)
  <2>1. Start(a).node = a
    BY DEF Start
  <2>. QED BY <2>1
<1>. QED BY <1>1, <1>2 DEF QueryInv, PrevDefined

(* previousStop.at in the walk back of GetFastestTravelRoute never throws: *)
(* on every network, with any tie-breaking and any unsigned width, each   *)
(* stop the walk reaches before A has a previousStop entry.               *)
THEOREM WalkBackNeverThrows == QuerySpec => []WalkBackDefined
<1>1. QueryInit => QueryInv
  BY InitInv
<1>2. QueryInv /\ [QueryNext]_qvars => QueryInv'
  BY NextInv
<1>3. QueryInv => WalkBackDefined
  BY InvWalkBackDefined
<1>. QED BY <1>1, <1>2, <1>3, PTL DEF QuerySpec

-----------------------------------------------------------------------------
(* StepsFormWalk: the steps returned between two distinct stations are a  *)
(* path of real edges from A to B.  The argument is WalkInv: previousStop *)
(* of a PathStop is the holder of the edge that reaches it, and the walk  *)
(* back prepends (pushes, then reverses) one such edge per iteration.     *)

LEMMA EmptyRouteFacts == "steps" \in DOMAIN EmptyRoute /\ EmptyRoute.steps = <<>>
BY Zenon DEF EmptyRoute

LEMMA WalkInitInv == QueryInit => WalkInv
<1>. SUFFICES ASSUME QueryInit PROVE WalkInv
  OBVIOUS
<1>1. QueryInv
  BY InitInv
<1>2. PrevIsEdge
  BY NoStopIsNoStop DEF QueryInit, PrevIsEdge
<1>3. StepsInv
  BY EmptyRouteFacts DEF QueryInit, StepsInv, StepsFormWalk
<1>. QED BY <1>1, <1>2, <1>3 DEF WalkInv

(* Relax records as previousStop of a PathStop the station whose edge    *)
(* reaches it.                                                            *)
LEMMA VisitPrevIsEdge ==
    ASSUME QueryInv, PrevIsEdge, Visit
    PROVE  PrevIsEdge'
<1>1. PICK top \in queue : IsTop(top) /\ Relax(top, queue \ {top})
  BY DEF Visit
<1>. DEFINE cur == top[1]
            d == top[2]
<1>2. prev' = [p \in AllStops |-> IF Updated(cur, d, p) THEN cur ELSE prev[p]]
  BY <1>1 DEF Relax
<1>3. UNCHANGED net
  BY DEF Visit
<1>. SUFFICES ASSUME NEW p \in AllStops, prev'[p] # NoStop
              PROVE  /\ p.edge # NoneEdge
                     /\ p.edge[1] = prev'[p].node
                     /\ EdgeOf(p.edge) # NoEdge
                     /\ EdgeOf(p.edge).next = p.node
  BY <1>3 DEF PrevIsEdge, EdgeOf
<1>4. CASE Updated(cur, d, p)
  <2>1. prev'[p] = cur
    BY <1>2, <1>4
  <2>2. /\ p.edge # NoneEdge /\ p.edge[1] = cur.node
        /\ net.edge[cur.node][p.edge[2]] # NoEdge
        /\ p = Over(cur.node, p.edge[2])
    BY <1>4 DEF Updated, Improves
  <2>3. p.node = net.edge[cur.node][p.edge[2]].next
    BY <2>2 DEF Over
  <2>. QED BY <2>1, <2>2, <2>3 DEF EdgeOf
<1>5. CASE ~Updated(cur, d, p)
  BY <1>2, <1>5 DEF PrevIsEdge
<1>. QED BY <1>4, <1>5

LEMMA PrevIsEdgeNext == QueryInv /\ PrevIsEdge /\ [QueryNext]_qvars => PrevIsEdge'
<1>. SUFFICES ASSUME QueryInv, PrevIsEdge, [QueryNext]_qvars PROVE PrevIsEdge'
  OBVIOUS
<1>1. CASE Visit
  BY <1>1, VisitPrevIsEdge
<1>2. CASE ~Visit
  <2>1. UNCHANGED <<net, prev>>
    BY <1>2 DEF QueryNext, Begin, Assemble, WalkBack, qvars
  <2>. QED BY <2>1 DEF PrevIsEdge, EdgeOf
<1>. QED BY <1>1, <1>2

(* The early returns leave no steps, or answer A = B, where the stations *)
(* are not distinct; the search starts with no steps.                     *)
LEMMA BeginSteps ==
    ASSUME QueryInv, StepsInv, Begin
    PROVE  StepsInv'
<1>0. pc = "start" /\ result.steps = <<>> /\ UNCHANGED <<net, a, b, cursor>>
  BY DEF Begin, StepsInv
<1>1. CASE UNCHANGED result /\ pc' \in {"search", "done"} /\ (pc' = "done" => ~Distinct)
  BY <1>0, <1>1 DEF StepsInv, StepsFormWalk, Distinct
<1>2. CASE /\ a \in net.stations /\ b \in net.stations /\ a = b
           /\ pc' = "done"
           /\ result' = [start |-> a, end |-> a, total |-> 0,
                         steps |-> << [from |-> a, to |-> a, slot |-> 0, time |-> 0] >>]
  <2>1. a \in StationId
    BY InvTypes
  <2>2. [from |-> a, to |-> a, slot |-> 0, time |-> 0] \in StepRec
    BY <2>1 DEF StepRec
  <2>3. ~Distinct'
    BY <1>0, <1>2 DEF Distinct
  <2>. QED BY <1>2, <2>2, <2>3 DEF StepsInv, StepsFormWalk
<1>. QED BY <1>0, <1>1, <1>2 DEF Begin, Distinct

(* The search does not touch the steps. *)
LEMMA VisitSteps ==
    ASSUME StepsInv, Visit
    PROVE  StepsInv'
<1>1. UNCHANGED <<net, a, b, pc, cursor, result>>
  BY DEF Visit
<1>. QED BY <1>1 DEF StepsInv, StepsFormWalk, WalkFrom, Distinct, Contract!IsWalk

(* The walk back starts at a PathStop of B with no steps. *)
LEMMA AssembleSteps ==
    ASSUME StepsInv, Assemble
    PROVE  StepsInv'
<1>0. pc = "search" /\ result.steps = <<>> /\ UNCHANGED <<net, a, b>>
  BY DEF Assemble, StepsInv
<1>1. CASE pc' = "done" /\ result' = [start |-> a, end |-> b, total |-> 0, steps |-> <<>>]
  BY <1>1 DEF StepsInv, StepsFormWalk
<1>2. CASE \E p \in AllStops :
              /\ p.node = b
              /\ pc' = "walk" /\ cursor' = p
              /\ result' = [start |-> a, end |-> b, total |-> dist[p], steps |-> <<>>]
  BY <1>0, <1>2 DEF StepsInv, StepsFormWalk
<1>. QED BY <1>1, <1>2 DEF Assemble

(* One iteration of the walk back prepends the edge that reaches the     *)
(* cursor from its previousStop: the steps stay a contiguous run of real  *)
(* edges to B, now starting at the previousStop.  Reaching A with steps   *)
(* makes them a walk from A to B.                                         *)
LEMMA WalkBackSteps ==
    ASSUME QueryInv, PrevIsEdge, StepsInv, WalkBack
    PROVE  StepsInv'
<1>0. pc = "walk" /\ UNCHANGED <<net, a, b>>
  BY DEF WalkBack
<1>1. CASE cursor.node = a /\ pc' = "done" /\ UNCHANGED <<cursor, result>>
  <2>1. result.steps # <<>> => WalkFrom(result.steps, a)
    BY <1>0, <1>1 DEF StepsInv
  <2>2. result.steps # <<>> => Contract!IsWalk(result.steps)
    BY <2>1 DEF WalkFrom, Contract!IsWalk
  <2>3. StepsFormWalk'
    BY <1>0, <1>1, <2>2 DEF StepsFormWalk, Distinct, Contract!IsWalk
  <2>. QED BY <1>1, <2>3 DEF StepsInv
<1>2. CASE /\ cursor.node # a
           /\ prev[cursor] # NoStop
           /\ cursor' = prev[cursor]
           /\ result' = [result EXCEPT !.steps =
                           << [from |-> prev[cursor].node, to |-> cursor.node,
                               slot |-> cursor.edge[2],
                               time |-> EdgeOf(cursor.edge).time] >> \o @]
           /\ UNCHANGED pc
  <2>. DEFINE x == [from |-> prev[cursor].node, to |-> cursor.node,
                    slot |-> cursor.edge[2], time |-> EdgeOf(cursor.edge).time]
              st == result.steps
              st2 == <<x>> \o st
  <2>1. cursor \in AllStops /\ prev[cursor] \in AllStops /\ net \in NetRec
    BY <1>0, <1>2, InvTypes DEF QueryInv, CursorSeen
  <2>2. /\ cursor.edge # NoneEdge
        /\ cursor.edge[1] = prev[cursor].node
        /\ EdgeOf(cursor.edge) # NoEdge
        /\ EdgeOf(cursor.edge).next = cursor.node
    BY <2>1, <1>2 DEF PrevIsEdge
  <2>3. cursor.edge \in StationId \X ObjIdx
    BY <2>1, <2>2 DEF AllStops
  <2>4. EdgeOf(cursor.edge) \in EdgeRec
    <3>1. EdgeOf(cursor.edge) \in EdgeRec \cup {NoEdge}
      BY <2>1, <2>3 DEF EdgeOf, NetRec
    <3>. QED BY <3>1, <2>2
  <2>5. x \in StepRec
    BY <2>1, <2>3, <2>4 DEF StepRec, EdgeRec, AllStops
  <2>6. st \in Seq(StepRec) /\ "steps" \in DOMAIN result
    BY DEF StepsInv
  <2>7. result'.steps = st2 /\ "steps" \in DOMAIN result'
    BY <1>2, <2>6
  <2>8. /\ st2 \in Seq(StepRec)
        /\ Len(st2) = 1 + Len(st)
        /\ st2[1] = x
        /\ \A i \in 2..Len(st2) : st2[i] = st[i - 1]
    <3>1. <<x>> \in Seq(StepRec) /\ Len(<<x>>) = 1 /\ <<x>>[1] = x
      BY <2>5
    <3>. QED BY <3>1, <2>6, ConcatProperties
  <2>9. /\ net.edge[x.from][x.slot] # NoEdge
        /\ net.edge[x.from][x.slot].next = x.to
        /\ net.edge[x.from][x.slot].time = x.time
    BY <2>2, <2>3 DEF EdgeOf
  <2>10. WalkFrom(st2, prev[cursor].node)
    <3>1. CASE st = <<>>
      <4>1. cursor.node = b
        BY <3>1, <1>0 DEF StepsInv
      <4>2. Len(st2) = 1
        BY <3>1, <2>8
      <4>3. st2[1].from = prev[cursor].node /\ st2[1].to = b
        BY <4>1, <2>8
      <4>4. st2[Len(st2)].to = b
        BY <4>2, <4>3
      <4>5. \A i \in 1..Len(st2) - 1 : st2[i].to = st2[i + 1].from
        BY <4>2
      <4>6. \A i \in 1..Len(st2) :
               /\ net.edge[st2[i].from][st2[i].slot] # NoEdge
               /\ net.edge[st2[i].from][st2[i].slot].next = st2[i].to
               /\ net.edge[st2[i].from][st2[i].slot].time = st2[i].time
        <5>1. \A i \in 1..Len(st2) : st2[i] = x
          BY <4>2, <2>8
        <5>. QED BY <5>1, <2>9
      <4>. QED BY <4>3, <4>4, <4>5, <4>6 DEF WalkFrom
    <3>2. CASE st # <<>>
      <4>1. WalkFrom(st, cursor.node)
        BY <3>2, <1>0 DEF StepsInv
      <4>2. Len(st) >= 1
        BY <3>2, <2>6
      <4>3. st2[1].from = prev[cursor].node
        BY <2>8
      <4>4. st2[Len(st2)].to = b
        <5>1. Len(st2) \in 2..Len(st2) /\ Len(st2) - 1 = Len(st)
          BY <4>2, <2>8
        <5>2. st2[Len(st2)] = st[Len(st)]
          BY <5>1, <2>8
        <5>. QED BY <5>2, <4>1 DEF WalkFrom
      <4>5. \A i \in 1..Len(st2) - 1 : st2[i].to = st2[i + 1].from
        <5>. SUFFICES ASSUME NEW i \in 1..Len(st2) - 1
                      PROVE  st2[i].to = st2[i + 1].from
          OBVIOUS
        <5>1. i + 1 \in 2..Len(st2) /\ st2[i + 1] = st[i]
          BY <2>8
        <5>2. CASE i = 1
          <6>1. st2[1].to = cursor.node
            BY <2>8
          <6>2. st[1].from = cursor.node
            BY <4>1 DEF WalkFrom
          <6>. QED BY <5>1, <5>2, <6>1, <6>2
        <5>3. CASE i # 1
          <6>1. i \in 2..Len(st2) /\ st2[i] = st[i - 1] /\ i - 1 \in 1..Len(st) - 1
            BY <5>3, <2>8
          <6>2. st[i - 1].to = st[(i - 1) + 1].from
            BY <6>1, <4>1 DEF WalkFrom
          <6>. QED BY <5>1, <6>1, <6>2
        <5>. QED BY <5>2, <5>3
      <4>6. \A i \in 1..Len(st2) :
               /\ net.edge[st2[i].from][st2[i].slot] # NoEdge
               /\ net.edge[st2[i].from][st2[i].slot].next = st2[i].to
               /\ net.edge[st2[i].from][st2[i].slot].time = st2[i].time
        <5>. SUFFICES ASSUME NEW i \in 1..Len(st2)
                      PROVE  /\ net.edge[st2[i].from][st2[i].slot] # NoEdge
                             /\ net.edge[st2[i].from][st2[i].slot].next = st2[i].to
                             /\ net.edge[st2[i].from][st2[i].slot].time = st2[i].time
          OBVIOUS
        <5>1. CASE i = 1
          BY <5>1, <2>8, <2>9
        <5>2. CASE i # 1
          <6>1. i - 1 \in 1..Len(st) /\ st2[i] = st[i - 1]
            BY <5>2, <2>8
          <6>. QED BY <6>1, <4>1 DEF WalkFrom
        <5>. QED BY <5>1, <5>2
      <4>. QED BY <4>3, <4>4, <4>5, <4>6 DEF WalkFrom
    <3>. QED BY <3>1, <3>2
  <2>11. st2 # <<>>
    BY <2>8
  <2>12. WalkFrom(result.steps, cursor.node)'
    BY <2>10, <2>7, <1>2, <1>0 DEF WalkFrom
  <2>13. pc' = "walk" /\ result'.steps # <<>> /\ result'.steps \in Seq(StepRec)
    BY <1>0, <1>2, <2>7, <2>8, <2>11
  <2>. QED BY <2>7, <2>12, <2>13 DEF StepsInv, StepsFormWalk
<1>. QED BY <1>1, <1>2 DEF WalkBack

LEMMA WalkNextInv == WalkInv /\ [QueryNext]_qvars => WalkInv'
<1>. SUFFICES ASSUME WalkInv, [QueryNext]_qvars PROVE WalkInv'
  OBVIOUS
<1>0. QueryInv /\ PrevIsEdge /\ StepsInv
  BY DEF WalkInv
<1>1. QueryInv' /\ PrevIsEdge'
  BY <1>0, NextInv, PrevIsEdgeNext
<1>2. StepsInv'
  <2>1. CASE Begin        BY <1>0, <2>1, BeginSteps
  <2>2. CASE Visit        BY <1>0, <2>2, VisitSteps
  <2>3. CASE Assemble     BY <1>0, <2>3, AssembleSteps
  <2>4. CASE WalkBack     BY <1>0, <2>4, WalkBackSteps
  <2>5. CASE UNCHANGED qvars
    BY <1>0, <2>5 DEF qvars, StepsInv, StepsFormWalk, WalkFrom, Distinct,
                      Contract!IsWalk
  <2>. QED BY <2>1, <2>2, <2>3, <2>4, <2>5 DEF QueryNext
<1>. QED BY <1>1, <1>2 DEF WalkInv

(* Between two distinct stations, the steps GetFastestTravelRoute returns *)
(* (after std::reverse) are a walk from A to B over edges of the network, *)
(* each step with its edge's travel time: on every network, with any tie- *)
(* breaking among equal distances and for any unsigned width.             *)
THEOREM StepsFormWalkHolds == QuerySpec => []StepsFormWalk
<1>1. QueryInit => WalkInv
  BY WalkInitInv
<1>2. WalkInv /\ [QueryNext]_qvars => WalkInv'
  BY WalkNextInv
<1>3. WalkInv => StepsFormWalk
  BY DEF WalkInv, StepsInv
<1>. QED BY <1>1, <1>2, <1>3, PTL DEF QuerySpec

=============================================================================
