---------------------------- MODULE NetworkLoader ----------------------------
(***************************************************************************)
(* TransportNetwork::FromJson (src/src/transport-network.cpp): all          *)
(* stations are added, then all lines, then all travel times, followed by  *)
(* the serving phase in which passenger events arrive.  The JSON document  *)
(* is unknown, so every station, line and travel-time entry it may list is *)
(* a nondeterministic choice, and each loop may end at any point.  A       *)
(* station or line that cannot be added throws: the load stops in         *)
(* "failed" with whatever AddLine had already installed.  A travel time    *)
(* that cannot be set clears ok and the load goes on.                      *)
(***************************************************************************)
EXTENDS TransportNetwork

VARIABLES
    phase,   \* which loop of FromJson runs, "done" after it returned
    ok       \* the bool FromJson returns

loadVars == <<vars, phase, ok>>

Phases == {"stations", "lines", "times", "done", "failed"}

LoadTypeOK ==
    /\ TypeOK
    /\ phase \in Phases
    /\ ok \in BOOLEAN

LoadInit ==
    /\ Init
    /\ phase = "stations"
    /\ ok = TRUE

(* First loop: AddStation, which throws on a repeated station id. *)
LoadStation(s) ==
    /\ phase = "stations"
    /\ \/ AddStation(s) /\ UNCHANGED <<phase, ok>>
       \/ s \in stations /\ phase' = "failed" /\ UNCHANGED <<vars, ok>>

(* Second loop: AddLine; a false return throws. *)
LoadLine(line) ==
    /\ phase = "lines"
    /\ \/ /\ AddLine(line)
          /\ phase' = IF Added(line, Len(line.routes)) THEN "lines" ELSE "failed"
          /\ UNCHANGED ok
       \/ /\ line.id \in lineIds
          /\ phase' = "failed"
          /\ UNCHANGED <<vars, ok>>

(* Third loop: ok &= SetTravelTime(...). *)
LoadTravelTime(a, b, t) ==
    /\ phase = "times"
    /\ \/ SetTravelTime(a, b, t) /\ UNCHANGED <<phase, ok>>
       \/ /\ ~(a \in stations /\ b \in stations /\ FoundAnyEdge(a, b))
          /\ ok' = FALSE
          /\ UNCHANGED <<vars, phase>>

(* The end of each loop. *)
EndLoop ==
    /\ \/ phase = "stations" /\ phase' = "lines"
       \/ phase = "lines" /\ phase' = "times"
       \/ phase = "times" /\ phase' = "done"
    /\ UNCHANGED <<vars, ok>>

(* After the load, the network only records passenger events. *)
Serve(s, ty) ==
    /\ phase = "done"
    /\ RecordPassengerEvent(s, ty)
    /\ UNCHANGED <<phase, ok>>

LoadNext ==
    \/ \E s \in StationId : LoadStation(s)
    \/ \E l \in LineInputs : LoadLine(l)
    \/ \E a, b \in StationId, t \in Times : LoadTravelTime(a, b, t)
    \/ EndLoop
    \/ \E s \in StationId, ty \in {"In", "Out"} : Serve(s, ty)

LoadSpec == LoadInit /\ [][LoadNext]_loadVars

=============================================================================
