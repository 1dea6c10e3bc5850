---------------------------- MODULE MCFastestRoute ----------------------------
(* TLC instance of FastestRoute: stations a, b, c (d is an id that is no  *)
(* station), three route objects.  Each slot holds one of a few routes,  *)
(* so that B is reached directly, over a change of route, or not at all, *)
(* and every directed hop has time 0 or 6: a change of route (5) then    *)
(* beats a slower hop of the same route, and 0-time edges, which AddLine *)
(* creates, are present.  Times need not agree between directions: I6   *)
(* does not always hold (see TransportNetwork).                          *)
EXTENDS FastestRoute

MCStationId == {"a", "b", "c", "d"}

(* The build's unsigned int has 2^32 values, more than TLC's integers   *)
(* hold.  Here every distance stays below 100, so a limit of 2^30 wraps *)
(* no sum, exactly as 2^32 would not.                                    *)
MCUIntLimit == 2^30
MCObjIdx == 1..3
MCStations == {"a", "b", "c"}

RouteChoices ==
    [o \in MCObjIdx |->
        CASE o = 1 -> {<<"a", "b", "c">>, <<"a", "c">>}
          [] o = 2 -> {<<"c", "b", "a">>, <<"a", "b">>}
          [] o = 3 -> {<<"b", "c">>, <<"c", "a">>, <<>>}]

Hops == {<<x, y>> : x, y \in MCStations} \ {<<x, x>> : x \in MCStations}

MCEdge(stopsOf, time) ==
    [s \in MCStationId |-> [o \in MCObjIdx |->
        LET st == stopsOf[o] IN
        IF \E i \in 1..Len(st) - 1 : st[i] = s
        THEN LET i == CHOOSE k \in 1..Len(st) - 1 : st[k] = s IN
             [next |-> st[i + 1], time |-> time[<<s, st[i + 1]>>]]
        ELSE NoEdge]]

MCNetworks ==
    {[stations |-> MCStations, edge |-> MCEdge(stopsOf, time)] :
        stopsOf \in {f \in [MCObjIdx -> UNION {RouteChoices[o] : o \in MCObjIdx}] :
                       \A o \in MCObjIdx : f[o] \in RouteChoices[o]},
        time \in [Hops -> {0, 6}]}
=============================================================================
