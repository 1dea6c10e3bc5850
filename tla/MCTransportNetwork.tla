------------------------- MODULE MCTransportNetwork -------------------------
(* TLC instance of TransportNetwork: three stations, two lines.           *)
(* L1 runs a-b-c and back c-b-a; L2 runs b-c and c-a, so b->c is served  *)
(* by two routes and c-a closes a cycle; L2Dup repeats a route id, the    *)
(* DuplicateRouteId path.  Any line whose second route names a station   *)
(* not yet added fails after its first route was installed.               *)
EXTENDS TransportNetwork

MCStationId == {"a", "b", "c"}
MCLineId == {"L1", "L2"}
MCRouteId == {"r1", "r2"}

MCLineInputs ==
    { [id |-> "L1", routes |-> << [id |-> "r1", stops |-> <<"a", "b", "c">>],
                                 [id |-> "r2", stops |-> <<"c", "b", "a">>] >>],
      [id |-> "L2", routes |-> << [id |-> "r1", stops |-> <<"b", "c">>],
                                 [id |-> "r2", stops |-> <<"c", "a">>] >>],
      [id |-> "L2", routes |-> << [id |-> "r1", stops |-> <<"a", "b">>],
                                 [id |-> "r1", stops |-> <<"b", "a">>] >>] }

MCTimes == {1, 2}
=============================================================================
