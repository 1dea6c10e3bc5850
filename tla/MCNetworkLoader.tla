--------------------------- MODULE MCNetworkLoader ---------------------------
(* TLC instance of NetworkLoader with the stations and lines of           *)
(* MCTransportNetwork.                                                    *)
EXTENDS NetworkLoader, MCTransportNetwork
=============================================================================
