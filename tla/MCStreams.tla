------------------------------ MODULE MCStreams ------------------------------
(***************************************************************************)
(* What the programs of this repository stream to others: traffic updates  *)
(* over gRPC (MonitorService), or MAVLink over TCP (MavlinkRoute).  The    *)
(* two share nothing; part is the one that moves.                          *)
(***************************************************************************)
EXTENDS MonitorService, MavlinkRoute

VARIABLE part

StreamsInit ==
    /\ part \in {"service", "route"}
    /\ Init
    /\ RouteInit

StreamsNext ==
    \/ part = "service" /\ Next /\ UNCHANGED <<part, routeVars>>
    \/ part = "route" /\ RouteNext /\ UNCHANGED <<part, vars>>

StreamsSpec ==
    StreamsInit /\ [][StreamsNext]_<<part, vars, routeVars>> /\ Fairness /\ RouteFairness

\* Types, of both parts.
StreamsTypeOK == TypeOK /\ RouteTypeOK
=============================================================================
