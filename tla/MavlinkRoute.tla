---------------------------- MODULE MavlinkRoute ----------------------------
(***************************************************************************)
(* MAVLink from `airmap simulate-scenario` to daemons connected over TCP:  *)
(* the announcement of the simulated vehicles (TcpRouteMonitor), the       *)
(* positions of the runner's thread (util/scenario_simulator.cpp) through  *)
(* the router and its TcpRoute with one session per daemon                 *)
(* (mavlink/router.cpp, mavlink/boost/tcp_route.cpp), and at the other end *)
(* the channels (mavlink/channel.cpp, mavlink/boost/tcp_channel.cpp) and   *)
(* the vehicles the daemon tracks.                                         *)
(*                                                                         *)
(* One thread runs the simulator's handlers, one at a time; RoutePosition is   *)
(* the runner's thread, Receive a daemon's.  A handler that asks a socket  *)
(* for its remote endpoint after the connection was reset throws, and the  *)
(* context goes on with the next handler (boost/context.cpp:109-117).      *)
(***************************************************************************)
EXTENDS Vehicle, FiniteSets, SequencesExt

CONSTANTS
    Daemon,         \* daemons that connect to the route, each at most once
    Filtered,       \* those that were given a --system-id
    Nobody,         \* no daemon
    Vehicles,       \* the number of participants of the scenario
    Waypoints,      \* bound: waypoints of each participant's geometry
    MaxRouted,      \* bound: positions the runner routes
    MaxWire         \* bound: messages a connection holds

\* A scenario has participants.  The bounds hold what is announced of them.
ASSUME RouteAssumption ==
    /\ Nobody \notin Daemon
    /\ Nobody \notin [session : Daemon, vehicle : Nat, sent : Nat]
    /\ Vehicles \in Nat \ {0} /\ Waypoints \in Nat /\ MaxRouted \in Nat
    /\ Waypoints <= MaxMissionSize /\ Waypoints <= MaxSeq + 1

VARIABLES
    waiting,        \* daemons in the listener's backlog
    accepting,      \* async_accept is pending
    accept,         \* the accept handler at work: its session, the vehicle it
                    \* announces and the messages sent of that; or Nobody
    sessions,       \* sessions_ of the route, in the order of iteration
    posted,         \* what was posted to the simulator's io_service
    buffers,        \* buffers_ of each session
    writing,        \* sessions with an async_write in progress
    routed,         \* positions routed so far
    connection,     \* of each daemon
    wire,           \* messages written to it and not yet read
    daemons         \* what each daemon reads from and knows

routeVars ==
    <<waiting, accepting, accept, sessions, posted, buffers, writing, routed, connection, wire, daemons>>

-----------------------------------------------------------------------------
\* Messages.  A position is known by the number it was routed as; those of an
\* announcement have number 0.
Message == [kind : {"position", "count", "item", "heartbeat"}, vehicle : 1 .. Vehicles, number : Nat]

Of(v, kind, number) == [kind |-> kind, vehicle |-> v, number |-> number]

\* Mutant: armed before the waypoints.
ArmedFirst(v) ==
    <<Of(v, "position", 0), Of(v, "heartbeat", 0), Of(v, "count", Waypoints)>>
    \o [k \in 1 .. Waypoints |-> Of(v, "item", k - 1)]

\* What on_new_session sends of one participant: where it is, its geometry as
\* a mission, and a heartbeat that says it is active.
Announced(v) ==
    <<Of(v, "position", 0), Of(v, "count", Waypoints)>>
    \o [k \in 1 .. Waypoints |-> Of(v, "item", k - 1)]
    \o <<Of(v, "heartbeat", 0)>>

\* One message further, and on to the next participant.
Advanced(a) ==
    IF a.sent + 1 < Waypoints + 3 THEN [a EXCEPT !.sent = @ + 1]
    ELSE [a EXCEPT !.vehicle = @ + 1, !.sent = 0]

\* session = Nobody: the route's handler, for every session.
Posted == [session : Daemon \cup {Nobody}, message : Message]

\* joined, a history variable: the last position before the session.
DaemonState ==
    [reading : BOOLEAN, vehicles : [1 .. Vehicles -> VehicleState],
     positions : Seq(1 .. MaxRouted), joined : 0 .. MaxRouted]

RouteTypeOK ==
    /\ waiting \subseteq Daemon /\ writing \subseteq Daemon
    /\ accepting \in BOOLEAN
    /\ accept \in {Nobody} \cup
           [session : Daemon, vehicle : 1 .. Vehicles + 1, sent : 0 .. Waypoints + 2]
    /\ sessions \in Seq(Daemon) /\ posted \in Seq(Posted)
    /\ buffers \in [Daemon -> Seq(Message)] /\ wire \in [Daemon -> Seq(Message)]
    /\ routed \in 0 .. MaxRouted
    /\ connection \in [Daemon -> {"none", "up", "reset"}]
    /\ daemons \in [Daemon -> DaemonState]

RouteInit ==
    /\ waiting = {} /\ writing = {} /\ sessions = <<>> /\ posted = <<>>
    /\ accepting = TRUE /\ accept = Nobody /\ routed = 0
    /\ buffers = [d \in Daemon |-> <<>>] /\ wire = [d \in Daemon |-> <<>>]
    /\ connection = [d \in Daemon |-> "none"]
    /\ daemons = [d \in Daemon |-> [reading |-> FALSE, positions |-> <<>>, joined |-> 0,
                                    vehicles |-> [v \in 1 .. Vehicles |-> NewVehicle]]]

-----------------------------------------------------------------------------
(***************************************************************************)
(* The route.                                                              *)
(***************************************************************************)
Idle == accept = Nobody

\* remote_endpoint() returns.
Reachable(d) == connection[d] = "up"

\* The handler of async_accept logs the endpoint first.
AcceptStarts(d) ==
    /\ Idle /\ accepting /\ d \in waiting
    /\ waiting' = waiting \ {d}
    /\ accepting' = FALSE
    /\ accept' = IF Reachable(d) THEN [session |-> d, vehicle |-> 1, sent |-> 0] ELSE Nobody
    /\ UNCHANGED <<sessions, posted, buffers, writing, routed, connection, wire, daemons>>

\* Session::process, for the next message of the announcement.
AnnounceNext ==
    /\ ~Idle /\ accept.vehicle <= Vehicles
    /\ IF Reachable(accept.session)
       THEN /\ posted' = Append(posted, [session |-> accept.session,
                                         message |-> Announced(accept.vehicle)[accept.sent + 1]])
            /\ accept' = Advanced(accept)
       ELSE accept' = Nobody /\ UNCHANGED posted
    /\ UNCHANGED <<waiting, accepting, sessions, buffers, writing, routed, connection, wire, daemons>>

\* TcpRoute::process posted a handler for the n-th position that did not run yet.
Unrouted(n) == \E i \in DOMAIN posted : posted[i].session = Nobody /\ posted[i].message.number = n

\* The last position whose handler ran.
LastTaken == CHOOSE n \in 0 .. routed : \A m \in 1 .. routed : Unrouted(m) <=> m > n

\* Mutant: the route goes on accepting only until its first session.
AcceptEndsAtFirst ==
    /\ ~Idle /\ accept.vehicle > Vehicles
    /\ \E i \in 1 .. Len(sessions) + 1 : sessions' = InsertAt(sessions, i, accept.session)
    /\ accept' = Nobody
    /\ accepting' = FALSE
    /\ daemons' = [daemons EXCEPT ![accept.session].joined = LastTaken]
    /\ UNCHANGED <<waiting, posted, buffers, writing, routed, connection, wire>>

\* The session enters sessions_, a set ordered by address, and start() accepts
\* the next one.
AcceptEnds ==
    /\ ~Idle /\ accept.vehicle > Vehicles
    /\ \E i \in 1 .. Len(sessions) + 1 : sessions' = InsertAt(sessions, i, accept.session)
    /\ accept' = Nobody
    /\ accepting' = TRUE
    /\ daemons' = [daemons EXCEPT ![accept.session].joined = LastTaken]
    /\ UNCHANGED <<waiting, posted, buffers, writing, routed, connection, wire>>

\* The route's handler gets to the first n sessions: to all, or to those before
\* one that throws.
Reaches(n) ==
    /\ \A i \in 1 .. n : Reachable(sessions[i])
    /\ n < Len(sessions) => ~Reachable(sessions[n + 1])

\* Mutant: a message is not queued behind one that is being written.
EmplacedUnlessWriting(d, m) ==
    /\ buffers' = [buffers EXCEPT ![d] = IF d \in writing THEN @ ELSE Append(@, m)]
    /\ writing' = writing \cup {d}

\* What Session::process posts: only a buffer that is alone starts a write.
Emplaced(d, m) ==
    /\ buffers' = [buffers EXCEPT ![d] = Append(@, m)]
    /\ writing' = IF buffers[d] = <<>> THEN writing \cup {d} ELSE writing

\* The next posted handler.
RunPosted ==
    /\ Idle /\ posted # <<>>
    /\ LET h == Head(posted) IN
       IF h.session = Nobody
       THEN /\ \E n \in 0 .. Len(sessions) :
                /\ Reaches(n)
                /\ posted' = Tail(posted) \o
                       [i \in 1 .. n |-> [session |-> sessions[i], message |-> h.message]]
            /\ UNCHANGED <<buffers, writing>>
       ELSE /\ posted' = Tail(posted)
            /\ Emplaced(h.session, h.message)
    /\ UNCHANGED <<waiting, accepting, accept, sessions, routed, connection, wire, daemons>>

\* External: a write completes once the connection takes the message, or fails.
Fits(d) == Len(wire[d]) < MaxWire

\* Mutant: the next buffer waits for another one to be emplaced.
WrittenAlone(d) ==
    /\ Idle /\ d \in writing /\ Fits(d)
    /\ buffers' = [buffers EXCEPT ![d] = Tail(@)]
    /\ wire' = IF Reachable(d) THEN [wire EXCEPT ![d] = Append(@, Head(buffers[d]))] ELSE wire
    /\ writing' = writing \ {d}
    /\ UNCHANGED <<waiting, accepting, accept, sessions, posted, routed, connection, daemons>>

\* The handler of async_write goes on with the next buffer, unless it failed.
SessionWritten(d) ==
    /\ Idle /\ d \in writing /\ Fits(d)
    /\ buffers' = [buffers EXCEPT ![d] = Tail(@)]
    /\ wire' = IF Reachable(d) THEN [wire EXCEPT ![d] = Append(@, Head(buffers[d]))] ELSE wire
    /\ writing' = IF Reachable(d) /\ Len(buffers[d]) > 1 THEN writing ELSE writing \ {d}
    /\ UNCHANGED <<waiting, accepting, accept, sessions, posted, routed, connection, daemons>>

\* The runner's thread: ScenarioSimulator::update goes round the participants,
\* and every position is posted by TcpRoute::process.
RoutePosition ==
    /\ routed < MaxRouted
    /\ routed' = routed + 1
    /\ posted' = Append(posted, [session |-> Nobody,
                                 message |-> Of((routed % Vehicles) + 1, "position", routed')])
    /\ UNCHANGED <<waiting, accepting, accept, sessions, buffers, writing, connection, wire, daemons>>

-----------------------------------------------------------------------------
(***************************************************************************)
(* The daemons.                                                            *)
(***************************************************************************)
\* TcpChannel connects when it is made, and reads once it is started.  Started
\* in its place, a FilteringChannel subscribes to the TcpChannel and leaves it
\* as it is.
DaemonConnects(d) ==
    /\ connection[d] = "none"
    /\ connection' = [connection EXCEPT ![d] = "up"]
    /\ waiting' = waiting \cup {d}
    /\ daemons' = [daemons EXCEPT ![d].reading = d \notin Filtered]
    /\ UNCHANGED <<accepting, accept, sessions, posted, buffers, writing, routed, wire>>

\* External: the connection is lost, with what was on the wire; handle_read gets
\* the error and does not read on.
Reset(d) ==
    /\ connection[d] = "up"
    /\ connection' = [connection EXCEPT ![d] = "reset"]
    /\ wire' = [wire EXCEPT ![d] = <<>>]
    /\ daemons' = [daemons EXCEPT ![d].reading = FALSE]
    /\ UNCHANGED <<waiting, accepting, accept, sessions, posted, buffers, writing, routed>>

\* Vehicle::update
Tracked(x, m) ==
    CASE m.kind = "heartbeat" -> [x EXCEPT !.system_status = "ACTIVE"]
      [] m.kind = "count"     -> [x EXCEPT !.mission = HandleMsgMissionCount(@, m.number)]
      [] m.kind = "item"      -> [x EXCEPT !.mission = HandleMsgMissionItem(@, m.number, "16")]
      [] m.kind = "position"  -> x

\* What the daemon's subscriber makes of a message.
Handled(x, m) ==
    [x EXCEPT !.vehicles[m.vehicle] = Tracked(@, m),
              !.positions = IF m.kind = "position" /\ m.number > 0 THEN Append(@, m.number) ELSE @]

\* TcpChannel::handle_read, which reads on.
Receive(d) ==
    /\ daemons[d].reading /\ wire[d] # <<>>
    /\ daemons' = [daemons EXCEPT ![d] = Handled(@, Head(wire[d]))]
    /\ wire' = [wire EXCEPT ![d] = Tail(@)]
    /\ UNCHANGED <<waiting, accepting, accept, sessions, posted, buffers, writing, routed, connection>>

-----------------------------------------------------------------------------
RouteNext ==
    \/ AnnounceNext \/ AcceptEnds \/ RunPosted \/ RoutePosition
    \/ \E d \in Daemon : AcceptStarts(d) \/ SessionWritten(d) \/ DaemonConnects(d) \/ Reset(d) \/ Receive(d)

\* Threads that have work do it.
RouteFairness ==
    /\ WF_routeVars(AnnounceNext) /\ WF_routeVars(AcceptEnds) /\ WF_routeVars(RunPosted)
    /\ \A d \in Daemon :
          WF_routeVars(AcceptStarts(d)) /\ WF_routeVars(SessionWritten(d)) /\ WF_routeVars(Receive(d))

RouteSpec == RouteInit /\ [][RouteNext]_routeVars /\ RouteFairness

-----------------------------------------------------------------------------
\* When a daemon's vehicle becomes active, or gets a position of the running
\* simulation, its mission is complete: three queues keep the announcement in
\* one piece although the runner posts positions while it is made.  A flight
\* would be requested without a mission otherwise, and a submitter requests
\* its flight once only.
AnnouncedBeforeFlown ==
    \A d \in Daemon :
        LET x == daemons[d] IN
        \A v \in 1 .. Vehicles :
            x.vehicles[v].system_status = "ACTIVE" \/ x.positions # <<>>
                => /\ x.vehicles[v].system_status = "ACTIVE"
                   /\ Len(x.vehicles[v].mission.coordinates) = Waypoints
                   /\ x.vehicles[v].mission.mission_size = Waypoints

SkippedAfterReset(d) ==
    \E i, j \in DOMAIN sessions : i < j /\ sessions[j] = d /\ ~Reachable(sessions[i])

\* A daemon gets the positions routed since it became a session, in order.  One
\* is missing only if the route gave up at another session: "TcpRoute forwards all
\* incoming messages to connected TCP clients" (tcp_route.h:33) holds until a
\* session that comes earlier in the set has lost its connection.
GapsOnlyBehindDeadSessions ==
    \A d \in Daemon :
        LET p == <<daemons[d].joined>> \o daemons[d].positions IN
        \A i \in 1 .. Len(p) - 1 :
            /\ p[i] < p[i + 1]
            /\ p[i + 1] = p[i] + 1 \/ SkippedAfterReset(d)

\* A daemon lost its connection while the accept handler was at it.
LostInAccept(d) ==
    ~Reachable(d) /\ connection[d] # "none" /\ d \notin waiting /\ d \notin ToSet(sessions)

\* A daemon that connects becomes a session, whatever the sessions do.  After
\* one connection that breaks while it is accepted, start() is never called
\* again, and no daemon is.
EveryDaemonIsAccepted ==
    \A d \in Daemon :
        d \in waiting ~> d \in ToSet(sessions) \/ (\E e \in Daemon : LostInAccept(e))

\* A position routed to a session arrives, unless the daemon was given a
\* --system-id: its FilteringChannel never starts the channel it filters.
EveryPositionArrives ==
    \A d \in Daemon \ Filtered, n \in 1 .. MaxRouted :
        (d \in ToSet(sessions) /\ Unrouted(n))
            ~> \/ n \in ToSet(daemons[d].positions)
               \/ ~Reachable(d) \/ SkippedAfterReset(d)
=============================================================================
