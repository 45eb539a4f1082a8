--------------------------- MODULE MonitorDaemon ---------------------------
(***************************************************************************)
(* The monitor daemon: a tracker that turns MAVLink messages into vehicles *)
(* (mavlink/vehicle_tracker.cpp, mavlink/vehicle.cpp), one submitter per   *)
(* vehicle (monitor/daemon.cpp: on_vehicle_added), all of them with the    *)
(* same credentials, and the AirMap services they share.                   *)
(*                                                                         *)
(* Messages and callbacks run on the one thread of the context, a message  *)
(* being handled to the end of every monitor it reaches: one step each.    *)
(***************************************************************************)
EXTENDS SubmitterChain, Vehicle

CONSTANTS
    SystemId,           \* the system ids that appear on the channel
    Reported,           \* the states of MAV_STATE that vehicles report
    MaxOutstanding      \* bound: calls pending, over all submitters, before a
                        \* message that may issue more is handled

ASSUME DaemonAssumption ==
    /\ Reported \subseteq Status /\ MaxOutstanding \in Nat
    /\ Geometry = {"empty", "points"}

VARIABLES
    vehicles,       \* vehicles_: the vehicles added so far, by system id
    submitters,     \* the submitter of each of them
    open            \* flights that exist at the services and have not ended

vars == <<vehicles, submitters, open>>

TypeOK ==
    /\ DOMAIN vehicles \subseteq SystemId
    /\ DOMAIN submitters = DOMAIN vehicles
    /\ \A v \in DOMAIN vehicles : vehicles[v] \in VehicleState /\ submitters[v] \in Submitter
    /\ open \subseteq Flights

Init ==
    /\ vehicles = [v \in {} |-> NewVehicle]
    /\ submitters = [v \in {} |-> NewSubmitter]
    /\ open = {}

-----------------------------------------------------------------------------
(***************************************************************************)
(* VehicleTracker::update: a vehicle that is not known is added, with a    *)
(* submitter of its own, and then handles the message like any other.      *)
(***************************************************************************)
VehicleOf(v) == IF v \in DOMAIN vehicles THEN vehicles[v] ELSE NewVehicle

SubmitterOf(v) == IF v \in DOMAIN submitters THEN submitters[v] ELSE NewSubmitter

Set(f, v, x) == [w \in DOMAIN f \cup {v} |-> IF w = v THEN x ELSE f[w]]

Updated(v, vehicle, submitter) ==
    /\ vehicles' = Set(vehicles, v, vehicle)
    /\ submitters' = Set(submitters, v, submitter)
    /\ UNCHANGED open

Busy == MapThenSumSet(LAMBDA v : Outstanding(submitters[v]), DOMAIN submitters) > MaxOutstanding

OnSystemStatusChanged(s, old, new) ==
    IF Activates(old, new) THEN Activated(s)
    ELSE IF Deactivates(old, new) THEN Deactivated(s)
    ELSE s

Heartbeat(v, status) ==
    LET old == VehicleOf(v).system_status IN
    /\ ~Busy \/ ~Activates(old, status)
    /\ Updated(v, [VehicleOf(v) EXCEPT !.system_status = status],
               IF status = old THEN SubmitterOf(v)
               ELSE OnSystemStatusChanged(SubmitterOf(v), old, status))

GlobalPositionInt(v) ==
    /\ ~Busy
    /\ Updated(v, VehicleOf(v), Submitted(SubmitterOf(v)))

MissionClearAll(v) ==
    Updated(v, [VehicleOf(v) EXCEPT !.mission = HandleMsgMissionClearAll(@)], SubmitterOf(v))

MissionCount(v, n) ==
    Updated(v, [VehicleOf(v) EXCEPT !.mission = HandleMsgMissionCount(@, n)], SubmitterOf(v))

MissionItem(v, seq, type) ==
    LET m == VehicleOf(v).mission
        new == HandleMsgMissionItem(m, seq, type)
    IN  Updated(v, [VehicleOf(v) EXCEPT !.mission = new],
                IF Completes(m, seq)
                THEN WithMissionGeometry(SubmitterOf(v), AsGeometry(new))
                ELSE SubmitterOf(v))

-----------------------------------------------------------------------------
(***************************************************************************)
(* Replies.  Success(s, c, x) is the submitter after the callback of c ran *)
(* with the value x; the values are None where the callback uses none.     *)
(***************************************************************************)
Creates(c) == c.op \in {"create_flight_by_point", "submit_flight_plan"}

Ends(c) == c.op \in {"end_active_flights", "end_flight"}

Success(s, c, x) ==
    CASE c.op = "authorization"          -> HandleRequestAuthorizationFinished(s)
      [] c.op = "pilot_id"               -> HandleRequestPilotIdFinished(s)
      [] c.op = "active_flights"         -> HandleRequestActiveFlightsFinished(s, x)
      [] c.op = "end_active_flights"     -> HandleRequestEndActiveFlightFinished(s, c.flight)
      [] c.op = "create_flight_plan"     -> HandleRequestCreateFlightPlanFinished(s)
      [] c.op = "create_flight_by_point" -> HandleRequestSubmitFlightPlanFinished(s, x)
      [] c.op = "submit_flight_plan"     -> HandleRequestSubmitFlightPlanFinished(s, x)
      [] c.op = "traffic_monitoring"     -> HandleRequestMonitorTrafficFinished(s, c.flight)
      [] c.op = "start_flight_comms"     -> HandleRequestStartFlightCommsFinished(s, c.flight)
      [] c.op = "end_flight"             -> s

\* External: an identifier nobody names stands for one never used before, and
\* a search finds the pilot's open flights, whoever created them.
Unused == Flights \ (open \cup UNION {Named(submitters[v]) : v \in DOMAIN submitters})

Payload(c) ==
    IF Creates(c) THEN Unused ELSE IF c.op = "active_flights" THEN {open} ELSE {None}

\* External: what the services do for c before they answer x.
Served(c, x) ==
    IF Creates(c) THEN open \cup {x} ELSE IF Ends(c) THEN open \ {c.flight} ELSE open

Succeeded(v, c) ==
    /\ Pending(submitters[v], c)
    /\ \E x \in Payload(c) :
          /\ submitters' = [submitters EXCEPT ![v] = Success(Taken(@, c), c, x)]
          /\ open' = Served(c, x)
    /\ UNCHANGED vehicles

CallFailed(v, c) ==
    /\ Pending(submitters[v], c)
    /\ submitters' = [submitters EXCEPT ![v] = Failed(Taken(@, c), c)]
    /\ UNCHANGED <<vehicles, open>>

\* The services did what they were asked to and the answer was lost.
ReplyLost(v, c) ==
    /\ Pending(submitters[v], c)
    /\ Creates(c) \/ Ends(c)
    /\ \E x \in Payload(c) : open' = Served(c, x)
    /\ submitters' = [submitters EXCEPT ![v] = Failed(Taken(@, c), c)]
    /\ UNCHANGED vehicles

\* External: a flight reaches its end_time.
Expire(f) ==
    /\ f \in open
    /\ open' = open \ {f}
    /\ UNCHANGED <<vehicles, submitters>>

-----------------------------------------------------------------------------
Message(v) ==
    \/ \E status \in Reported : Heartbeat(v, status)
    \/ GlobalPositionInt(v)
    \/ MissionClearAll(v)
    \/ \E n \in 0 .. MaxMissionSize : MissionCount(v, n)
    \/ \E seq \in 0 .. MaxSeq, type \in MissionType : MissionItem(v, seq, type)

Reply(v) == \E c \in Call : Succeeded(v, c) \/ CallFailed(v, c) \/ ReplyLost(v, c)

Next ==
    \/ \E v \in SystemId : Message(v)
    \/ \E v \in DOMAIN submitters : Reply(v)
    \/ \E f \in Flights : Expire(f)

Spec == Init /\ [][Next]_vars

-----------------------------------------------------------------------------
(***************************************************************************)
(* Properties.                                                             *)
(***************************************************************************)
\* Whatever items are repeated, lost or sent past the end, a mission keeps the
\* coordinates of distinct items in their order, all of them counted.
MissionInOrder ==
    \A v \in DOMAIN vehicles :
        LET m == vehicles[v].mission IN
        /\ \A i, j \in DOMAIN m.coordinates : i < j => m.coordinates[i] < m.coordinates[j]
        /\ \A i \in DOMAIN m.coordinates : m.coordinates[i] < m.counter

\* A mission that is complete has reached the submitter: the geometry a flight
\* plan would be made of is the one assembled last, through every repetition,
\* restart and clearing of the transfer.
CompleteMissionIsHandedOver ==
    \A v \in DOMAIN vehicles :
        LET m == vehicles[v].mission IN
        m.counter = m.mission_size /\ m.counter > 0
            => submitters[v].mission_geometry = AsGeometry(m)

ActiveOnGround(v) ==
    vehicles[v].system_status \in Grounded /\ submitters[v].state = "active"

InactiveInFlight(v) ==
    vehicles[v].system_status = "ACTIVE" /\ submitters[v].state = "inactive"

\* Submitter and vehicle agree on whether there is a flight to report, except
\* after two detours: to the ground by way of POWEROFF or FLIGHT_TERMINATION
\* (the submitter stays active), and to ACTIVE by way of any state that is not
\* on the ground (an inactive submitter stays inactive).
AgreeUnlessDetour ==
    [][\A v \in DOMAIN vehicles :
          /\ ActiveOnGround(v)' /\ ~ActiveOnGround(v)
                => vehicles[v].system_status \in Neither
          /\ InactiveInFlight(v)' /\ ~InactiveInFlight(v)
                => vehicles[v].system_status \notin Grounded]_vars

\* "when the state of a vehicle changes to inactive: ... end flight"
\* (include/airmap/monitor/README.md:11): the flight of an active submitter ends
\* with its end_time and not before, unless a reply of an earlier session
\* interferes.  True of one vehicle; the search for flights to end finds those
\* of the others too.
FlightLastsWhileActive ==
    [][\A v \in DOMAIN submitters :
          LET s == submitters[v] IN
          s.state = "active" /\ s.flight \in open \ open'
              => s.late \/ submitters'[v].late \/ Expire(s.flight)]_vars

=============================================================================
