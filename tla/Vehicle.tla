------------------------------ MODULE Vehicle ------------------------------
(***************************************************************************)
(* A vehicle as the tracker sees it (mavlink/vehicle.{h,cpp}), with the    *)
(* mission it assembles from MAVLink messages (mavlink/mission.{h,cpp}),   *)
(* and what its status changes mean to the submitter that is attached to   *)
(* it (monitor/submitting_vehicle_monitor.cpp).                            *)
(*                                                                         *)
(* A vehicle is known by its system id alone: every component of a vehicle *)
(* that sends heartbeats, and every ground station, writes to this state.  *)
(***************************************************************************)
EXTENDS Naturals, Sequences

CONSTANTS
    MaxMissionSize,     \* bound: the largest count a vehicle announces
    MaxSeq              \* bound: the largest sequence number of an item

ASSUME MissionAssumption == MaxMissionSize \in Nat /\ MaxSeq \in Nat

\* MAV_STATE, in the groups on_system_status_changed tells apart.
Grounded == {"UNINIT", "BOOT", "CALIBRATING", "STANDBY"}

Flying == {"ACTIVE", "CRITICAL", "EMERGENCY"}

Neither == {"POWEROFF", "FLIGHT_TERMINATION"}

Status == Grounded \cup Flying \cup Neither

(***************************************************************************)
(* mission_type of an item: the value 16 the code compares with, which is  *)
(* MAV_CMD_NAV_WAYPOINT, a command; or a mission type proper (0, 1, 2,     *)
(* 255).  An item's coordinate is known by its sequence number.            *)
(***************************************************************************)
MissionType == {"16", "MAV_MISSION_TYPE"}

Mission ==
    [coordinates  : Seq(0 .. MaxSeq),
     counter      : 0 .. MaxSeq + 1,
     mission_size : 0 .. MaxMissionSize]

NewMission == [coordinates |-> <<>>, counter |-> 0, mission_size |-> 0]

HandleMsgMissionClearAll(m) == NewMission

HandleMsgMissionCount(m, n) == [NewMission EXCEPT !.mission_size = n]

\* Mutants: accepts an item again, or one after a gap.
AcceptItemAgain(m, seq, type) ==
    IF seq > m.counter THEN m
    ELSE [m EXCEPT !.counter     = seq + 1,
                   !.coordinates = IF type = "16" THEN Append(@, seq) ELSE @]

AcceptItemAfterGap(m, seq, type) ==
    IF seq < m.counter THEN m
    ELSE [m EXCEPT !.counter     = seq + 1,
                   !.coordinates = IF type = "16" THEN Append(@, seq) ELSE @]

\* Only the expected item is taken; items may be repeated or missing.
HandleMsgMissionItem(m, seq, type) ==
    IF seq # m.counter THEN m
    ELSE [m EXCEPT !.counter     = @ + 1,
                   !.coordinates = IF type = "16" THEN Append(@, seq) ELSE @]

\* What handle_msg_mission_item returns: the item taken was the last one.
Completes(m, seq) == seq = m.counter /\ m.counter + 1 = m.mission_size

\* The geometry announced to the monitors, by what max_element makes of it.
AsGeometry(m) == IF m.coordinates = <<>> THEN "empty" ELSE "points"

-----------------------------------------------------------------------------
VehicleState == [system_status : Status, mission : Mission]

NewVehicle == [system_status |-> "UNINIT", mission |-> NewMission]

\* When SubmittingVehicleMonitor activates, and deactivates, the submitter.
Activates(old, new) == old \in Grounded /\ new = "ACTIVE"

\* Mutant: only the vehicle that was ACTIVE is deactivated.
DeactivatesFromActiveOnly(old, new) == old = "ACTIVE" /\ new \in Grounded

Deactivates(old, new) == old \in Flying /\ new \in Grounded

=============================================================================
