--------------------------- MODULE SubmitterChain ---------------------------
(***************************************************************************)
(* The state of one TelemetrySubmitter (monitor/telemetry_submitter.{h,    *)
(* cpp}) and its request_X / handle_request_X_finished functions, as       *)
(* operators from the submitter before the call to the submitter after it. *)
(*                                                                         *)
(* A submitter walks through a chain of asynchronous calls to the AirMap   *)
(* services: authenticate, look up the pilot, search the pilot's active    *)
(* flights, end each of them, create a flight (by polygon, in two calls,   *)
(* or by point), then monitor traffic and start flight communications for  *)
(* the new flight.  Each request_X goes straight on when its value is      *)
(* already there, returns when X was requested, and otherwise sets the     *)
(* flag and issues the call.                                               *)
(*                                                                         *)
(* The callbacks hold a shared pointer to the submitter and nothing else,  *)
(* so a reply is applied to whatever the submitter has become meanwhile.   *)
(***************************************************************************)
EXTENDS Naturals, FiniteSets, FiniteSetsExt

CONSTANTS
    Flights,    \* identifiers of flights
    Geometry,   \* mission geometries, by what max_element makes of them:
                \* "points", or "empty" when there are no coordinates
    None        \* an Optional<T> that holds no value

ASSUME FlightsAssumption ==
    /\ None \notin Flights /\ IsFiniteSet(Flights)
    /\ \A S \in SUBSET Flights : None # S

ASSUME GeometryAssumption == Geometry \subseteq {"empty", "points"}

ASSUME NoneAssumption == None \notin {"empty", "points"}

\* The eight bool X_requested_ members.
Stage == {"authorization", "pilot_id", "active_flights", "end_active_flights",
          "create_flight_plan", "submit_flight_plan", "traffic_monitoring",
          "start_flight_comms"}

PlainOp == {"authorization", "pilot_id", "active_flights",
            "create_flight_plan", "create_flight_by_point", "submit_flight_plan"}

FlightOp == {"end_active_flights", "traffic_monitoring", "start_flight_comms",
             "end_flight"}

(***************************************************************************)
(* A call whose callback has not run yet.  "stale" is not in the code: it  *)
(* tells the calls issued before the last deactivate() from later ones.    *)
(***************************************************************************)
Call == [op : PlainOp, flight : {None}, stale : BOOLEAN]
            \cup [op : FlightOp, flight : Flights, stale : BOOLEAN]

\* The flag that the failure branch of a callback resets.
StageOf(op) == IF op = "create_flight_by_point" THEN "create_flight_plan" ELSE op

(***************************************************************************)
(* The submitter.  An authorization, a pilot id and a flight plan are only *)
(* ever tested for presence; a traffic monitor and an encryption key stand *)
(* for the flight they were requested for.  calls is the bag of pending    *)
(* callbacks.  undefined (what was read from an empty Optional or range)   *)
(* and late (a stale reply was applied since the last deactivate()) are    *)
(* history.                                                                *)
(***************************************************************************)
Submitter ==
    [state            : {"active", "inactive"},
     requested        : [Stage -> BOOLEAN],
     authorization    : BOOLEAN,
     pilot_id         : BOOLEAN,
     active_flights   : (SUBSET Flights) \cup {None},
     flight_plan      : BOOLEAN,
     flight           : Flights \cup {None},
     traffic_monitor  : Flights \cup {None},
     encryption_key   : Flights \cup {None},
     current_position : BOOLEAN,
     mission_geometry : Geometry \cup {None},
     calls            : [Call -> Nat],
     undefined        : SUBSET {"authorization", "pilot_id", "coordinates"},
     late             : BOOLEAN]

NewSubmitter ==
    [state            |-> "inactive",
     requested        |-> [x \in Stage |-> FALSE],
     authorization    |-> FALSE,
     pilot_id         |-> FALSE,
     active_flights   |-> None,
     flight_plan      |-> FALSE,
     flight           |-> None,
     traffic_monitor  |-> None,
     encryption_key   |-> None,
     current_position |-> FALSE,
     mission_geometry |-> None,
     calls            |-> [c \in Call |-> 0],
     undefined        |-> {},
     late             |-> FALSE]

-----------------------------------------------------------------------------
\* What the request functions share.

Fresh(op, f) == [op |-> op, flight |-> f, stale |-> FALSE]

Flagged(s, x) == [s EXCEPT !.requested[x] = TRUE]

Issued(s, op, f) == [s EXCEPT !.calls[Fresh(op, f)] = @ + 1]

\* authorization_.get() and friends: defined only if the Optional has a value.
Reads(s, what) == [s EXCEPT !.undefined = @ \cup what]

ReadsAuthorization(s) ==
    Reads(s, IF s.authorization THEN {} ELSE {"authorization"})

-----------------------------------------------------------------------------
(***************************************************************************)
(* The chain, last function first.                                         *)
(***************************************************************************)
HandleRequestStartFlightCommsFinished(s, f) == [s EXCEPT !.encryption_key = f]

RequestStartFlightComms(s) ==
    IF s.encryption_key # None
    THEN HandleRequestStartFlightCommsFinished(s, s.encryption_key)
    ELSE IF s.requested["start_flight_comms"] THEN s
    ELSE Issued(ReadsAuthorization(Flagged(s, "start_flight_comms")),
                "start_flight_comms", s.flight)

HandleRequestMonitorTrafficFinished(s, f) == [s EXCEPT !.traffic_monitor = f]

RequestMonitorTraffic(s) ==
    IF s.traffic_monitor # None
    THEN HandleRequestMonitorTrafficFinished(s, s.traffic_monitor)
    ELSE IF s.requested["traffic_monitoring"] THEN s
    ELSE Issued(ReadsAuthorization(Flagged(s, "traffic_monitoring")),
                "traffic_monitoring", s.flight)

HandleRequestSubmitFlightPlanFinished(s, f) ==
    RequestStartFlightComms(RequestMonitorTraffic([s EXCEPT !.flight = f]))

RequestSubmitFlightPlan(s) ==
    IF s.flight # None THEN HandleRequestSubmitFlightPlanFinished(s, s.flight)
    ELSE IF s.requested["submit_flight_plan"] THEN s
    ELSE Issued(ReadsAuthorization(Flagged(s, "submit_flight_plan")),
                "submit_flight_plan", None)

HandleRequestCreateFlightPlanFinished(s) ==
    RequestSubmitFlightPlan([s EXCEPT !.flight_plan = TRUE])

\* max_element over no coordinates yields end(), which is then dereferenced.
\* The geometry of a vehicle is a line string that is read as a polygon; the
\* coordinates come first in both, so the build reads the mission's.
CreateByPolygon(s) ==
    Issued(Reads(ReadsAuthorization(s),
                 (IF s.pilot_id THEN {} ELSE {"pilot_id"})
                     \cup (IF s.mission_geometry = "empty" THEN {"coordinates"} ELSE {})),
           "create_flight_plan", None)

CreateByPoint(s) == Issued(ReadsAuthorization(s), "create_flight_by_point", None)

\* Without a position the flag is set and nothing is issued.
RequestCreateFlightPlan(s) ==
    IF s.flight_plan THEN HandleRequestCreateFlightPlanFinished(s)
    ELSE IF s.requested["create_flight_plan"] THEN s
    ELSE LET t == Flagged(s, "create_flight_plan") IN
         IF ~s.current_position THEN t
         ELSE IF s.mission_geometry # None THEN CreateByPolygon(t)
         ELSE CreateByPoint(t)

\* Mutant: goes on after the first flight has ended instead of the last.
CreateAfterFirstEnd(s, f) ==
    RequestCreateFlightPlan([s EXCEPT !.active_flights = @ \ {f}])

HandleRequestEndActiveFlightFinished(s, f) ==
    LET t == [s EXCEPT !.active_flights = @ \ {f}] IN
    IF t.active_flights = {} THEN RequestCreateFlightPlan(t) ELSE t

\* One end_flight call per flight found, each with authorization_.get().
EndEach(s) ==
    [ReadsAuthorization(s) EXCEPT
        !.calls = [c \in Call |->
            IF c.op = "end_active_flights" /\ c.flight \in s.active_flights /\ ~c.stale
            THEN s.calls[c] + 1 ELSE s.calls[c]]]

RequestEndActiveFlights(s) ==
    IF s.active_flights = {} THEN RequestCreateFlightPlan(s)
    ELSE IF s.requested["end_active_flights"] THEN s
    ELSE EndEach(Flagged(s, "end_active_flights"))

HandleRequestActiveFlightsFinished(s, found) ==
    RequestEndActiveFlights([s EXCEPT !.active_flights = found])

RequestActiveFlights(s) ==
    IF s.active_flights # None
    THEN HandleRequestActiveFlightsFinished(s, s.active_flights)
    ELSE IF s.requested["active_flights"] THEN s
    ELSE Issued(Flagged(s, "active_flights"), "active_flights", None)

\* Mutant: the pilot is not stored.
PilotIdForgotten(s) == RequestActiveFlights(s)

HandleRequestPilotIdFinished(s) ==
    RequestActiveFlights([s EXCEPT !.pilot_id = TRUE])

\* Mutant: no early return while the pilot is being looked up.
RequestPilotIdAgain(s) ==
    IF s.pilot_id THEN HandleRequestPilotIdFinished(s)
    ELSE LET t == Flagged(s, "pilot_id") IN
         IF s.authorization THEN Issued(t, "pilot_id", None) ELSE t

RequestPilotId(s) ==
    IF s.pilot_id THEN HandleRequestPilotIdFinished(s)
    ELSE IF s.requested["pilot_id"] THEN s
    ELSE LET t == Flagged(s, "pilot_id") IN
         IF s.authorization THEN Issued(t, "pilot_id", None) ELSE t

HandleRequestAuthorizationFinished(s) ==
    RequestPilotId([s EXCEPT !.authorization = TRUE])

RequestAuthorization(s) ==
    IF s.authorization THEN HandleRequestAuthorizationFinished(s)
    ELSE IF s.requested["authorization"] THEN s
    ELSE Issued(Flagged(s, "authorization"), "authorization", None)

-----------------------------------------------------------------------------
(***************************************************************************)
(* The public functions.                                                   *)
(***************************************************************************)
Activated(s) == RequestAuthorization([s EXCEPT !.state = "active"])

Ready(s) == s.authorization /\ s.flight # None /\ s.encryption_key # None

\* submit() apart from the datagram it sends when the submitter is ready.
Submitted(s) ==
    LET t == [s EXCEPT !.current_position = TRUE] IN
    IF t.state = "inactive" \/ Ready(t) THEN t ELSE RequestAuthorization(t)

WithMissionGeometry(s, g) == [s EXCEPT !.mission_geometry = g]

\* History: after deactivate() every pending callback belongs to the past.
Outdated(calls) ==
    [c \in Call |-> IF c.stale THEN calls[c] + calls[[c EXCEPT !.stale = FALSE]] ELSE 0]

\* Mutants: the key of the session is kept, or overwritten with an empty one.
ForgottenButKey(s) ==
    [s EXCEPT !.state           = "inactive",
              !.requested       = [x \in Stage |-> FALSE],
              !.authorization   = FALSE,
              !.pilot_id        = FALSE,
              !.flight_plan     = FALSE,
              !.flight          = None,
              !.traffic_monitor = None,
              !.calls           = Outdated(@),
              !.late            = FALSE]

ForgottenWithEmptyKey(s) ==
    [ForgottenButKey(s) EXCEPT !.encryption_key = IF @ = None THEN None ELSE "empty"]

\* Everything but active_flights_, current_position_ and mission_geometry_.
Forgotten(s) ==
    [s EXCEPT !.state           = "inactive",
              !.requested       = [x \in Stage |-> FALSE],
              !.authorization   = FALSE,
              !.pilot_id        = FALSE,
              !.flight_plan     = FALSE,
              !.flight          = None,
              !.traffic_monitor = None,
              !.encryption_key  = None,
              !.calls           = Outdated(@),
              !.late            = FALSE]

\* Mutants: the members are not reset, or before the flight to end is looked at.
DeactivatedWithoutReset(s) ==
    IF s.state = "active" /\ s.authorization /\ s.flight # None
    THEN Issued(s, "end_flight", s.flight) ELSE s

DeactivatedTooEarly(s) ==
    IF s.state = "inactive" THEN s
    ELSE LET t == Forgotten(s) IN
         IF t.authorization /\ t.flight # None THEN Issued(t, "end_flight", t.flight) ELSE t

Deactivated(s) ==
    IF s.state = "inactive" THEN s
    ELSE IF s.authorization /\ s.flight # None
    THEN Issued(Forgotten(s), "end_flight", s.flight)
    ELSE Forgotten(s)

-----------------------------------------------------------------------------
(***************************************************************************)
(* Replies.  Taken(s, c) is the submitter when the callback of c starts to *)
(* run; end_flight's callback only logs.                                   *)
(***************************************************************************)
Pending(s, c) == s.calls[c] > 0

Taken(s, c) ==
    [s EXCEPT !.calls[c] = @ - 1,
              !.late     = @ \/ (c.stale /\ c.op # "end_flight")]

\* Mutant: the flag is not reset.
FailedKeepingFlag(s, c) == s

\* The failure branch of every callback.
Failed(s, c) ==
    IF c.op = "end_flight" THEN s ELSE [s EXCEPT !.requested[StageOf(c.op)] = FALSE]

Outstanding(s) == MapThenSumSet(LAMBDA c : s.calls[c], {c \in Call : s.calls[c] > 0})

\* The flights the submitter or one of its calls still names.
Named(s) ==
    {s.flight, s.traffic_monitor, s.encryption_key}
        \cup (IF s.active_flights = None THEN {} ELSE s.active_flights)
        \cup {c.flight : c \in {d \in Call : s.calls[d] > 0}}

=============================================================================
