------------------------- MODULE TelemetrySubmitter -------------------------
(***************************************************************************)
(* One TelemetrySubmitter against the AirMap services.                     *)
(*                                                                         *)
(* Every function of the submitter and every callback runs on the one      *)
(* thread of the context, so each is one step.  Between two steps any      *)
(* pending call may be answered, in any order, and the vehicle may go      *)
(* active, go inactive, move or announce a mission.  The services are      *)
(* external: open is the set of flights that exist there.                  *)
(***************************************************************************)
EXTENDS SubmitterChain

CONSTANT MaxOutstanding     \* bound: calls pending before a new trigger

ASSUME MaxOutstandingAssumption == MaxOutstanding \in Nat

VARIABLES
    sub,    \* the submitter
    open    \* flights that exist at the services and have not ended

vars == <<sub, open>>

TypeOK == sub \in Submitter /\ open \in SUBSET Flights

\* Earlier runs of the daemon may have left flights open.
Init == sub = NewSubmitter /\ open \in SUBSET Flights

-----------------------------------------------------------------------------
\* What the vehicle monitor calls.

Activate ==
    /\ Outstanding(sub) <= MaxOutstanding
    /\ sub' = Activated(sub)
    /\ UNCHANGED open

Deactivate ==
    /\ sub.state = "active"
    /\ sub' = Deactivated(sub)
    /\ UNCHANGED open

Submit ==
    /\ Outstanding(sub) <= MaxOutstanding
    /\ sub' = Submitted(sub)
    /\ UNCHANGED open

SetMissionGeometry(g) ==
    /\ sub' = WithMissionGeometry(sub, g)
    /\ UNCHANGED open

-----------------------------------------------------------------------------
\* Successful replies, one action per callback.

Answers(c, op) == c.op = op /\ Pending(sub, c)

Authenticated(c) ==
    /\ Answers(c, "authorization")
    /\ sub' = HandleRequestAuthorizationFinished(Taken(sub, c))
    /\ UNCHANGED open

PilotFound(c) ==
    /\ Answers(c, "pilot_id")
    /\ sub' = HandleRequestPilotIdFinished(Taken(sub, c))
    /\ UNCHANGED open

\* The list may be out of date when it arrives: it is any set of flights.
FlightsFound(c, found) ==
    /\ Answers(c, "active_flights")
    /\ sub' = HandleRequestActiveFlightsFinished(Taken(sub, c), found)
    /\ UNCHANGED open

ActiveFlightEnded(c) ==
    /\ Answers(c, "end_active_flights")
    /\ sub' = HandleRequestEndActiveFlightFinished(Taken(sub, c), c.flight)
    /\ open' = open \ {c.flight}

FlightPlanCreated(c) ==
    /\ Answers(c, "create_flight_plan")
    /\ sub' = HandleRequestCreateFlightPlanFinished(Taken(sub, c))
    /\ UNCHANGED open

\* An identifier nobody names any more stands for one never used before.
Unused(f) == f \notin open \cup Named(sub)

FlightCreatedByPoint(c, f) ==
    /\ Answers(c, "create_flight_by_point")
    /\ Unused(f)
    /\ sub' = HandleRequestSubmitFlightPlanFinished(Taken(sub, c), f)
    /\ open' = open \cup {f}

FlightPlanSubmitted(c, f) ==
    /\ Answers(c, "submit_flight_plan")
    /\ Unused(f)
    /\ sub' = HandleRequestSubmitFlightPlanFinished(Taken(sub, c), f)
    /\ open' = open \cup {f}

TrafficMonitored(c) ==
    /\ Answers(c, "traffic_monitoring")
    /\ sub' = HandleRequestMonitorTrafficFinished(Taken(sub, c), c.flight)
    /\ UNCHANGED open

FlightCommsStarted(c) ==
    /\ Answers(c, "start_flight_comms")
    /\ sub' = HandleRequestStartFlightCommsFinished(Taken(sub, c), c.flight)
    /\ UNCHANGED open

\* The callback deactivate() passes to end_flight only logs.
FlightEnded(c) ==
    /\ Answers(c, "end_flight")
    /\ sub' = Taken(sub, c)
    /\ open' = open \ {c.flight}

-----------------------------------------------------------------------------
\* Failed replies: the services did nothing, or did it and the answer was lost.

CallFailed(c) ==
    /\ Pending(sub, c)
    /\ sub' = Failed(Taken(sub, c), c)
    /\ UNCHANGED open

EndReplyLost(c) ==
    /\ c.op \in {"end_active_flights", "end_flight"}
    /\ Pending(sub, c)
    /\ sub' = Failed(Taken(sub, c), c)
    /\ open' = open \ {c.flight}

CreateReplyLost(c, f) ==
    /\ c.op \in {"create_flight_by_point", "submit_flight_plan"}
    /\ Pending(sub, c)
    /\ Unused(f)
    /\ sub' = Failed(Taken(sub, c), c)
    /\ open' = open \cup {f}

\* A flight reaches its end_time (an hour after its start) or others end it.
Expire(f) ==
    /\ f \in open
    /\ open' = open \ {f}
    /\ UNCHANGED sub

-----------------------------------------------------------------------------
Reply ==
    \E c \in Call :
        \/ Authenticated(c)
        \/ PilotFound(c)
        \/ \E found \in SUBSET Flights : FlightsFound(c, found)
        \/ ActiveFlightEnded(c)
        \/ FlightPlanCreated(c)
        \/ \E f \in Flights : FlightCreatedByPoint(c, f)
        \/ \E f \in Flights : FlightPlanSubmitted(c, f)
        \/ TrafficMonitored(c)
        \/ FlightCommsStarted(c)
        \/ FlightEnded(c)
        \/ CallFailed(c)
        \/ EndReplyLost(c)
        \/ \E f \in Flights : CreateReplyLost(c, f)

Next ==
    \/ Activate
    \/ Deactivate
    \/ Submit
    \/ \E g \in Geometry : SetMissionGeometry(g)
    \/ Reply
    \/ \E f \in Flights : Expire(f)

Spec == Init /\ [][Next]_vars

(***************************************************************************)
(* Fairness.  Positions keep arriving, abandoned flights expire, every     *)
(* call is answered in the end (each path of net/http/boost/request.cpp    *)
(* runs the callback once the connection delivers or breaks; there is no   *)
(* timeout, so this is an assumption on the network), and a service that   *)
(* is asked again and again does not fail every time.                      *)
(***************************************************************************)
Succeeds(op, f) ==
    \E stale \in BOOLEAN :
        LET c == [op |-> op, flight |-> f, stale |-> stale] IN
        \/ Authenticated(c) \/ PilotFound(c) \/ FlightPlanCreated(c)
        \/ \E found \in SUBSET Flights : FlightsFound(c, found)
        \/ \E g \in Flights : FlightCreatedByPoint(c, g) \/ FlightPlanSubmitted(c, g)
        \/ ActiveFlightEnded(c) \/ TrafficMonitored(c) \/ FlightCommsStarted(c)
        \/ FlightEnded(c)

Fairness ==
    /\ WF_vars(Submit)
    /\ WF_vars(Reply)
    /\ WF_vars(\E f \in Flights \ Named(sub) : Expire(f))
    /\ \A op \in PlainOp : SF_vars(Succeeds(op, None))
    /\ \A op \in FlightOp, f \in Flights : SF_vars(Succeeds(op, f))

FairSpec == Spec /\ Fairness

-----------------------------------------------------------------------------
(***************************************************************************)
(* Properties.                                                             *)
(***************************************************************************)
\* The pending fresh calls whose flag is x, and whether x's value is there.
FreshCalls(s, x) == {c \in Call : StageOf(c.op) = x /\ ~c.stale /\ Pending(s, c)}

Has(s, x) ==
    CASE x = "authorization"      -> s.authorization
      [] x = "pilot_id"           -> s.pilot_id
      [] x = "active_flights"     -> s.active_flights # None
      [] x = "submit_flight_plan" -> s.flight # None
      [] x = "traffic_monitoring" -> s.traffic_monitor # None
      [] x = "start_flight_comms" -> s.encryption_key # None

SingleStages == Stage \ {"end_active_flights", "create_flight_plan"}

\* A request flag is never left set with neither the value it was set for nor
\* a call that will bring it: whatever replies arrive late, between sessions
\* or not, the chain cannot lose a request at these stages, so the early
\* return on X_requested_ never swallows the retry that was needed.
NoLostRequest ==
    \A x \in SingleStages : sub.requested[x] /\ ~Has(sub, x) => FreshCalls(sub, x) # {}

\* The same for the flights to end: while the flag is set, every flight still
\* listed is being ended, even after some of the end_flight calls failed and
\* were repeated.  A reply of an earlier session may replace the list.
NoLostEnd ==
    sub.requested["end_active_flights"] /\ ~sub.late /\ sub.active_flights # None
        => \A f \in sub.active_flights : Pending(sub, Fresh("end_active_flights", f))

\* The flags admit one call at a time: as long as no reply of an earlier
\* session was applied, each single-call stage has at most one fresh call
\* pending, and only under its flag.
OneCallPerStage ==
    ~sub.late =>
        \A x \in Stage \ {"end_active_flights"} :
            /\ Cardinality(FreshCalls(sub, x)) <= 1
            /\ \A c \in FreshCalls(sub, x) : sub.calls[c] = 1 /\ sub.requested[x]

\* Telemetry is encrypted with the key of the flight it is sent for, and the
\* traffic shown is that flight's, unless a reply of an earlier session was
\* applied.
KeyBelongsToFlight ==
    ~sub.late =>
        /\ sub.encryption_key \in {None, sub.flight}
        /\ sub.traffic_monitor \in {None, sub.flight}

\* A flight is created only once every flight found active has been ended,
\* unless a reply of an earlier session was applied.
EndsBeforeCreating ==
    /\ ~sub.late
    /\ \/ sub.flight # None \/ sub.flight_plan
       \/ FreshCalls(sub, "create_flight_plan") # {} \/ FreshCalls(sub, "submit_flight_plan") # {}
    => sub.active_flights = {}

\* deactivate() leaves nothing behind that goes on by itself: an inactive
\* submitter that no late reply has touched holds no session value and waits
\* for no call but the end of its flight.
InactiveIsBlank ==
    sub.state = "inactive" /\ ~sub.late =>
        /\ ~sub.authorization /\ ~sub.pilot_id /\ ~sub.flight_plan
        /\ {sub.flight, sub.traffic_monitor, sub.encryption_key} = {None}
        /\ \A x \in Stage : ~sub.requested[x] /\ FreshCalls(sub, x) = {}

\* Where an active submitter can come to a stop.  With no fresh call pending
\* and no late reply applied, the next position makes it issue a call, except
\* in two dead ends: the flight was due before a position was known, or it was
\* created by point and starting communications failed.
BlindCreate == sub.requested["create_flight_plan"] /\ ~sub.flight_plan /\ sub.flight = None

PointWithoutComms == sub.flight # None /\ ~sub.flight_plan

StopsOnlyAtDeadEnds ==
    /\ sub.state = "active" /\ ~sub.late /\ ~Ready(sub)
    /\ \A x \in Stage : FreshCalls(sub, x) = {}
    => BlindCreate \/ PointWithoutComms \/ Submitted(sub).calls # sub.calls

\* authorization_.get() and pilot_id_.get() are called on an empty Optional
\* only when a reply of an earlier session drives the chain.
EmptyReadNeedsLateReply ==
    [][\A what \in {"authorization", "pilot_id"} :
          what \in sub'.undefined \ sub.undefined => sub'.late]_vars

\* An open flight the submitter holds, lists or is ending.
Accounted(f) ==
    \/ f \notin open
    \/ f = sub.flight
    \/ \E c \in Call : c.op \in {"end_flight", "end_active_flights"} /\ c.flight = f /\ Pending(sub, c)

\* No flight is leaked silently: an open flight stops being accounted for only
\* when a call fails, or through a reply of an earlier session.
NoSilentLeak ==
    [][\A f \in Flights : Accounted(f) /\ ~Accounted(f)'
          => sub.late \/ sub'.late
             \/ \E c \in Call : CallFailed(c) \/ \E g \in Flights : CreateReplyLost(c, g)]_vars

\* Positions arrive, the mission is known and no flight was requested yet: the
\* submitter gets to sending telemetry, unless it is deactivated or a reply of
\* an earlier session interferes.
GetsReady ==
    (/\ sub.state = "active" /\ sub.current_position /\ sub.mission_geometry # None
     /\ ~sub.requested["create_flight_plan"])
        ~> (Ready(sub) \/ sub.state = "inactive" \/ sub.late)

\* Calls of end_flight that deactivate() issued and nobody answered yet.
EndingFlights(s) ==
    {f \in Flights : \E stale \in BOOLEAN :
        Pending(s, [op |-> "end_flight", flight |-> f, stale |-> stale])}

\* Calls of end_flight_communications, of which deactivate() issues none.
EndingComms(s) ==
    {f \in Flights : \E c \in DOMAIN s.calls :
        c.op = "end_flight_communications" /\ c.flight = f /\ Pending(s, c)}

Promise == INSTANCE FlightSession WITH
    active <- sub.state = "active", disturbed <- sub.late, found <- sub.active_flights,
    flight <- sub.flight, key <- sub.encryption_key,
    ending <- EndingFlights(sub), closing <- EndingComms(sub)

\* All of the chain, its flags, its retries and its early returns implement what
\* a flight session says of the flight: the flights found are ended, then one
\* flight is taken, then its key, and the end of the session gives up both and
\* ends that flight.  Of its communications the session says more, see below.
ImplementsFlightSession == Promise!Spec

-----------------------------------------------------------------------------
(***************************************************************************)
(* What the comments say and the code does not do.                         *)
(***************************************************************************)
\* "whenever it becomes active and as soon as a current position of the
\* vehicle is known" (telemetry_submitter.h:44): an active submitter that
\* knows a position gets a flight.
FlightOncePositionKnown ==
    (sub.state = "active" /\ sub.current_position)
        ~> (sub.flight # None \/ sub.state = "inactive")

\* "The following sequence of actions is triggered: request to end flight
\* communications, request to end the flight" (telemetry_submitter.h:72, and
\* include/airmap/monitor/README.md:11): a session with a key ends in both.
EndsFlightComms == Promise!EndsComms

\* "when the state of a vehicle changes to inactive: ... end flight"
\* (include/airmap/monitor/README.md:11): an inactive submitter with nothing
\* pending holds no flight.
InactiveHoldsNoFlight ==
    sub.state = "inactive" /\ Outstanding(sub) = 0 => sub.flight = None
=============================================================================
