---------------------- MODULE TelemetrySubmitterProofs ----------------------
(***************************************************************************)
(* Proofs about TelemetrySubmitter for any finite set of flights and any   *)
(* number of pending calls: its invariants, and that it implements         *)
(* FlightSession.                                                          *)
(***************************************************************************)
EXTENDS TelemetrySubmitter, SubmitterChainProofs

\* The inductive invariant: the invariant of the chain, for the one submitter.
IInv == ChainInv(sub) /\ open \in SUBSET Flights

\* Every step of the specification keeps the inductive invariant.
LEMMA StepKeeps ==
    ASSUME IInv, [Next]_vars
    PROVE  IInv' /\ Keeps(sub, sub')
<1> USE DEF IInv
<1>1. CASE Activate
  BY <1>1, ActivatedKeeps DEF Activate, Keeps
<1>2. CASE Deactivate
  BY <1>2, DeactivatedKeeps DEF Deactivate, Keeps
<1>3. CASE Submit
  BY <1>3, SubmittedKeeps DEF Submit, Keeps
<1>4. CASE \E g \in Geometry : SetMissionGeometry(g)
  BY <1>4, WithMissionGeometryKeeps DEF SetMissionGeometry, Keeps
<1>5. CASE Reply
  <2> PICK c \in Call :
        \/ Authenticated(c)
        \/ PilotFound(c)
        \/ \E found \in SUBSET Flights : FlightsFound(c, found)
        \/ ActiveFlightEnded(c)
        \/ FlightPlanCreated(c)
        \/ \E f \in Flights : FlightCreatedByPoint(c, f)
        \/ \E f \in Flights : FlightPlanSubmitted(c, f)
        \/ TrafficMonitored(c)
        \/ FlightCommsStarted(c)
        \/ FlightEnded(c)
        \/ CallFailed(c)
        \/ EndReplyLost(c)
        \/ \E f \in Flights : CreateReplyLost(c, f)
    BY <1>5 DEF Reply
  <2>1. CASE Authenticated(c)
    BY <2>1, AuthenticatedKeeps DEF Authenticated, Answers, Keeps
  <2>2. CASE PilotFound(c)
    BY <2>2, PilotFoundKeeps DEF PilotFound, Answers, Keeps
  <2>3. CASE \E found \in SUBSET Flights : FlightsFound(c, found)
    BY <2>3, FlightsFoundKeeps DEF FlightsFound, Answers, Keeps
  <2>4. CASE ActiveFlightEnded(c)
    BY <2>4, ActiveFlightEndedKeeps DEF ActiveFlightEnded, Answers, Keeps
  <2>5. CASE FlightPlanCreated(c)
    BY <2>5, FlightPlanCreatedKeeps DEF FlightPlanCreated, Answers, Keeps
  <2>6. CASE \E f \in Flights : FlightCreatedByPoint(c, f)
    BY <2>6, FlightCreatedByPointKeeps DEF FlightCreatedByPoint, Answers, Keeps
  <2>7. CASE \E f \in Flights : FlightPlanSubmitted(c, f)
    BY <2>7, FlightPlanSubmittedKeeps DEF FlightPlanSubmitted, Answers, Keeps
  <2>8. CASE TrafficMonitored(c)
    BY <2>8, TrafficMonitoredKeeps DEF TrafficMonitored, Answers, Keeps
  <2>9. CASE FlightCommsStarted(c)
    BY <2>9, FlightCommsStartedKeeps DEF FlightCommsStarted, Answers, Keeps
  <2>10. CASE FlightEnded(c)
    BY <2>10, FlightEndedKeeps DEF FlightEnded, Answers, Keeps
  <2>11. CASE CallFailed(c)
    BY <2>11, CallFailedKeeps DEF CallFailed, Keeps
  <2>12. CASE EndReplyLost(c)
    BY <2>12, CallFailedKeeps DEF EndReplyLost, Keeps
  <2>13. CASE \E f \in Flights : CreateReplyLost(c, f)
    BY <2>13, CallFailedKeeps DEF CreateReplyLost, Keeps
  <2> QED
    BY <2>1, <2>2, <2>3, <2>4, <2>5, <2>6, <2>7, <2>8, <2>9, <2>10, <2>11, <2>12, <2>13
<1>6. CASE \E f \in Flights : Expire(f)
  BY <1>6 DEF Expire, Keeps
<1>7. CASE UNCHANGED vars
  BY <1>7 DEF vars, Keeps
<1> QED
  BY <1>1, <1>2, <1>3, <1>4, <1>5, <1>6, <1>7 DEF Next

\* The inductive invariant holds in every reachable state.
THEOREM ChainInvariant == Spec => []IInv
<1>1. Init => IInv
  BY NewSubmitterInv DEF Init, IInv
<1>2. IInv /\ [Next]_vars => IInv'
  BY StepKeeps
<1> QED
  BY <1>1, <1>2, PTL DEF Spec

\* Every reachable state is of the declared type: in particular no callback is
\* run more often than its call was issued, and every call that needs a flight
\* or a list of flights has one.
THEOREM TypeCorrect == Spec => []TypeOK
<1>1. IInv => TypeOK
  BY DEF IInv, ChainInv, TypeOK
<1> QED
  BY <1>1, ChainInvariant, PTL

\* The fresh calls of a stage, in the terms of the invariant.
LEMMA FreshCallsOfStage ==
    ASSUME NEW s \in Submitter, NEW x \in Stage, NEW c \in FreshCalls(s, x)
    PROVE  /\ c \in Call /\ c = Fresh(c.op, c.flight) /\ s.calls[c] > 0
           /\ StageOf(c.op) = x /\ c.op # "end_flight"
           /\ (c.op \in PlainOp /\ c.flight = None)
                 \/ (c.op \in FlightOp /\ c.flight \in Flights)
BY CallShape DEF FreshCalls, Pending, StageOf, Stage

\* A pending new call is among the fresh calls of its stage.
LEMMA FreshIsFreshCall ==
    ASSUME NEW s, NEW op, NEW f, Fresh(op, f) \in Call, s.calls[Fresh(op, f)] > 0
    PROVE  Fresh(op, f) \in FreshCalls(s, StageOf(op))
BY DEF FreshCalls, Pending, Fresh

\* No request is lost, however replies of different sessions interleave: a
\* flag always stands for a value or for a fresh call that will bring it.
THEOREM RequestsAreNeverLost == Spec => []NoLostRequest
<1>1. IInv => NoLostRequest
  <2> SUFFICES ASSUME IInv, NEW x \in SingleStages, sub.requested[x], ~Has(sub, x)
               PROVE  FreshCalls(sub, x) # {}
    BY DEF NoLostRequest
  <2>1. Backed(sub)
    BY DEF IInv, ChainInv
  <2>2. \E op, f : Fresh(op, f) \in Call /\ sub.calls[Fresh(op, f)] > 0 /\ StageOf(op) = x
    <3>1. CASE x \in {"authorization", "pilot_id", "active_flights", "submit_flight_plan"}
      <4>1. Waits(sub, x) > 0
        BY <2>1, <3>1 DEF Backed, Has
      <4>2. Fresh(x, None) \in Call /\ StageOf(x) = x
        BY <3>1, FreshIsCall DEF PlainOp, StageOf
      <4> QED
        BY <4>1, <4>2 DEF Waits
    <3>2. CASE x \in {"traffic_monitoring", "start_flight_comms"}
      <4>1. PICK f \in Flights : WaitsFor(sub, x, f) > 0
        BY <2>1, <3>2 DEF Backed, Has
      <4>2. Fresh(x, f) \in Call /\ StageOf(x) = x
        BY <3>2, FreshIsCall DEF FlightOp, StageOf
      <4> QED
        BY <4>1, <4>2 DEF WaitsFor
    <3> QED
      BY <3>1, <3>2 DEF SingleStages, Stage
  <2> QED
    BY <2>2, FreshIsFreshCall
<1> QED
  BY <1>1, ChainInvariant, PTL

\* While the flag is set, every listed flight is being ended.
THEOREM EndsAreNeverLost == Spec => []NoLostEnd
<1>1. IInv => NoLostEnd
  BY DEF IInv, ChainInv, Session, Ending, NoLostEnd, Pending, WaitsFor
<1> QED
  BY <1>1, ChainInvariant, PTL

\* Telemetry goes out under the key of its own flight in every session that no
\* late reply has touched.
THEOREM KeysMatchFlights == Spec => []KeyBelongsToFlight
<1>1. IInv => KeyBelongsToFlight
  BY DEF IInv, ChainInv, Session, Ordered, KeyBelongsToFlight
<1> QED
  BY <1>1, ChainInvariant, PTL

\* At most one fresh call per single-call stage, under its flag.
THEOREM CallsAreSingle == Spec => []OneCallPerStage
<1>1. IInv => OneCallPerStage
  <2> SUFFICES ASSUME IInv, ~sub.late, NEW x \in Stage \ {"end_active_flights"}
               PROVE  /\ Cardinality(FreshCalls(sub, x)) <= 1
                      /\ \A c \in FreshCalls(sub, x) : sub.calls[c] = 1 /\ sub.requested[x]
    BY DEF OneCallPerStage
  <2>1. sub \in Submitter /\ Single(sub) /\ Ordered(sub)
    BY DEF IInv, ChainInv, Session
  <2>2. ASSUME NEW c \in FreshCalls(sub, x)
        PROVE  /\ sub.calls[c] = 1 /\ sub.requested[x]
               /\ c.op \in FlightOp => c.flight = sub.flight /\ c.op = x
    <3>1. /\ c \in Call /\ c = Fresh(c.op, c.flight) /\ sub.calls[c] > 0 /\ sub.calls[c] \in Nat
          /\ StageOf(c.op) = x /\ c.op # "end_flight" /\ c.op # "end_active_flights"
          /\ (c.op \in PlainOp /\ c.flight = None)
                \/ (c.op \in FlightOp /\ c.flight \in Flights)
      BY <2>1, <2>2, FreshCallsOfStage DEF Submitter, StageOf
    <3>2. CASE c.op \in PlainOp /\ c.flight = None
      <4>1. Waits(sub, c.op) = sub.calls[c]
        BY <3>1, <3>2 DEF Waits
      <4> QED
        BY <2>1, <3>1, <3>2, <4>1 DEF Single, PlainOp, FlightOp
    <3>3. CASE c.op \in FlightOp /\ c.flight \in Flights
      <4>1. WaitsFor(sub, c.op, c.flight) = sub.calls[c]
        BY <3>1 DEF WaitsFor
      <4>2. c.op \in {"traffic_monitoring", "start_flight_comms"} /\ c.op = x
        BY <3>1, <3>3 DEF FlightOp, StageOf
      <4> QED
        BY <2>1, <3>1, <3>3, <4>1, <4>2 DEF Single
    <3> QED
      BY <3>1, <3>2, <3>3
  <2>3. ASSUME NEW c \in FreshCalls(sub, x), NEW d \in FreshCalls(sub, x)
        PROVE  c = d
    <3>1. /\ c = Fresh(c.op, c.flight) /\ d = Fresh(d.op, d.flight)
          /\ sub.calls[c] > 0 /\ sub.calls[d] > 0
          /\ StageOf(c.op) = x /\ StageOf(d.op) = x
          /\ (c.op \in PlainOp /\ c.flight = None) \/ (c.op \in FlightOp /\ c.flight = sub.flight)
          /\ (d.op \in PlainOp /\ d.flight = None) \/ (d.op \in FlightOp /\ d.flight = sub.flight)
      BY <2>1, <2>2, <2>3, FreshCallsOfStage
    <3>2. CASE c.op = d.op
      BY <3>1, <3>2 DEF PlainOp, FlightOp
    <3>3. CASE c.op # d.op
      <4>1. {c.op, d.op} = {"create_flight_plan", "create_flight_by_point"}
        BY <3>1, <3>3 DEF StageOf
      <4>2. Waits(sub, c.op) > 0 /\ Waits(sub, d.op) > 0
        BY <3>1, <4>1 DEF Waits, PlainOp, FlightOp
      <4> QED
        BY <2>1, <4>1, <4>2 DEF Ordered
    <3> QED
      BY <3>2, <3>3
  <2>4. Cardinality(FreshCalls(sub, x)) <= 1
    <3>1. CASE FreshCalls(sub, x) = {}
      BY <3>1, FS_EmptySet
    <3>2. CASE FreshCalls(sub, x) # {}
      <4>1. PICK c : c \in FreshCalls(sub, x)
        BY <3>2
      <4>2. FreshCalls(sub, x) = {c}
        BY <2>3, <4>1
      <4>3. Cardinality({c}) = 1
        BY FS_Singleton
      <4> QED
        BY <4>2, <4>3
    <3> QED
      BY <3>1, <3>2
  <2> QED
    BY <2>2, <2>4
<1> QED
  BY <1>1, ChainInvariant, PTL

\* No empty Optional is read for a token or a pilot id, except by a step that
\* a reply of an earlier session drives.
THEOREM EmptyReadsNeedLateReplies == Spec => EmptyReadNeedsLateReply
<1>1. IInv /\ [Next]_vars =>
        [\A what \in {"authorization", "pilot_id"} :
            what \in sub'.undefined \ sub.undefined => sub'.late]_vars
  BY StepKeeps DEF Keeps
<1> QED
  BY <1>1, ChainInvariant, PTL DEF Spec, EmptyReadNeedsLateReply

\* deactivate() leaves nothing behind that goes on by itself.
THEOREM InactiveStaysBlank == Spec => []InactiveIsBlank
<1>1. IInv => InactiveIsBlank
  <2> SUFFICES ASSUME IInv, sub.state = "inactive", ~sub.late
               PROVE  /\ ~sub.authorization /\ ~sub.pilot_id /\ ~sub.flight_plan
                      /\ {sub.flight, sub.traffic_monitor, sub.encryption_key} = {None}
                      /\ \A x \in Stage : ~sub.requested[x] /\ FreshCalls(sub, x) = {}
    BY DEF InactiveIsBlank
  <2>1. sub \in Submitter /\ Single(sub) /\ Ordered(sub) /\ Blank(sub)
    BY DEF IInv, ChainInv, Session
  <2>2. (\A x \in Stage : ~sub.requested[x]) /\ ~sub.authorization
    BY <2>1 DEF Blank
  <2>3. /\ ~sub.pilot_id /\ ~sub.flight_plan
        /\ sub.flight = None /\ sub.traffic_monitor = None /\ sub.encryption_key = None
    BY <2>1, <2>2 DEF Ordered, Stage
  <2>4. ASSUME NEW x \in Stage, NEW c \in FreshCalls(sub, x) PROVE FALSE
    <3>1. /\ c = Fresh(c.op, c.flight) /\ sub.calls[c] > 0 /\ StageOf(c.op) = x
          /\ c.op # "end_flight"
          /\ (c.op \in PlainOp /\ c.flight = None)
                \/ (c.op \in FlightOp /\ c.flight \in Flights)
      BY <2>1, <2>4, FreshCallsOfStage
    <3>2. CASE c.op \in PlainOp /\ c.flight = None
      <4>1. Waits(sub, c.op) > 0
        BY <3>1, <3>2 DEF Waits
      <4> QED
        BY <2>1, <2>2, <3>1, <3>2, <4>1 DEF Single
    <3>3. CASE c.op \in FlightOp /\ c.flight \in Flights
      <4>1. WaitsFor(sub, c.op, c.flight) > 0
        BY <3>1 DEF WaitsFor
      <4> QED
        BY <2>1, <2>2, <3>1, <3>3, <4>1 DEF Single, Ordered, FlightOp, Stage
    <3> QED
      BY <3>1, <3>2, <3>3
  <2> QED
    BY <2>2, <2>3, <2>4
<1> QED
  BY <1>1, ChainInvariant, PTL

\* No flight is created before every flight found active has ended.
THEOREM CreatesAfterEnding == Spec => []EndsBeforeCreating
<1>1. IInv => EndsBeforeCreating
  <2> SUFFICES ASSUME IInv, ~sub.late,
                      \/ sub.flight # None \/ sub.flight_plan
                      \/ FreshCalls(sub, "create_flight_plan") # {}
                      \/ FreshCalls(sub, "submit_flight_plan") # {}
               PROVE  sub.active_flights = {}
    BY DEF EndsBeforeCreating
  <2>1. sub \in Submitter /\ Single(sub) /\ Ordered(sub)
    BY DEF IInv, ChainInv, Session
  <2>2. ASSUME NEW x \in {"create_flight_plan", "submit_flight_plan"}, NEW c \in FreshCalls(sub, x)
        PROVE  sub.requested[x]
    <3>1. /\ c = Fresh(c.op, c.flight) /\ sub.calls[c] > 0 /\ StageOf(c.op) = x
          /\ (c.op \in PlainOp /\ c.flight = None)
                \/ (c.op \in FlightOp /\ c.flight \in Flights)
      BY <2>1, <2>2, FreshCallsOfStage DEF Stage
    <3>2. c.op \in PlainOp /\ c.flight = None
      BY <3>1 DEF StageOf, FlightOp
    <3>3. Waits(sub, c.op) > 0
      BY <3>1, <3>2 DEF Waits
    <3> QED
      BY <2>1, <3>1, <3>2, <3>3 DEF Single
  <2>3. sub.requested["create_flight_plan"]
    BY <2>1, <2>2 DEF Ordered
  <2> QED
    BY <2>1, <2>3 DEF Ordered
<1> QED
  BY <1>1, ChainInvariant, PTL

-----------------------------------------------------------------------------
(***************************************************************************)
(* Where the chain stops.                                                  *)
(***************************************************************************)
\* An active submitter with no call of the chain pending.
Still(s) ==
    /\ ChainInv(s) /\ ~s.late /\ s.state = "active"
    /\ \A op \in PlainOp : Waits(s, op) = 0
    /\ \A op \in FlightOp \ {"end_flight"}, f \in Flights : WaitsFor(s, op, f) = 0

\* t has issued a call that s had not.
Asks(s, t) == \E d \in Call : t.calls[d] # s.calls[d]

\* Setting a flag and issuing a call issues a call.
LEMMA AskAsks ==
    ASSUME NEW s \in Submitter, NEW x \in Stage, NEW op, NEW f, Fresh(op, f) \in Call
    PROVE  /\ Asks(s, Issued(Flagged(s, x), op, f))
           /\ Asks(s, Issued(ReadsAuthorization(Flagged(s, x)), op, f))
<1>1. s.calls[Fresh(op, f)] \in Nat
  BY DEF Submitter
<1>2. /\ Flagged(s, x) \in Submitter
      /\ Flagged(s, x).calls = s.calls
  BY FlaggedFields
<1>3. Issued(Flagged(s, x), op, f).calls[Fresh(op, f)] = s.calls[Fresh(op, f)] + 1
  BY <1>2, IssuedFields
<1>4. Asked(s, Issued(ReadsAuthorization(Flagged(s, x)), op, f), x, op, f)
  BY FlagReadIssue
<1>5. Issued(ReadsAuthorization(Flagged(s, x)), op, f).calls[Fresh(op, f)] = s.calls[Fresh(op, f)] + 1
  BY <1>4 DEF Asked
<1> QED
  BY <1>1, <1>3, <1>5 DEF Asks

\* Once there is a flight, its key is requested.
LEMMA FlightStoredAsks ==
    ASSUME NEW s, Still(s), s.flight \in Flights, s.encryption_key = None
    PROVE  Asks(s, RequestStartFlightComms(RequestMonitorTraffic(s)))
<1> DEFINE u == RequestMonitorTraffic(s)
           d == Fresh("start_flight_comms", s.flight)
<1>1. s \in Submitter /\ d \in Call /\ Fresh("traffic_monitoring", s.flight) \in Call
  BY FreshIsCall DEF Still, ChainInv, FlightOp
<1>2. ~s.requested["start_flight_comms"]
  BY DEF Still, ChainInv, Backed, FlightOp
<1>3. /\ u \in Submitter /\ u.encryption_key = None /\ u.flight = s.flight
      /\ ~u.requested["start_flight_comms"] /\ u.calls[d] = s.calls[d]
  <2>1. CASE s.traffic_monitor # None
    BY <1>1, <1>2, <2>1 DEF RequestMonitorTraffic, HandleRequestMonitorTrafficFinished, Submitter
  <2>2. CASE s.traffic_monitor = None /\ s.requested["traffic_monitoring"]
    BY <1>1, <1>2, <2>2 DEF RequestMonitorTraffic
  <2>3. CASE s.traffic_monitor = None /\ ~s.requested["traffic_monitoring"]
    <3>1. Asked(s, u, "traffic_monitoring", "traffic_monitoring", s.flight)
      BY <1>1, <2>3, FlagReadIssue DEF RequestMonitorTraffic, Stage
    <3> HIDE DEF u
    <3>2. d # Fresh("traffic_monitoring", s.flight)
      BY FreshInjective
    <3> QED
      BY <1>1, <1>2, <3>1, <3>2 DEF Asked, Same, Stage
  <2> QED
    BY <2>1, <2>2, <2>3
<1> HIDE DEF u
<1>4. RequestStartFlightComms(u)
        = Issued(ReadsAuthorization(Flagged(u, "start_flight_comms")), "start_flight_comms", s.flight)
  BY <1>3, FlaggedFields, ReadsAuthorizationFields DEF RequestStartFlightComms, Stage, Same
<1>5. Asked(u, RequestStartFlightComms(u), "start_flight_comms", "start_flight_comms", s.flight)
  BY <1>1, <1>3, <1>4, FlagReadIssue DEF Stage
<1>6. RequestStartFlightComms(u).calls[d] = s.calls[d] + 1 /\ s.calls[d] \in Nat
  BY <1>1, <1>3, <1>5 DEF Asked, Submitter
<1>7. Asks(s, RequestStartFlightComms(u))
  BY <1>1, <1>6 DEF Asks
<1> QED
  BY <1>7 DEF u

\* Once there is a plan, a flight or its key is requested.
LEMMA PlanStoredAsks ==
    ASSUME NEW s, Still(s), s.flight_plan, s.flight = None \/ s.encryption_key = None
    PROVE  Asks(s, HandleRequestCreateFlightPlanFinished(s))
<1>1. s \in Submitter
  BY DEF Still, ChainInv
<1>2. [s EXCEPT !.flight_plan = TRUE] = s
  BY <1>1 DEF Submitter
<1>3. HandleRequestCreateFlightPlanFinished(s) = RequestSubmitFlightPlan(s)
  BY <1>2 DEF HandleRequestCreateFlightPlanFinished
<1>4. CASE s.flight = None
  <2>1. ~s.requested["submit_flight_plan"]
    BY <1>4 DEF Still, ChainInv, Backed, PlainOp
  <2>2. Fresh("submit_flight_plan", None) \in Call
    BY FreshIsCall DEF PlainOp
  <2> QED
    BY <1>1, <1>3, <1>4, <2>1, <2>2, AskAsks DEF RequestSubmitFlightPlan, Stage
<1>5. CASE s.flight # None
  <2>1. s.flight \in Flights /\ [s EXCEPT !.flight = s.flight] = s
    BY <1>1, <1>5 DEF Submitter
  <2> QED
    BY <1>3, <1>5, <2>1, FlightStoredAsks
       DEF RequestSubmitFlightPlan, HandleRequestSubmitFlightPlanFinished
<1> QED
  BY <1>4, <1>5

\* With a position, a plan or a flight is asked for, unless this was done in vain.
LEMMA CreateAsks ==
    ASSUME NEW s, Still(s), s.current_position,
           s.flight = None \/ s.encryption_key = None,
           s.flight_plan \/ ~s.requested["create_flight_plan"]
    PROVE  Asks(s, RequestCreateFlightPlan(s))
<1>1. s \in Submitter
  BY DEF Still, ChainInv
<1>2. CASE s.flight_plan
  BY <1>2, PlanStoredAsks DEF RequestCreateFlightPlan
<1>3. CASE ~s.flight_plan
  <2> DEFINE r == Flagged(s, "create_flight_plan")
             w == (IF r.pilot_id THEN {} ELSE {"pilot_id"})
                     \cup (IF r.mission_geometry = "empty" THEN {"coordinates"} ELSE {})
             q == ReadsAuthorization(r)
             p == Reads(q, w)
  <2>1. /\ Fresh("create_flight_plan", None) \in Call
        /\ Fresh("create_flight_by_point", None) \in Call
    BY FreshIsCall DEF PlainOp
  <2>2. Asks(s, CreateByPoint(r))
    BY <1>1, <2>1, AskAsks DEF CreateByPoint, Stage
  <2>3. r \in Submitter /\ Same(s, r) /\ r.calls = s.calls
    BY <1>1, FlaggedFields DEF Stage
  <2>4. q \in Submitter /\ q.calls = s.calls
    BY <2>3, ReadsAuthorizationFields
  <2>5. w \in SUBSET {"authorization", "pilot_id", "coordinates"}
    OBVIOUS
  <2>6. CreateByPolygon(r) = Issued(p, "create_flight_plan", None)
    BY DEF CreateByPolygon
  <2>7. RequestCreateFlightPlan(s) = IF r.mission_geometry # None THEN CreateByPolygon(r) ELSE CreateByPoint(r)
    BY <1>3, <2>3 DEF RequestCreateFlightPlan, Same
  <2> HIDE DEF r, q, w
  <2>8. p \in Submitter /\ p.calls = s.calls
    BY <2>4, <2>5, ReadsFields
  <2> HIDE DEF p
  <2>9. CreateByPolygon(r).calls[Fresh("create_flight_plan", None)]
          = s.calls[Fresh("create_flight_plan", None)] + 1
    BY <2>1, <2>6, <2>8, IssuedFields
  <2>10. s.calls[Fresh("create_flight_plan", None)] \in Nat
    BY <1>1, <2>1 DEF Submitter
  <2>11. Asks(s, CreateByPolygon(r))
    BY <2>1, <2>9, <2>10 DEF Asks
  <2> QED
    BY <2>2, <2>7, <2>11
<1> QED
  BY <1>2, <1>3

\* Flights found are ended, or were.
LEMMA EndAsks ==
    ASSUME NEW s, Still(s), s.current_position, s.active_flights # None,
           s.flight = None \/ s.encryption_key = None,
           s.flight_plan \/ ~s.requested["create_flight_plan"]
    PROVE  Asks(s, RequestEndActiveFlights(s))
<1>1. s \in Submitter
  BY DEF Still, ChainInv
<1>2. CASE s.active_flights = {}
  BY <1>2, CreateAsks DEF RequestEndActiveFlights
<1>3. CASE s.active_flights # {}
  <2>1. PICK f \in Flights : f \in s.active_flights
    BY <1>1, <1>3 DEF Submitter
  <2>2. ~s.requested["end_active_flights"]
    BY <2>1 DEF Still, ChainInv, Session, Ending, FlightOp
  <2> DEFINE d == Fresh("end_active_flights", f)
             t == Flagged(s, "end_active_flights")
             q == ReadsAuthorization(t)
  <2>3. t \in Submitter /\ Same(s, t) /\ t.calls = s.calls
    BY <1>1, FlaggedFields DEF Stage
  <2>4. q \in Submitter
    BY <2>3, ReadsAuthorizationFields
  <2>5. /\ d \in Call /\ d.op = "end_active_flights" /\ d.flight = f /\ d.stale = FALSE
    BY FreshIsCall DEF Fresh, FlightOp
  <2>6. RequestEndActiveFlights(s) = EndEach(t)
    BY <1>3, <2>2 DEF RequestEndActiveFlights
  <2> HIDE DEF t, d
  <2>7. EndEach(t).calls[d] = t.calls[d] + 1
    BY <2>1, <2>3, <2>4, <2>5 DEF EndEach, Submitter, Same
  <2>8. s.calls[d] \in Nat
    BY <1>1, <2>5 DEF Submitter
  <2> QED
    BY <2>3, <2>5, <2>6, <2>7, <2>8 DEF Asks
<1> QED
  BY <1>2, <1>3

\* The whole chain: what is missing is asked for.
LEMMA ChainAsks ==
    ASSUME NEW s, Still(s), s.current_position,
           ~s.authorization \/ s.flight = None \/ s.encryption_key = None,
           s.flight_plan \/ ~s.requested["create_flight_plan"]
    PROVE  Asks(s, RequestAuthorization(s))
<1>1. s \in Submitter
  BY DEF Still, ChainInv
<1>2. /\ Fresh("authorization", None) \in Call /\ Fresh("pilot_id", None) \in Call
      /\ Fresh("active_flights", None) \in Call
  BY FreshIsCall DEF PlainOp
<1>3. CASE ~s.authorization
  <2>1. ~s.requested["authorization"]
    BY <1>3 DEF Still, ChainInv, Backed, PlainOp
  <2> QED
    BY <1>1, <1>2, <1>3, <2>1, AskAsks DEF RequestAuthorization, Stage
<1>4. CASE s.authorization
  <2>1. [s EXCEPT !.authorization = TRUE] = s
    BY <1>1, <1>4 DEF Submitter
  <2>2. RequestAuthorization(s) = RequestPilotId(s)
    BY <1>4, <2>1 DEF RequestAuthorization, HandleRequestAuthorizationFinished
  <2>3. CASE ~s.pilot_id
    <3>1. ~s.requested["pilot_id"]
      BY <2>3 DEF Still, ChainInv, Backed, PlainOp
    <3> QED
      BY <1>1, <1>2, <1>4, <2>2, <2>3, <3>1, AskAsks DEF RequestPilotId, Stage
  <2>4. CASE s.pilot_id
    <3>1. [s EXCEPT !.pilot_id = TRUE] = s
      BY <1>1, <2>4 DEF Submitter
    <3>2. RequestAuthorization(s) = RequestActiveFlights(s)
      BY <2>2, <2>4, <3>1 DEF RequestPilotId, HandleRequestPilotIdFinished
    <3>3. CASE s.active_flights = None
      <4>1. ~s.requested["active_flights"]
        BY <3>3 DEF Still, ChainInv, Backed, PlainOp
      <4> QED
        BY <1>1, <1>2, <3>2, <3>3, <4>1, AskAsks DEF RequestActiveFlights, Stage
    <3>4. CASE s.active_flights # None
      <4>1. [s EXCEPT !.active_flights = s.active_flights] = s
        BY <1>1 DEF Submitter
      <4>2. RequestAuthorization(s) = RequestEndActiveFlights(s)
        BY <3>2, <3>4, <4>1 DEF RequestActiveFlights, HandleRequestActiveFlightsFinished
      <4> QED
        BY <1>4, <3>4, <4>2, EndAsks
    <3> QED
      BY <3>3, <3>4
  <2> QED
    BY <2>3, <2>4
<1> QED
  BY <1>3, <1>4

\* An undisturbed active submitter whose calls were all answered goes on with
\* the next position, unless it is in one of the two dead ends.
THEOREM StopsAtDeadEndsOnly == Spec => []StopsOnlyAtDeadEnds
<1>1. IInv => StopsOnlyAtDeadEnds
  <2> SUFFICES ASSUME IInv, sub.state = "active", ~sub.late, ~Ready(sub),
                      \A x \in Stage : FreshCalls(sub, x) = {},
                      ~BlindCreate, ~PointWithoutComms
               PROVE  Submitted(sub).calls # sub.calls
    BY DEF StopsOnlyAtDeadEnds
  <2> DEFINE t == [sub EXCEPT !.current_position = TRUE]
  <2>1. sub \in Submitter /\ ChainInv(sub)
    BY DEF IInv, ChainInv
  <2>2. /\ t \in Submitter /\ t.state = sub.state /\ t.late = sub.late /\ t.calls = sub.calls
        /\ t.requested = sub.requested /\ t.undefined = sub.undefined
        /\ t.authorization = sub.authorization /\ t.pilot_id = sub.pilot_id
        /\ t.active_flights = sub.active_flights /\ t.flight_plan = sub.flight_plan
        /\ t.flight = sub.flight /\ t.traffic_monitor = sub.traffic_monitor
        /\ t.encryption_key = sub.encryption_key /\ t.current_position = TRUE
    BY <2>1 DEF Submitter
  <2>3. Submitted(sub) = RequestAuthorization(t)
    <3>1. ~Ready(t) /\ t.state # "inactive"
      BY <2>2 DEF Ready
    <3> QED
      BY <3>1 DEF Submitted
  <2> HIDE DEF t
  <2>4. ChainInv(t)
    BY <2>1, <2>2 DEF ChainInv, Session, ListKept, Backed, Single, Ordered, Ending, Blank, Waits, WaitsFor
  <2>5. ASSUME NEW op, NEW f, Fresh(op, f) \in Call, StageOf(op) \in Stage
        PROVE  t.calls[Fresh(op, f)] = 0
    <3>1. ~(sub.calls[Fresh(op, f)] > 0)
      BY <2>5, FreshIsFreshCall
    <3>2. sub.calls[Fresh(op, f)] \in Nat
      BY <2>1, <2>5 DEF Submitter
    <3> QED
      BY <2>2, <3>1, <3>2
  <2>6. Still(t)
    <3>1. \A op \in PlainOp : Fresh(op, None) \in Call /\ StageOf(op) \in Stage
      BY FreshIsCall DEF PlainOp, StageOf, Stage
    <3>2. \A op \in FlightOp \ {"end_flight"}, f \in Flights :
             Fresh(op, f) \in Call /\ StageOf(op) \in Stage
      BY FreshIsCall DEF FlightOp, StageOf, Stage
    <3> QED
      BY <2>2, <2>4, <2>5, <3>1, <3>2 DEF Still, Waits, WaitsFor
  <2>7. /\ ~t.authorization \/ t.flight = None \/ t.encryption_key = None
        /\ t.flight_plan \/ ~t.requested["create_flight_plan"]
    BY <2>2 DEF Ready, BlindCreate, PointWithoutComms
  <2>8. Asks(t, RequestAuthorization(t))
    BY <2>2, <2>6, <2>7, ChainAsks
  <2> QED
    BY <2>2, <2>3, <2>8 DEF Asks
<1> QED
  BY <1>1, ChainInvariant, PTL

-----------------------------------------------------------------------------
(***************************************************************************)
(* Steps of the submitter are steps of the session: TelemetrySubmitter     *)
(* implements FlightSession.  The request functions move the chain on      *)
(* without touching what the session is about (Held); the callbacks change *)
(* one part of it each, and the inductive invariant says when they can     *)
(* run.                                                                    *)
(***************************************************************************)
\* The flights that deactivate() is ending depend on the end_flight calls only.
LEMMA EndingSame ==
    ASSUME NEW s, NEW t, \A c \in Call : c.op = "end_flight" => t.calls[c] = s.calls[c]
    PROVE  EndingFlights(t) = EndingFlights(s)
<1>1. \A f \in Flights, b \in BOOLEAN : [op |-> "end_flight", flight |-> f, stale |-> b] \in Call
  BY DEF Call, FlightOp
<1> QED
  BY <1>1 DEF EndingFlights, Pending

\* What the session knows is unchanged.
LEMMA SameSession ==
    ASSUME Held(sub, sub')
    PROVE  UNCHANGED Promise!vars
BY EndingSame DEF Held, Promise!vars

\* A submitter that a late reply has reached.
LEMMA Disturbs ==
    ASSUME sub' \in Submitter, sub'.late, sub'.state = sub.state,
           \A c \in Call : c.op = "end_flight" => sub'.calls[c] = sub.calls[c]
    PROVE  Promise!Disturb
BY EndingSame DEF Promise!Disturb, Submitter

\* A callback of c that sets up r and then runs the chain: late, it disturbs
\* the session; otherwise it finds the submitter active, c the call it waits
\* for, and the rest as r has it.
Undisturbed(c, r) ==
    /\ ~sub.late /\ sub.state = "active"
    /\ c = Fresh(c.op, c.flight) /\ sub.calls[Fresh(c.op, c.flight)] > 0
    /\ sub'.late = sub.late /\ sub'.state = sub.state
    /\ EndingFlights(sub') = EndingFlights(sub)
    /\ sub'.flight = r.flight /\ sub'.encryption_key = r.encryption_key
    /\ sub'.active_flights = r.active_flights

\* Late replies disturb the session, and only they do.
LEMMA ReplyDisturbs ==
    ASSUME IInv, NEW c \in Call, Pending(sub, c), c.op # "end_flight",
           NEW r, Held(r, sub'),
           r.late = Taken(sub, c).late, r.state = sub.state, r.calls = Taken(sub, c).calls
    PROVE  Promise!Disturb \/ Undisturbed(c, r)
<1>1. Running(sub, Taken(sub, c), c)
  BY TakenFacts DEF IInv
<1>2. /\ sub' \in Submitter /\ sub'.late = Taken(sub, c).late /\ sub'.state = sub.state
      /\ \A d \in Call : d.op = "end_flight" => sub'.calls[d] = sub.calls[d]
  BY <1>1 DEF Running, Held
<1>3. CASE sub'.late
  BY <1>2, <1>3, Disturbs
<1>4. CASE ~sub'.late
  <2>1. EndingFlights(sub') = EndingFlights(sub)
    BY <1>2, EndingSame
  <2>2. /\ ~sub.late /\ sub.state = "active"
        /\ c = Fresh(c.op, c.flight) /\ sub.calls[Fresh(c.op, c.flight)] > 0
    BY <1>1, <1>2, <1>4 DEF Running
  <2>3. sub'.late = sub.late
    <3>1. sub.late = FALSE /\ sub'.late \in BOOLEAN
      BY <1>2, <2>2 DEF IInv, ChainInv, Submitter
    <3> QED
      BY <3>1, <1>4
  <2> QED
    BY <1>2, <2>1, <2>2, <2>3 DEF Undisturbed, Held
<1> QED
  BY <1>3, <1>4

\* The submitter while the callback runs.
LEMMA TakenSession ==
    ASSUME IInv, NEW c \in Call, Pending(sub, c)
    PROVE  /\ Taken(sub, c) \in Submitter
           /\ Taken(sub, c).state = sub.state
           /\ Taken(sub, c).flight = sub.flight
           /\ Taken(sub, c).encryption_key = sub.encryption_key
           /\ Taken(sub, c).active_flights = sub.active_flights
BY TakenFields DEF Took, IInv, ChainInv

\* The callbacks that only move the chain on.
LEMMA ChainStep ==
    ASSUME IInv, NEW c \in Call, Pending(sub, c), c.op # "end_flight",
           Held(Taken(sub, c), sub')
    PROVE  [Promise!Next]_(Promise!vars)
<1>1. Promise!Disturb \/ Undisturbed(c, Taken(sub, c))
  BY TakenSession, ReplyDisturbs
<1>2. CASE Undisturbed(c, Taken(sub, c))
  BY <1>2, TakenSession DEF Undisturbed, Promise!vars
<1> QED
  BY <1>1, <1>2 DEF Promise!Next

\* handle_request_active_flights_finished
LEMMA FindStep ==
    ASSUME IInv, NEW c \in Call, NEW found \in SUBSET Flights, FlightsFound(c, found)
    PROVE  [Promise!Next]_(Promise!vars)
<1> DEFINE q == Taken(sub, c)
           r == [q EXCEPT !.active_flights = found]
<1>1. Pending(sub, c) /\ c.op = "active_flights" /\ sub' = RequestEndActiveFlights(r)
  BY DEF FlightsFound, Answers, HandleRequestActiveFlightsFinished
<1>2. /\ q \in Submitter /\ q.state = sub.state /\ q.flight = sub.flight
      /\ q.encryption_key = sub.encryption_key
  BY <1>1, TakenSession
<1>3. /\ r \in Submitter /\ r.late = q.late /\ r.state = q.state /\ r.calls = q.calls
      /\ r.flight = q.flight /\ r.encryption_key = q.encryption_key
      /\ r.active_flights = found
  BY <1>2 DEF Submitter
<1>4. Held(r, sub')
  BY <1>1, <1>3, RequestEndActiveFlightsHeld
<1>5. r.late = Taken(sub, c).late /\ r.calls = Taken(sub, c).calls
  BY <1>3
<1> HIDE DEF q, r
<1>6. Promise!Disturb \/ Undisturbed(c, r)
  BY <1>1, <1>2, <1>3, <1>4, <1>5, ReplyDisturbs
<1>7. CASE Undisturbed(c, r)
  <2>1. c.flight = None
    BY <1>1, CallShape DEF PlainOp, FlightOp
  <2>2. Waits(sub, "active_flights") > 0 /\ Ordered(sub)
    BY <1>1, <1>7, <2>1 DEF Undisturbed, Waits, IInv, ChainInv, Session
  <2>3. sub.active_flights = None
    BY <2>2 DEF Ordered
  <2>4. Promise!Find(found)
    BY <1>2, <1>3, <1>7, <2>3 DEF Undisturbed, Promise!Find
  <2> QED
    BY <2>4 DEF Promise!Next
<1> QED
  BY <1>6, <1>7 DEF Promise!Next

\* handle_request_end_active_flight_finished
LEMMA ClearStep ==
    ASSUME IInv, NEW c \in Call, ActiveFlightEnded(c)
    PROVE  [Promise!Next]_(Promise!vars)
<1> DEFINE q == Taken(sub, c)
           left == q.active_flights \ {c.flight}
           r == [q EXCEPT !.active_flights = left]
<1>1. /\ Pending(sub, c) /\ c.op = "end_active_flights" /\ c.flight \in Flights
      /\ sub' = IF r.active_flights = {} THEN RequestCreateFlightPlan(r) ELSE r
  BY CallShape DEF ActiveFlightEnded, Answers, HandleRequestEndActiveFlightFinished, PlainOp, FlightOp
<1>2. /\ q \in Submitter /\ q.state = sub.state /\ q.flight = sub.flight
      /\ q.encryption_key = sub.encryption_key /\ q.active_flights = sub.active_flights
  BY <1>1, TakenSession
<1>3. sub.active_flights \in SUBSET Flights /\ sub.active_flights # None
  <2>1. sub.active_flights # None
    <3>1. sub.calls[c] > 0
      BY <1>1 DEF Pending
    <3> QED
      BY <1>1, <3>1 DEF IInv, ChainInv, ListKept
  <2> QED
    BY <2>1 DEF IInv, ChainInv, Submitter
<1>4. /\ r \in Submitter /\ r.late = q.late /\ r.state = q.state /\ r.calls = q.calls
      /\ r.flight = q.flight /\ r.encryption_key = q.encryption_key
      /\ r.active_flights = sub.active_flights \ {c.flight}
  BY <1>2, <1>3 DEF Submitter
<1>5. Held(r, sub')
  BY <1>1, <1>4, RequestCreateFlightPlanHeld, HeldSelf
<1>6. r.late = Taken(sub, c).late /\ r.calls = Taken(sub, c).calls
  BY <1>4
<1> HIDE DEF q, r
<1>7. Promise!Disturb \/ Undisturbed(c, r)
  BY <1>1, <1>2, <1>4, <1>5, <1>6, ReplyDisturbs
<1>8. CASE Undisturbed(c, r) /\ c.flight \in sub.active_flights
  <2>1. Promise!Clear(c.flight)
    BY <1>2, <1>3, <1>4, <1>8 DEF Undisturbed, Promise!Clear
  <2> QED
    BY <1>1, <2>1 DEF Promise!Next
<1>9. CASE Undisturbed(c, r) /\ c.flight \notin sub.active_flights
  <2>1. r.active_flights = sub.active_flights
    BY <1>3, <1>4, <1>9
  <2> QED
    BY <1>2, <1>4, <1>9, <2>1 DEF Undisturbed, Promise!vars
<1> QED
  BY <1>7, <1>8, <1>9 DEF Promise!Next

\* handle_request_submit_flight_plan_finished, for a flight by point or by plan
LEMMA TakeFlightStep ==
    ASSUME IInv, NEW c \in Call, NEW f \in Flights, Pending(sub, c),
           c.op \in {"create_flight_by_point", "submit_flight_plan"},
           sub' = HandleRequestSubmitFlightPlanFinished(Taken(sub, c), f)
    PROVE  [Promise!Next]_(Promise!vars)
<1> DEFINE q == Taken(sub, c)
           r == [q EXCEPT !.flight = f]
<1>1. sub' = RequestStartFlightComms(RequestMonitorTraffic(r))
  BY DEF HandleRequestSubmitFlightPlanFinished
<1>2. /\ q \in Submitter /\ q.state = sub.state /\ q.active_flights = sub.active_flights
      /\ q.encryption_key = sub.encryption_key
  BY TakenSession
<1>3. /\ r \in Submitter /\ r.late = q.late /\ r.state = q.state /\ r.calls = q.calls
      /\ r.flight = f /\ r.encryption_key = q.encryption_key
      /\ r.active_flights = q.active_flights
  BY <1>2 DEF Submitter
<1>4. Held(r, sub')
  BY <1>1, <1>3, FlightStoredHeld
<1>5. r.late = Taken(sub, c).late /\ r.calls = Taken(sub, c).calls
  BY <1>3
<1> HIDE DEF q, r
<1>6. Promise!Disturb \/ Undisturbed(c, r)
  BY <1>2, <1>3, <1>4, <1>5, ReplyDisturbs
<1>7. CASE Undisturbed(c, r)
  <2>1. c.flight = None /\ c.op \in PlainOp
    BY CallShape DEF PlainOp, FlightOp
  <2>2. Waits(sub, c.op) > 0 /\ Single(sub) /\ Ordered(sub)
    BY <1>7, <2>1 DEF Undisturbed, Waits, IInv, ChainInv, Session
  <2>3. sub.flight = None
    BY <2>2 DEF Ordered
  <2>4. sub.requested["create_flight_plan"]
    <3>1. CASE c.op = "create_flight_by_point"
      BY <2>1, <2>2, <3>1 DEF Single, StageOf
    <3>2. CASE c.op = "submit_flight_plan"
      <4>1. sub.requested["submit_flight_plan"]
        BY <2>1, <2>2, <3>2 DEF Single, StageOf
      <4> QED
        BY <2>2, <4>1 DEF Ordered
    <3> QED
      BY <3>1, <3>2
  <2>5. sub.active_flights = {}
    BY <2>2, <2>4 DEF Ordered
  <2>6. Promise!TakeFlight(f)
    BY <1>2, <1>3, <1>7, <2>3, <2>5 DEF Undisturbed, Promise!TakeFlight
  <2> QED
    BY <2>6 DEF Promise!Next
<1> QED
  BY <1>6, <1>7 DEF Promise!Next

\* handle_request_start_flight_comms_finished
LEMMA TakeKeyStep ==
    ASSUME IInv, NEW c \in Call, FlightCommsStarted(c)
    PROVE  [Promise!Next]_(Promise!vars)
<1> DEFINE q == Taken(sub, c)
           r == [q EXCEPT !.encryption_key = c.flight]
<1>1. /\ Pending(sub, c) /\ c.op = "start_flight_comms" /\ c.flight \in Flights
      /\ sub' = r
  BY CallShape
     DEF FlightCommsStarted, Answers, HandleRequestStartFlightCommsFinished, PlainOp, FlightOp
<1>2. /\ q \in Submitter /\ q.state = sub.state /\ q.active_flights = sub.active_flights
      /\ q.flight = sub.flight
  BY <1>1, TakenSession
<1>3. /\ r \in Submitter /\ r.late = q.late /\ r.state = q.state /\ r.calls = q.calls
      /\ r.flight = q.flight /\ r.encryption_key = c.flight
      /\ r.active_flights = q.active_flights
  BY <1>1, <1>2 DEF Submitter
<1>4. Held(r, sub') /\ r.late = Taken(sub, c).late /\ r.calls = Taken(sub, c).calls
  BY <1>1, <1>3, HeldSelf
<1> HIDE DEF q, r
<1>5. Promise!Disturb \/ Undisturbed(c, r)
  BY <1>1, <1>2, <1>3, <1>4, ReplyDisturbs
<1>6. CASE Undisturbed(c, r)
  <2>1. WaitsFor(sub, "start_flight_comms", c.flight) > 0 /\ Single(sub) /\ Ordered(sub)
    BY <1>1, <1>6 DEF Undisturbed, WaitsFor, IInv, ChainInv, Session
  <2>2. c.flight = sub.flight /\ sub.flight # None
    BY <1>1, <2>1, FlightsAssumption DEF Single
  <2>3. CASE sub.encryption_key = None
    <3>1. Promise!TakeKey
      BY <1>2, <1>3, <1>6, <2>2, <2>3 DEF Undisturbed, Promise!TakeKey
    <3> QED
      BY <3>1 DEF Promise!Next
  <2>4. CASE sub.encryption_key # None
    <3>1. sub.encryption_key = c.flight
      BY <2>1, <2>2, <2>4 DEF Ordered
    <3> QED
      BY <1>2, <1>3, <1>6, <3>1 DEF Undisturbed, Promise!vars
  <2> QED
    BY <2>3, <2>4
<1> QED
  BY <1>5, <1>6 DEF Promise!Next

\* The callback of end_flight: one of the flights being ended may be done.
LEMMA EndDoneStep ==
    ASSUME IInv, NEW c \in Call, Pending(sub, c), c.op = "end_flight", sub' = Taken(sub, c)
    PROVE  [Promise!Next]_(Promise!vars)
<1>1. Took(sub, sub', c) /\ sub \in Submitter
  BY TakenFields DEF IInv, ChainInv
<1>2. c.flight \in Flights /\ c.stale \in BOOLEAN /\ c = [op |-> "end_flight", flight |-> c.flight, stale |-> c.stale]
  <2>1. c.flight \in Flights /\ c.stale \in BOOLEAN
    BY CallShape DEF PlainOp, FlightOp
  <2>2. c \in [op : FlightOp, flight : Flights, stale : BOOLEAN]
    BY DEF Call, PlainOp
  <2> QED
    BY <2>1, <2>2
<1>3. c.flight \in EndingFlights(sub)
  BY <1>2 DEF EndingFlights
<1>4. /\ sub'.state = sub.state /\ sub'.late = sub.late
      /\ sub'.active_flights = sub.active_flights
      /\ sub'.flight = sub.flight /\ sub'.encryption_key = sub.encryption_key
  BY <1>1 DEF Took, Submitter
<1>5. \A f \in Flights : f # c.flight => (f \in EndingFlights(sub') <=> f \in EndingFlights(sub))
  <2>1. \A f \in Flights, b \in BOOLEAN :
          f # c.flight => [op |-> "end_flight", flight |-> f, stale |-> b] # c
    OBVIOUS
  <2>2. \A f \in Flights, b \in BOOLEAN : [op |-> "end_flight", flight |-> f, stale |-> b] \in Call
    BY DEF Call, FlightOp
  <2>3. \A d \in Call : d # c => sub'.calls[d] = sub.calls[d]
    BY <1>1 DEF Took
  <2> QED
    BY <2>1, <2>2, <2>3 DEF EndingFlights, Pending
<1>6. EndingFlights(sub) \subseteq Flights /\ EndingFlights(sub') \subseteq Flights
  BY DEF EndingFlights
<1>7. CASE c.flight \in EndingFlights(sub')
  <2>1. EndingFlights(sub') = EndingFlights(sub)
    BY <1>3, <1>5, <1>6, <1>7
  <2> QED
    BY <1>4, <2>1 DEF Promise!vars
<1>8. CASE c.flight \notin EndingFlights(sub')
  <2>1. EndingFlights(sub') = EndingFlights(sub) \ {c.flight}
    BY <1>3, <1>5, <1>6, <1>8
  <2>2. Promise!EndDone(c.flight)
    BY <1>3, <1>4, <2>1 DEF Promise!EndDone
  <2> QED
    BY <1>2, <2>2 DEF Promise!Next
<1> QED
  BY <1>7, <1>8

\* A failed call of the chain resets a flag; one of end_flight resets nothing.
LEMMA FailureStep ==
    ASSUME IInv, NEW c \in Call, Pending(sub, c), sub' = Failed(Taken(sub, c), c)
    PROVE  [Promise!Next]_(Promise!vars)
<1>1. CASE c.op = "end_flight"
  BY <1>1, EndDoneStep DEF Failed
<1>2. CASE c.op # "end_flight"
  <2> DEFINE q == Taken(sub, c)
             x == StageOf(c.op)
  <2>1. q \in Submitter /\ x \in Stage
    BY <1>2, TakenSession, CallShape DEF PlainOp, FlightOp, StageOf, Stage
  <2> DEFINE n == [q.requested EXCEPT ![x] = FALSE]
  <2>2. sub' = [q EXCEPT !.requested = n]
    BY <1>2 DEF Failed
  <2> HIDE DEF q, x
  <2>3. n \in [Stage -> BOOLEAN]
    BY <2>1 DEF Submitter
  <2> HIDE DEF n
  <2>4. Held(q, sub')
    BY <2>1, <2>2, <2>3 DEF Held, Submitter, Pending
  <2> QED
    BY <1>2, <2>4, ChainStep DEF q
<1> QED
  BY <1>1, <1>2

\* activate()
LEMMA StartStep ==
    ASSUME IInv, Activate
    PROVE  [Promise!Next]_(Promise!vars)
<1> DEFINE r == [sub EXCEPT !.state = "active"]
<1>1. sub \in Submitter /\ sub' = RequestAuthorization(r)
  BY DEF IInv, ChainInv, Activate, Activated
<1>2. /\ r \in Submitter /\ r.state = "active" /\ r.late = sub.late
      /\ r.active_flights = sub.active_flights /\ r.calls = sub.calls
      /\ r.flight = sub.flight /\ r.encryption_key = sub.encryption_key
  BY <1>1 DEF Submitter
<1> HIDE DEF r
<1>3. Held(r, sub')
  BY <1>1, <1>2, RequestAuthorizationHeld
<1>4. /\ sub'.state = "active" /\ sub'.late = sub.late
      /\ sub'.active_flights = sub.active_flights
      /\ sub'.flight = sub.flight /\ sub'.encryption_key = sub.encryption_key
      /\ EndingFlights(sub') = EndingFlights(sub)
  BY <1>2, <1>3, EndingSame DEF Held
<1>5. CASE sub.state = "active"
  BY <1>4, <1>5 DEF Promise!vars
<1>6. CASE sub.state # "active"
  <2>1. Promise!Start
    BY <1>4, <1>6 DEF Promise!Start
  <2> QED
    BY <2>1 DEF Promise!Next
<1> QED
  BY <1>5, <1>6

\* The two calls of end_flight for one flight, before and after deactivate().
OldEnd(f) == [op |-> "end_flight", flight |-> f, stale |-> TRUE]
NewEnd(f) == [op |-> "end_flight", flight |-> f, stale |-> FALSE]

\* They are calls, and aging turns the one into the other.
LEMMA EndCallShape ==
    ASSUME NEW f \in Flights
    PROVE  /\ OldEnd(f) \in Call /\ NewEnd(f) \in Call
           /\ [OldEnd(f) EXCEPT !.stale = FALSE] = NewEnd(f)
           /\ OldEnd(f).stale = TRUE /\ NewEnd(f).stale = FALSE
<1>1. OldEnd(f) \in Call /\ NewEnd(f) \in Call
  BY DEF OldEnd, NewEnd, Call, FlightOp
<1>2. [OldEnd(f) EXCEPT !.stale = FALSE] = NewEnd(f)
  <2> DEFINE o == OldEnd(f)
             x == [o EXCEPT !.stale = FALSE]
  <2>1. o \in [op : {"end_flight"}, flight : Flights, stale : BOOLEAN] /\ o.op = "end_flight" /\ o.flight = f
    BY DEF OldEnd
  <2> HIDE DEF o
  <2>2. x \in [op : {"end_flight"}, flight : Flights, stale : BOOLEAN]
    BY <2>1
  <2>3. x.op = "end_flight" /\ x.flight = f /\ x.stale = FALSE
    BY <2>1
  <2> HIDE DEF x
  <2>4. x = [op |-> "end_flight", flight |-> f, stale |-> FALSE]
    BY <2>2, <2>3
  <2> QED
    BY <2>4 DEF x, o, NewEnd
<1>3. OldEnd(f).stale = TRUE /\ NewEnd(f).stale = FALSE
  BY DEF OldEnd, NewEnd
<1> QED
  BY <1>1, <1>2, <1>3

\* A flight is being ended while one of its two calls is pending.
LEMMA EndingMeans ==
    ASSUME NEW s, NEW f \in Flights
    PROVE  f \in EndingFlights(s) <=> s.calls[OldEnd(f)] > 0 \/ s.calls[NewEnd(f)] > 0
BY Zenon DEF EndingFlights, Pending, OldEnd, NewEnd

\* deactivate()
LEMMA EndStep ==
    ASSUME IInv, Deactivate
    PROVE  [Promise!Next]_(Promise!vars)
<1> DEFINE r == Forgotten(sub)
<1>1. /\ sub \in Submitter /\ sub.state = "active"
      /\ sub' = IF sub.authorization /\ sub.flight # None
                THEN Issued(r, "end_flight", sub.flight) ELSE r
  BY DEF IInv, ChainInv, Deactivate, Deactivated
<1>2. /\ r \in Submitter /\ r.state = "inactive" /\ r.late = FALSE
      /\ r.flight = None /\ r.encryption_key = None
      /\ r.active_flights = sub.active_flights /\ r.calls = Outdated(sub.calls)
  BY ForgottenFields DEF IInv
<1> HIDE DEF r
<1>3. EndingFlights(r) = EndingFlights(sub)
  <2>1. ASSUME NEW f \in Flights
        PROVE  /\ OldEnd(f) \in Call /\ NewEnd(f) \in Call
               /\ r.calls[OldEnd(f)]
                    = sub.calls[OldEnd(f)] + sub.calls[NewEnd(f)]
               /\ r.calls[NewEnd(f)] = 0
    <3>1. OldEnd(f) \in Call /\ NewEnd(f) \in Call
      BY EndCallShape
    <3>2. [OldEnd(f) EXCEPT !.stale = FALSE] = NewEnd(f)
      BY EndCallShape
    <3>3. OldEnd(f).stale = TRUE /\ NewEnd(f).stale = FALSE
      BY EndCallShape
    <3> QED
      BY <1>2, <3>1, <3>2, <3>3 DEF Outdated
  <2>2. \A f \in Flights : sub.calls[OldEnd(f)] \in Nat /\ sub.calls[NewEnd(f)] \in Nat
    BY <1>1, <2>1 DEF Submitter
  <2>3. ASSUME NEW f \in Flights
        PROVE  f \in EndingFlights(r) <=> f \in EndingFlights(sub)
    <3>1. f \in EndingFlights(r)
             <=> r.calls[OldEnd(f)] > 0 \/ r.calls[NewEnd(f)] > 0
      BY EndingMeans
    <3>2. f \in EndingFlights(sub)
             <=> sub.calls[OldEnd(f)] > 0 \/ sub.calls[NewEnd(f)] > 0
      BY EndingMeans
    <3> QED
      BY <2>1, <2>2, <2>3, <3>1, <3>2
  <2> QED
    BY <2>3 DEF EndingFlights
<1>4. CASE sub.authorization /\ sub.flight # None
  <2>1. sub.flight \in Flights /\ Fresh("end_flight", sub.flight) \in Call
    BY <1>1, <1>4, FreshIsCall DEF Submitter, FlightOp
  <2>2. /\ sub' \in Submitter /\ Same(r, sub')
        /\ \A d \in Call : sub'.calls[d] = IF d = Fresh("end_flight", sub.flight)
                                            THEN r.calls[d] + 1 ELSE r.calls[d]
    BY <1>1, <1>2, <1>4, <2>1, IssuedFields
  <2>3. EndingFlights(sub') = EndingFlights(r) \cup {sub.flight}
    <3>1. \A f \in Flights : OldEnd(f) \in Call /\ NewEnd(f) \in Call
      BY EndCallShape
    <3>2. \A f \in Flights : OldEnd(f) # Fresh("end_flight", sub.flight)
      BY DEF Fresh, OldEnd, NewEnd
    <3>3. \A f \in Flights : NewEnd(f) = Fresh("end_flight", sub.flight) <=> f = sub.flight
      BY DEF Fresh, OldEnd, NewEnd
    <3>4. \A f \in Flights : r.calls[NewEnd(f)] \in Nat
      BY <1>2, <3>1 DEF Submitter
    <3>5. ASSUME NEW f \in Flights
          PROVE  f \in EndingFlights(sub') <=> f \in EndingFlights(r) \/ f = sub.flight
      <4>1. f \in EndingFlights(r)
               <=> r.calls[OldEnd(f)] > 0 \/ r.calls[NewEnd(f)] > 0
        BY EndingMeans
      <4>2. f \in EndingFlights(sub')
               <=> sub'.calls[OldEnd(f)] > 0 \/ sub'.calls[NewEnd(f)] > 0
        BY EndingMeans
      <4>3. /\ sub'.calls[OldEnd(f)] = r.calls[OldEnd(f)]
            /\ sub'.calls[NewEnd(f)] = IF f = sub.flight THEN r.calls[NewEnd(f)] + 1
                                                               ELSE r.calls[NewEnd(f)]
        BY <2>2, <3>1, <3>2, <3>3, <3>5
      <4> QED
        BY <3>4, <3>5, <4>1, <4>2, <4>3
    <3> QED
      BY <2>1, <3>5 DEF EndingFlights
  <2>4. None \notin EndingFlights(sub) /\ None # sub.flight
    BY <1>4, FlightsAssumption DEF EndingFlights
  <2>5. Promise!End
    BY <1>1, <1>2, <1>3, <2>2, <2>3, <2>4 DEF Same, Promise!End
  <2> QED
    BY <2>5 DEF Promise!Next
<1>5. CASE ~(sub.authorization /\ sub.flight # None)
  <2>1. sub' = r
    BY <1>1, <1>5
  <2>2. sub.late \/ sub.flight = None
    BY <1>5 DEF IInv, ChainInv, Session, Ordered
  <2>3. None \notin EndingFlights(sub)
    BY FlightsAssumption DEF EndingFlights
  <2>4. sub.late \in BOOLEAN
    BY <1>1 DEF Submitter
  <2>5. Promise!End
    BY <1>1, <1>2, <1>3, <2>1, <2>2, <2>3, <2>4 DEF Promise!End
  <2> QED
    BY <2>5 DEF Promise!Next
<1> QED
  BY <1>4, <1>5

\* submit()
LEMMA SubmitStep ==
    ASSUME IInv, Submit
    PROVE  [Promise!Next]_(Promise!vars)
<1> DEFINE r == [sub EXCEPT !.current_position = TRUE]
<1>1. sub \in Submitter /\ sub' = IF r.state = "inactive" \/ Ready(r) THEN r ELSE RequestAuthorization(r)
  BY DEF IInv, ChainInv, Submit, Submitted
<1>2. r \in Submitter /\ Held(sub, r)
  BY <1>1 DEF Held, Submitter, Pending
<1> HIDE DEF r
<1>3. Held(sub, sub')
  BY <1>1, <1>2, RequestAuthorizationHeld, HeldTransitive
<1> QED
  BY <1>3, SameSession

\* Every step of the submitter is a step of the session or leaves it alone.
LEMMA StepImplements ==
    ASSUME IInv, [Next]_vars
    PROVE  [Promise!Next]_(Promise!vars)
<1>1. CASE Activate
  BY <1>1, StartStep
<1>2. CASE Deactivate
  BY <1>2, EndStep
<1>3. CASE Submit
  BY <1>3, SubmitStep
<1>4. CASE \E g \in Geometry : SetMissionGeometry(g)
  <2> PICK g \in Geometry : sub' = [sub EXCEPT !.mission_geometry = g]
    BY <1>4 DEF SetMissionGeometry, WithMissionGeometry
  <2>1. /\ sub'.state = sub.state /\ sub'.late = sub.late
        /\ sub'.active_flights = sub.active_flights /\ sub'.flight = sub.flight
        /\ sub'.encryption_key = sub.encryption_key /\ sub'.calls = sub.calls
    BY DEF IInv, ChainInv, Submitter
  <2>2. EndingFlights(sub') = EndingFlights(sub)
    BY <2>1, EndingSame
  <2> QED
    BY <2>1, <2>2 DEF Promise!vars
<1>5. CASE Reply
  <2> PICK c \in Call :
        \/ Authenticated(c)
        \/ PilotFound(c)
        \/ \E found \in SUBSET Flights : FlightsFound(c, found)
        \/ ActiveFlightEnded(c)
        \/ FlightPlanCreated(c)
        \/ \E f \in Flights : FlightCreatedByPoint(c, f)
        \/ \E f \in Flights : FlightPlanSubmitted(c, f)
        \/ TrafficMonitored(c)
        \/ FlightCommsStarted(c)
        \/ FlightEnded(c)
        \/ CallFailed(c)
        \/ EndReplyLost(c)
        \/ \E f \in Flights : CreateReplyLost(c, f)
    BY <1>5 DEF Reply
  <2> DEFINE q == Taken(sub, c)
  <2>0. Pending(sub, c) => q \in Submitter
    BY TakenSession
  <2>1. CASE Authenticated(c)
    <3>1. Pending(sub, c) /\ c.op = "authorization" /\ sub' = HandleRequestAuthorizationFinished(q)
      BY <2>1 DEF Authenticated, Answers
    <3>2. Held(q, sub')
      BY <2>0, <3>1, AuthorizationStoredHeld
    <3> QED
      BY <3>1, <3>2, ChainStep
  <2>2. CASE PilotFound(c)
    <3>1. Pending(sub, c) /\ c.op = "pilot_id" /\ sub' = HandleRequestPilotIdFinished(q)
      BY <2>2 DEF PilotFound, Answers
    <3>2. Held(q, sub')
      BY <2>0, <3>1, PilotIdStoredHeld
    <3> QED
      BY <3>1, <3>2, ChainStep
  <2>3. CASE \E found \in SUBSET Flights : FlightsFound(c, found)
    BY <2>3, FindStep
  <2>4. CASE ActiveFlightEnded(c)
    BY <2>4, ClearStep
  <2>5. CASE FlightPlanCreated(c)
    <3>1. Pending(sub, c) /\ c.op = "create_flight_plan" /\ sub' = HandleRequestCreateFlightPlanFinished(q)
      BY <2>5 DEF FlightPlanCreated, Answers
    <3>2. Held(q, sub')
      BY <2>0, <3>1, PlanStoredHeld
    <3> QED
      BY <3>1, <3>2, ChainStep
  <2>6. CASE \E f \in Flights : FlightCreatedByPoint(c, f)
    BY <2>6, TakeFlightStep DEF FlightCreatedByPoint, Answers
  <2>7. CASE \E f \in Flights : FlightPlanSubmitted(c, f)
    BY <2>7, TakeFlightStep DEF FlightPlanSubmitted, Answers
  <2>8. CASE TrafficMonitored(c)
    <3>1. /\ Pending(sub, c) /\ c.op = "traffic_monitoring" /\ c.flight \in Flights
          /\ sub' = [q EXCEPT !.traffic_monitor = c.flight]
      BY <2>8, CallShape
         DEF TrafficMonitored, Answers, HandleRequestMonitorTrafficFinished, PlainOp, FlightOp
    <3> HIDE DEF q
    <3>2. Held(q, sub')
      BY <2>0, <3>1 DEF Held, Submitter, Pending
    <3> QED
      BY <3>1, <3>2, ChainStep DEF q
  <2>9. CASE FlightCommsStarted(c)
    BY <2>9, TakeKeyStep
  <2>10. CASE FlightEnded(c)
    BY <2>10, EndDoneStep DEF FlightEnded, Answers
  <2>11. CASE CallFailed(c)
    BY <2>11, FailureStep DEF CallFailed
  <2>12. CASE EndReplyLost(c)
    BY <2>12, FailureStep DEF EndReplyLost
  <2>13. CASE \E f \in Flights : CreateReplyLost(c, f)
    BY <2>13, FailureStep DEF CreateReplyLost
  <2> QED
    BY <2>1, <2>2, <2>3, <2>4, <2>5, <2>6, <2>7, <2>8, <2>9, <2>10, <2>11, <2>12, <2>13
<1>6. CASE \E f \in Flights : Expire(f)
  BY <1>6 DEF Expire, Promise!vars
<1>7. CASE UNCHANGED vars
  BY <1>7 DEF vars, Promise!vars
<1> QED
  BY <1>1, <1>2, <1>3, <1>4, <1>5, <1>6, <1>7 DEF Next

\* The submitter implements the flight session, whatever the services answer
\* and in whatever order, for any finite set of flights.
THEOREM SubmitterImplementsSession == Spec => ImplementsFlightSession
<1>1. Init => Promise!Init
  <2> DEFINE s == NewSubmitter
  <2>1. /\ s.state = "inactive" /\ s.late = FALSE /\ s.active_flights = None
        /\ s.flight = None /\ s.encryption_key = None
        /\ \A c \in Call : s.calls[c] = 0
    BY DEF NewSubmitter
  <2> HIDE DEF s
  <2>2. ASSUME NEW f \in Flights
        PROVE  f \notin EndingFlights(s)
    <3>1. OldEnd(f) \in Call /\ NewEnd(f) \in Call
      BY EndCallShape
    <3>2. f \in EndingFlights(s) <=> s.calls[OldEnd(f)] > 0 \/ s.calls[NewEnd(f)] > 0
      BY EndingMeans
    <3> QED
      BY <2>1, <3>1, <3>2
  <2>3. EndingFlights(s) = {}
    BY <2>2 DEF EndingFlights
  <2>4. Init => sub = s
    BY DEF Init, s
  <2> QED
    BY <2>1, <2>3, <2>4 DEF Promise!Init
<1>2. IInv /\ [Next]_vars => [Promise!Next]_(Promise!vars)
  BY StepImplements
<1> QED
  BY <1>1, <1>2, ChainInvariant, PTL DEF Spec, ImplementsFlightSession, Promise!Spec

-----------------------------------------------------------------------------
(***************************************************************************)
(* No flight is leaked silently.  A run of the chain takes no call back    *)
(* (Held), so a flight that is being ended stays accounted for until the   *)
(* call is answered; a flight the submitter holds is given up by           *)
(* deactivate() only, which ends it, because a session that holds a flight *)
(* holds an authorization.                                                 *)
(***************************************************************************)
\* The calls that end a flight.
EndOp == {"end_flight", "end_active_flights"}

\* A call that ends the flight f is pending.
BeingEnded(s, f) == \E c \in Call : c.op \in EndOp /\ c.flight = f /\ Pending(s, c)

\* A flight is accounted for by the submitter or by one of its calls.
LEMMA AccountedMeans ==
    ASSUME NEW f \in Flights
    PROVE  /\ Accounted(f) <=> f \notin open \/ f = sub.flight \/ BeingEnded(sub, f)
           /\ Accounted(f)' <=> f \notin open' \/ f = sub'.flight \/ BeingEnded(sub', f)
BY DEF Accounted, BeingEnded, EndOp

\* A run of the chain from s leaves the calls that end flights pending.
LEMMA HeldEnds ==
    ASSUME NEW s, NEW t, NEW f \in Flights, Held(s, t), BeingEnded(s, f)
    PROVE  BeingEnded(t, f)
BY DEF Held, BeingEnded

\* A step without a reply, after which the submitter holds the same flight.
LEMMA HeldAccounts ==
    ASSUME NEW s, NEW f \in Flights, Accounted(f), Held(s, sub'),
           s.flight = sub.flight, s.calls = sub.calls, open' \subseteq open
    PROVE  Accounted(f)'
<1>1. BeingEnded(sub, f) => BeingEnded(s, f)
  BY DEF BeingEnded, Pending
<1>2. sub'.flight = s.flight
  BY DEF Held
<1> QED
  BY <1>1, <1>2, HeldEnds, AccountedMeans

\* The reply to c, which does not end f, sets up r and runs the chain.
LEMMA ReplyAccounts ==
    ASSUME IInv, NEW c \in Call, Pending(sub, c), NEW f \in Flights, Accounted(f),
           NEW r, Held(r, sub'), r.calls = Taken(sub, c).calls,
           c.op \notin EndOp \/ c.flight # f,
           f = sub.flight => f = r.flight,
           f \in open' => f \in open
    PROVE  Accounted(f)'
<1>1. \A d \in Call : d # c /\ Pending(sub, d) => Pending(r, d)
  <2>1. Took(sub, Taken(sub, c), c)
    BY TakenFields DEF IInv, ChainInv
  <2> QED
    BY <2>1 DEF Took, Pending
<1>2. BeingEnded(sub, f) => BeingEnded(r, f)
  BY <1>1 DEF BeingEnded
<1>3. sub'.flight = r.flight
  BY DEF Held
<1> QED
  BY <1>2, <1>3, HeldEnds, AccountedMeans

\* The reply to c leaves the flight alone.
LEMMA ChainAccounts ==
    ASSUME IInv, NEW c \in Call, Pending(sub, c), NEW f \in Flights, Accounted(f),
           Held(Taken(sub, c), sub'), c.op \notin EndOp \/ c.flight # f,
           f \in open' => f \in open
    PROVE  Accounted(f)'
BY TakenSession, ReplyAccounts

\* deactivate() ends the flight it gives up, and forgets no call.
LEMMA DeactivateAccounts ==
    ASSUME IInv, Deactivate, ~sub.late, NEW f \in Flights, Accounted(f)
    PROVE  Accounted(f)'
<1> DEFINE r == Forgotten(sub)
<1>1. /\ sub \in Submitter /\ open' = open
      /\ sub' = IF sub.authorization /\ sub.flight # None
                THEN Issued(r, "end_flight", sub.flight) ELSE r
  BY DEF IInv, ChainInv, Deactivate, Deactivated
<1>2. r \in Submitter /\ r.calls = Outdated(sub.calls)
  BY ForgottenFields DEF IInv
<1> HIDE DEF r
<1>3. BeingEnded(sub, f) => BeingEnded(r, f)
  <2> SUFFICES ASSUME NEW c \in Call, c.op \in EndOp, c.flight = f, sub.calls[c] > 0
               PROVE  BeingEnded(r, f)
    BY DEF BeingEnded, Pending
  <2> DEFINE o == [c EXCEPT !.stale = TRUE]
             n == [o EXCEPT !.stale = FALSE]
  <2>1. /\ o \in Call /\ o.op = c.op /\ o.flight = c.flight /\ o.stale = TRUE
        /\ n \in Call /\ (c = o \/ c = n)
    <3>1. c.op \in FlightOp /\ c.flight \in Flights /\ c.stale \in BOOLEAN
      BY CallShape DEF EndOp, FlightOp, PlainOp
    <3>2. c \in [op : FlightOp, flight : Flights, stale : BOOLEAN]
      BY <3>1 DEF Call, PlainOp, FlightOp
    <3>3. o \in [op : FlightOp, flight : Flights, stale : BOOLEAN]
      BY <3>2
    <3>4. n \in [op : FlightOp, flight : Flights, stale : BOOLEAN]
      BY <3>3
    <3>5. o.op = c.op /\ o.flight = c.flight /\ o.stale = TRUE
      BY <3>2
    <3>6. n.op = c.op /\ n.flight = c.flight /\ n.stale = FALSE
      BY <3>2
    <3>7. c = o \/ c = n
      <4>1. CASE c.stale = TRUE
        BY <3>2, <3>3, <3>5, <4>1
      <4>2. CASE c.stale = FALSE
        BY <3>2, <3>4, <3>6, <4>2
      <4> QED
        BY <3>1, <4>1, <4>2
    <3> QED
      BY <3>3, <3>4, <3>5, <3>7 DEF Call
  <2>2. r.calls[o] = sub.calls[o] + sub.calls[n]
    BY <1>2, <2>1 DEF Outdated
  <2>3. sub.calls[o] \in Nat /\ sub.calls[n] \in Nat
    BY <1>1, <2>1 DEF Submitter
  <2> HIDE DEF o, n
  <2>4. r.calls[o] > 0
    BY <2>1, <2>2, <2>3
  <2> QED
    BY <2>1, <2>4 DEF BeingEnded, Pending
<1>4. CASE sub.flight # None
  <2>1. sub.flight \in Flights /\ sub.authorization
    BY <1>1, <1>4 DEF IInv, ChainInv, Session, Ordered, Submitter
  <2> DEFINE d == Fresh("end_flight", sub.flight)
  <2>2. d \in Call /\ d.op = "end_flight" /\ d.flight = sub.flight
    BY <2>1, FreshIsCall DEF FlightOp, Fresh
  <2>3. sub' = Issued(r, "end_flight", sub.flight)
    BY <1>1, <1>4, <2>1
  <2>4. \A e \in Call : sub'.calls[e] = IF e = d THEN r.calls[e] + 1 ELSE r.calls[e]
    BY <1>2, <2>2, <2>3, IssuedFields
  <2> HIDE DEF d
  <2>5. \A e \in Call : r.calls[e] \in Nat
    BY <1>2 DEF Submitter
  <2>6. BeingEnded(r, f) => BeingEnded(sub', f)
    BY <2>4, <2>5 DEF BeingEnded, Pending
  <2>7. f = sub.flight => BeingEnded(sub', f)
    BY <2>2, <2>4, <2>5 DEF BeingEnded, Pending, EndOp
  <2> QED
    BY <1>1, <1>3, <2>6, <2>7, AccountedMeans
<1>5. CASE sub.flight = None
  <2>1. sub' = r /\ f # sub.flight
    BY <1>1, <1>5, FlightsAssumption
  <2> QED
    BY <1>1, <1>3, <2>1, AccountedMeans
<1> QED
  BY <1>4, <1>5

\* A new flight is the one the submitter holds; there was none before.
LEMMA TakeFlightAccounts ==
    ASSUME IInv, NEW c \in Call, NEW g \in Flights, Pending(sub, c),
           c.op \in {"create_flight_by_point", "submit_flight_plan"},
           sub' = HandleRequestSubmitFlightPlanFinished(Taken(sub, c), g),
           open' = open \cup {g}, ~sub'.late,
           NEW f \in Flights, Accounted(f)
    PROVE  Accounted(f)'
<1> DEFINE q == Taken(sub, c)
           r == [q EXCEPT !.flight = g]
<1>1. sub' = RequestStartFlightComms(RequestMonitorTraffic(r))
  BY DEF HandleRequestSubmitFlightPlanFinished
<1>2. q \in Submitter
  BY TakenSession
<1>3. r \in Submitter /\ r.late = q.late /\ r.calls = q.calls /\ r.flight = g
  BY <1>2 DEF Submitter
<1> HIDE DEF r
<1>4. Held(r, sub')
  BY <1>1, <1>3, FlightStoredHeld
<1>5. sub'.flight = g /\ ~Taken(sub, c).late
  BY <1>3, <1>4 DEF Held
<1>6. sub.flight = None
  <2>1. c.op # "end_flight" /\ c.op \in PlainOp /\ c.flight = None
    BY CallShape DEF PlainOp, FlightOp
  <2>2. ~sub.late /\ ~c.stale
    BY <1>5, <2>1, FreshReplyFindsActive DEF IInv
  <2>3. c = Fresh(c.op, c.flight)
    BY <2>2, CallShape
  <2>4. Waits(sub, c.op) > 0
    BY <2>1, <2>3 DEF Pending, Waits
  <2>5. Ordered(sub)
    BY <2>2 DEF IInv, ChainInv, Session
  <2> QED
    BY <2>4, <2>5 DEF Ordered
<1>7. CASE f = g
  BY <1>5, <1>7, AccountedMeans
<1>8. CASE f # g
  <2>1. c.op \notin EndOp /\ f # sub.flight /\ (f \in open' => f \in open)
    BY <1>6, <1>8, FlightsAssumption DEF EndOp
  <2>2. r.calls = Taken(sub, c).calls
    BY <1>3
  <2> QED
    BY <1>4, <2>1, <2>2, ReplyAccounts
<1> QED
  BY <1>7, <1>8

\* The answer to a call that ends a flight: that flight is gone.
LEMMA EndedAccounts ==
    ASSUME IInv, NEW c \in Call, Pending(sub, c), c.op \in EndOp,
           NEW r, Held(r, sub'), r.calls = Taken(sub, c).calls, r.flight = sub.flight,
           open' = open \ {c.flight}, NEW f \in Flights, Accounted(f)
    PROVE  Accounted(f)'
<1>1. CASE f = c.flight
  BY <1>1, AccountedMeans
<1>2. CASE f # c.flight
  <2>1. f \in open' => f \in open
    OBVIOUS
  <2> QED
    BY <1>2, <2>1, ReplyAccounts
<1> QED
  BY <1>1, <1>2

\* The failure branch of a callback keeps what the session sees.
LEMMA FailedHeld ==
    ASSUME IInv, NEW c \in Call, Pending(sub, c)
    PROVE  Held(Taken(sub, c), Failed(Taken(sub, c), c))
<1> DEFINE q == Taken(sub, c)
           x == StageOf(c.op)
           t == Failed(q, c)
<1>1. q \in Submitter
  BY TakenSession
<1>2. CASE c.op = "end_flight"
  <2>1. t = q
    BY <1>2 DEF Failed
  <2> QED
    BY <1>1, <2>1, HeldSelf
<1>3. CASE c.op # "end_flight"
  <2>1. x \in Stage
    BY <1>3, CallShape DEF PlainOp, FlightOp, StageOf, Stage
  <2> DEFINE n == [q.requested EXCEPT ![x] = FALSE]
  <2>2. t = [q EXCEPT !.requested = n]
    BY <1>3 DEF Failed
  <2> HIDE DEF q, x, t
  <2>3. n \in [Stage -> BOOLEAN]
    BY <1>1, <2>1 DEF Submitter
  <2> HIDE DEF n
  <2>4. Held(q, t)
    BY <1>1, <2>2, <2>3 DEF Held, Submitter, Pending
  <2> QED
    BY <2>4 DEF q, t
<1> QED
  BY <1>2, <1>3

\* A reply accounts for every flight that was accounted for, unless it says
\* that a call failed.
LEMMA ReplyLeaksNothing ==
    ASSUME IInv, Reply, ~sub.late, ~sub'.late, NEW f \in Flights, Accounted(f),
           ~\E c \in Call : CallFailed(c) \/ \E g \in Flights : CreateReplyLost(c, g)
    PROVE  Accounted(f)'
<1> PICK c \in Call :
      \/ Authenticated(c)
      \/ PilotFound(c)
      \/ \E found \in SUBSET Flights : FlightsFound(c, found)
      \/ ActiveFlightEnded(c)
      \/ FlightPlanCreated(c)
      \/ \E g \in Flights : FlightCreatedByPoint(c, g)
      \/ \E g \in Flights : FlightPlanSubmitted(c, g)
      \/ TrafficMonitored(c)
      \/ FlightCommsStarted(c)
      \/ FlightEnded(c)
      \/ EndReplyLost(c)
  BY DEF Reply
<1> DEFINE q == Taken(sub, c)
<1>0. Pending(sub, c) => q \in Submitter /\ q.flight = sub.flight
  BY TakenSession
<1>1. CASE Authenticated(c)
  <2>1. /\ Pending(sub, c) /\ c.op = "authorization" /\ open' = open
        /\ sub' = HandleRequestAuthorizationFinished(q)
    BY <1>1 DEF Authenticated, Answers
  <2>2. Held(q, sub')
    BY <1>0, <2>1, AuthorizationStoredHeld
  <2> QED
    BY <2>1, <2>2, ChainAccounts DEF EndOp
<1>2. CASE PilotFound(c)
  <2>1. /\ Pending(sub, c) /\ c.op = "pilot_id" /\ open' = open
        /\ sub' = HandleRequestPilotIdFinished(q)
    BY <1>2 DEF PilotFound, Answers
  <2>2. Held(q, sub')
    BY <1>0, <2>1, PilotIdStoredHeld
  <2> QED
    BY <2>1, <2>2, ChainAccounts DEF EndOp
<1>3. CASE \E found \in SUBSET Flights : FlightsFound(c, found)
  <2> PICK found \in SUBSET Flights : FlightsFound(c, found)
    BY <1>3
  <2> DEFINE r == [q EXCEPT !.active_flights = found]
  <2>1. /\ Pending(sub, c) /\ c.op = "active_flights" /\ open' = open
        /\ sub' = RequestEndActiveFlights(r)
    BY DEF FlightsFound, Answers, HandleRequestActiveFlightsFinished
  <2>2. r \in Submitter /\ r.calls = q.calls /\ r.flight = sub.flight
    BY <1>0, <2>1 DEF Submitter
  <2> HIDE DEF r
  <2>3. Held(r, sub')
    BY <2>1, <2>2, RequestEndActiveFlightsHeld
  <2>4. r.calls = Taken(sub, c).calls
    BY <2>2
  <2> QED
    BY <2>1, <2>2, <2>3, <2>4, ReplyAccounts DEF EndOp
<1>4. CASE ActiveFlightEnded(c)
  <2> DEFINE left == q.active_flights \ {c.flight}
             r == [q EXCEPT !.active_flights = left]
  <2>1. /\ Pending(sub, c) /\ c.op = "end_active_flights" /\ open' = open \ {c.flight}
        /\ sub' = IF r.active_flights = {} THEN RequestCreateFlightPlan(r) ELSE r
    BY <1>4 DEF ActiveFlightEnded, Answers, HandleRequestEndActiveFlightFinished
  <2>2. q.active_flights = sub.active_flights /\ sub.active_flights \in SUBSET Flights
    <3>1. sub.calls[c] > 0
      BY <2>1 DEF Pending
    <3>2. sub.active_flights # None /\ sub \in Submitter
      BY <2>1, <3>1 DEF IInv, ChainInv, ListKept
    <3> QED
      BY <2>1, <3>2, TakenSession DEF Submitter
  <2>3. r \in Submitter /\ r.calls = q.calls /\ r.flight = sub.flight
    BY <1>0, <2>1, <2>2 DEF Submitter
  <2> HIDE DEF r
  <2>4. Held(r, sub')
    BY <2>1, <2>3, RequestCreateFlightPlanHeld, HeldSelf
  <2>5. r.calls = Taken(sub, c).calls
    BY <2>3
  <2> QED
    BY <2>1, <2>3, <2>4, <2>5, EndedAccounts DEF EndOp
<1>5. CASE FlightPlanCreated(c)
  <2>1. /\ Pending(sub, c) /\ c.op = "create_flight_plan" /\ open' = open
        /\ sub' = HandleRequestCreateFlightPlanFinished(q)
    BY <1>5 DEF FlightPlanCreated, Answers
  <2>2. Held(q, sub')
    BY <1>0, <2>1, PlanStoredHeld
  <2> QED
    BY <2>1, <2>2, ChainAccounts DEF EndOp
<1>6. CASE \E g \in Flights : FlightCreatedByPoint(c, g)
  BY <1>6, TakeFlightAccounts DEF FlightCreatedByPoint, Answers
<1>7. CASE \E g \in Flights : FlightPlanSubmitted(c, g)
  BY <1>7, TakeFlightAccounts DEF FlightPlanSubmitted, Answers
<1>8. CASE TrafficMonitored(c)
  <2>1. /\ Pending(sub, c) /\ c.op = "traffic_monitoring" /\ c.flight \in Flights
        /\ sub' = [q EXCEPT !.traffic_monitor = c.flight] /\ open' = open
    BY <1>8, CallShape
       DEF TrafficMonitored, Answers, HandleRequestMonitorTrafficFinished, PlainOp, FlightOp
  <2>2. sub' \in Submitter /\ sub'.calls = q.calls /\ sub'.flight = sub.flight
    BY <1>0, <2>1 DEF Submitter
  <2>3. Held(sub', sub')
    BY <2>2, HeldSelf
  <2>4. sub'.calls = Taken(sub, c).calls
    BY <2>2
  <2> QED
    BY <2>1, <2>2, <2>3, <2>4, ReplyAccounts DEF EndOp
<1>9. CASE FlightCommsStarted(c)
  <2>1. /\ Pending(sub, c) /\ c.op = "start_flight_comms" /\ c.flight \in Flights
        /\ sub' = [q EXCEPT !.encryption_key = c.flight] /\ open' = open
    BY <1>9, CallShape
       DEF FlightCommsStarted, Answers, HandleRequestStartFlightCommsFinished, PlainOp, FlightOp
  <2>2. sub' \in Submitter /\ sub'.calls = q.calls /\ sub'.flight = sub.flight
    BY <1>0, <2>1 DEF Submitter
  <2>3. Held(sub', sub')
    BY <2>2, HeldSelf
  <2>4. sub'.calls = Taken(sub, c).calls
    BY <2>2
  <2> QED
    BY <2>1, <2>2, <2>3, <2>4, ReplyAccounts DEF EndOp
<1>10. CASE FlightEnded(c)
  <2>1. /\ Pending(sub, c) /\ c.op = "end_flight" /\ open' = open \ {c.flight}
        /\ sub' = Taken(sub, c)
    BY <1>10 DEF FlightEnded, Answers
  <2>2. Held(Taken(sub, c), sub') /\ Taken(sub, c).flight = sub.flight
    BY <1>0, <2>1, HeldSelf
  <2> QED
    BY <2>1, <2>2, EndedAccounts DEF EndOp
<1>11. CASE EndReplyLost(c)
  <2>1. /\ Pending(sub, c) /\ c.op \in EndOp /\ open' = open \ {c.flight}
        /\ sub' = Failed(Taken(sub, c), c)
    BY <1>11 DEF EndReplyLost, EndOp
  <2>2. Held(Taken(sub, c), sub') /\ Taken(sub, c).flight = sub.flight
    BY <1>0, <2>1, FailedHeld
  <2> QED
    BY <2>1, <2>2, EndedAccounts
<1> QED
  BY <1>1, <1>2, <1>3, <1>4, <1>5, <1>6, <1>7, <1>8, <1>9, <1>10, <1>11

\* Every step accounts for the flights that were accounted for, unless a call
\* fails or a reply of an earlier session was applied.
LEMMA StepLeaksNothing ==
    ASSUME IInv, [Next]_vars, ~sub.late, ~sub'.late, NEW f \in Flights, Accounted(f),
           ~\E c \in Call : CallFailed(c) \/ \E g \in Flights : CreateReplyLost(c, g)
    PROVE  Accounted(f)'
<1>0. sub \in Submitter
  BY DEF IInv, ChainInv
<1>1. CASE Activate
  <2> DEFINE r == [sub EXCEPT !.state = "active"]
  <2>1. sub' = RequestAuthorization(r) /\ open' = open
    BY <1>1 DEF Activate, Activated
  <2>2. r \in Submitter /\ r.calls = sub.calls /\ r.flight = sub.flight
    BY <1>0 DEF Submitter
  <2> HIDE DEF r
  <2>3. Held(r, sub')
    BY <2>1, <2>2, RequestAuthorizationHeld
  <2> QED
    BY <2>1, <2>2, <2>3, HeldAccounts
<1>2. CASE Deactivate
  BY <1>2, DeactivateAccounts
<1>3. CASE Submit
  <2> DEFINE r == [sub EXCEPT !.current_position = TRUE]
  <2>1. /\ open' = open
        /\ sub' = IF r.state = "inactive" \/ Ready(r) THEN r ELSE RequestAuthorization(r)
    BY <1>3 DEF Submit, Submitted
  <2>2. r \in Submitter /\ r.calls = sub.calls /\ r.flight = sub.flight
    BY <1>0 DEF Submitter
  <2> HIDE DEF r
  <2>3. Held(r, sub')
    BY <2>1, <2>2, RequestAuthorizationHeld, HeldSelf
  <2> QED
    BY <2>1, <2>2, <2>3, HeldAccounts
<1>4. CASE \E g \in Geometry : SetMissionGeometry(g)
  <2> PICK g \in Geometry : sub' = [sub EXCEPT !.mission_geometry = g] /\ open' = open
    BY <1>4 DEF SetMissionGeometry, WithMissionGeometry
  <2>1. sub' \in Submitter /\ sub'.calls = sub.calls /\ sub'.flight = sub.flight
    BY <1>0 DEF Submitter
  <2>2. Held(sub', sub')
    BY <2>1, HeldSelf
  <2> QED
    BY <2>1, <2>2, HeldAccounts
<1>5. CASE Reply
  BY <1>5, ReplyLeaksNothing
<1>6. CASE \E g \in Flights : Expire(g)
  <2>1. open' \subseteq open /\ sub' = sub
    BY <1>6 DEF Expire
  <2>2. Held(sub, sub')
    BY <1>0, <2>1, HeldSelf
  <2> QED
    BY <2>1, <2>2, HeldAccounts
<1>7. CASE UNCHANGED vars
  <2>1. open' = open /\ sub' = sub
    BY <1>7 DEF vars
  <2>2. Held(sub, sub')
    BY <1>0, <2>1, HeldSelf
  <2> QED
    BY <2>1, <2>2, HeldAccounts
<1> QED
  BY <1>1, <1>2, <1>3, <1>4, <1>5, <1>6, <1>7 DEF Next

\* No flight is leaked silently: in a session no late reply has touched, only
\* a failed call makes the submitter lose sight of a flight that is still open.
THEOREM NothingLeaksSilently == Spec => NoSilentLeak
<1>1. IInv /\ [Next]_vars =>
        [\A f \in Flights : Accounted(f) /\ ~Accounted(f)'
            => sub.late \/ sub'.late
               \/ \E c \in Call : CallFailed(c) \/ \E g \in Flights : CreateReplyLost(c, g)]_vars
  BY StepLeaksNothing
<1> QED
  BY <1>1, ChainInvariant, PTL DEF Spec, NoSilentLeak
=============================================================================
