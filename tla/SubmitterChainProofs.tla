------------------------ MODULE SubmitterChainProofs ------------------------
(***************************************************************************)
(* What the functions of a submitter preserve, for any finite set of       *)
(* flights and any number of pending calls: the invariant of the chain     *)
(* (Keeps), and what a session is about (Held).                            *)
(***************************************************************************)
EXTENDS SubmitterChain, FiniteSetTheorems, TLAPS

-----------------------------------------------------------------------------
(***************************************************************************)
(* The inductive invariant, in parts.  Waits(s, op) and WaitsFor(s, op, f) *)
(* count the fresh calls pending.                                          *)
(***************************************************************************)
Waits(s, op) == s.calls[Fresh(op, None)]
WaitsFor(s, op, f) == s.calls[Fresh(op, f)]

\* The list of active flights, once there, is never reset.
ListKept(s) ==
    /\ s.active_flights = None =>
          /\ ~s.requested["end_active_flights"]
          /\ \A c \in Call : c.op = "end_active_flights" => s.calls[c] = 0

\* A flag stands for a value or for a fresh call.
Backed(s) ==
    /\ s.requested["authorization"] => s.authorization \/ Waits(s, "authorization") > 0
    /\ s.requested["pilot_id"] => s.pilot_id \/ Waits(s, "pilot_id") > 0
    /\ s.requested["active_flights"] => s.active_flights # None \/ Waits(s, "active_flights") > 0
    /\ s.requested["submit_flight_plan"] => s.flight # None \/ Waits(s, "submit_flight_plan") > 0
    /\ s.requested["traffic_monitoring"] =>
          s.traffic_monitor # None \/ \E f \in Flights : WaitsFor(s, "traffic_monitoring", f) > 0
    /\ s.requested["start_flight_comms"] =>
          s.encryption_key # None \/ \E f \in Flights : WaitsFor(s, "start_flight_comms", f) > 0

\* Under a flag, one fresh call; without it, none.
Single(s) ==
    /\ \A op \in PlainOp :
          /\ Waits(s, op) <= 1
          /\ Waits(s, op) > 0 => s.requested[StageOf(op)]
    /\ \A op \in {"traffic_monitoring", "start_flight_comms"}, f \in Flights :
          /\ WaitsFor(s, op, f) <= 1
          /\ WaitsFor(s, op, f) > 0 => s.requested[op] /\ f = s.flight

\* The chain is walked in order: each call was issued with the values before it.
Ordered(s) ==
    /\ s.pilot_id \/ Waits(s, "pilot_id") > 0 => s.authorization
    /\ s.active_flights # None /\ s.requested["end_active_flights"] => s.authorization /\ s.pilot_id
    /\ Waits(s, "active_flights") > 0 =>
          s.authorization /\ s.pilot_id /\ s.active_flights = None
    /\ \A f \in Flights : WaitsFor(s, "end_active_flights", f) > 0 => s.authorization /\ s.pilot_id
    /\ s.requested["create_flight_plan"] =>
          s.authorization /\ s.pilot_id /\ s.active_flights = {}
    /\ s.flight_plan => s.requested["create_flight_plan"]
    /\ s.requested["submit_flight_plan"] => s.flight_plan
    /\ s.flight # None => s.requested["create_flight_plan"]
    /\ Waits(s, "create_flight_plan") > 0 \/ Waits(s, "create_flight_by_point") > 0 =>
          ~s.flight_plan /\ s.flight = None
    /\ Waits(s, "create_flight_plan") = 0 \/ Waits(s, "create_flight_by_point") = 0
    /\ Waits(s, "submit_flight_plan") > 0 => s.flight = None
    /\ s.requested["traffic_monitoring"] \/ s.requested["start_flight_comms"] => s.flight # None
    /\ s.traffic_monitor \in {None, s.flight}
    /\ s.encryption_key \in {None, s.flight}

\* While the flag is set every listed flight is being ended.
Ending(s) ==
    s.requested["end_active_flights"] /\ s.active_flights # None =>
        \A f \in s.active_flights : WaitsFor(s, "end_active_flights", f) > 0

\* An inactive submitter has no flag, no value and no fresh call of the chain.
Blank(s) ==
    s.state = "inactive" =>
        /\ \A x \in Stage : ~s.requested[x]
        /\ ~s.authorization

\* What holds until a reply of an earlier session is applied.
Session(s) == Single(s) /\ Ordered(s) /\ Ending(s) /\ Blank(s)

ChainInv(s) ==
    /\ s \in Submitter
    /\ ListKept(s)
    /\ Backed(s)
    /\ ~s.late => Session(s)

\* One run of the chain: s before, t after.
Follows(s, t) ==
    /\ ChainInv(t)
    /\ t.state = s.state /\ t.late = s.late
    /\ ~s.late => t.undefined \subseteq s.undefined \cup {"coordinates"}

-----------------------------------------------------------------------------
\* A newly issued call is a call.
LEMMA FreshIsCall ==
    /\ \A op \in PlainOp : Fresh(op, None) \in Call
    /\ \A op \in FlightOp, f \in Flights : Fresh(op, f) \in Call
BY DEF Fresh, Call

\* Newly issued calls differ in operation or flight.
LEMMA FreshInjective ==
    \A op1, f1, op2, f2 :
        /\ Fresh(op1, f1) = Fresh(op2, f2) <=> op1 = op2 /\ f1 = f2
        /\ Fresh(op1, f1).op = op1
BY DEF Fresh

\* The fields that only the handle_ functions and deactivate() change.
Same(s, t) ==
    /\ t.state = s.state /\ t.late = s.late
    /\ t.authorization = s.authorization /\ t.pilot_id = s.pilot_id
    /\ t.active_flights = s.active_flights /\ t.flight_plan = s.flight_plan
    /\ t.flight = s.flight /\ t.traffic_monitor = s.traffic_monitor
    /\ t.encryption_key = s.encryption_key
    /\ t.current_position = s.current_position
    /\ t.mission_geometry = s.mission_geometry

\* t is s with the flag x set and one more fresh call pending.
Asked(s, t, x, op, f) ==
    /\ t \in Submitter
    /\ Same(s, t)
    /\ \A y \in Stage : t.requested[y] <=> y = x \/ s.requested[y]
    /\ \A d \in Call : t.calls[d] = IF d = Fresh(op, f) THEN s.calls[d] + 1 ELSE s.calls[d]

\* Setting X_requested_ changes that flag and nothing else.
LEMMA FlaggedFields ==
    ASSUME NEW s \in Submitter, NEW x \in Stage
    PROVE  /\ Flagged(s, x) \in Submitter
           /\ Same(s, Flagged(s, x))
           /\ \A y \in Stage : Flagged(s, x).requested[y] <=> y = x \/ s.requested[y]
           /\ Flagged(s, x).calls = s.calls
           /\ Flagged(s, x).undefined = s.undefined
BY DEF Flagged, Submitter, Same

\* Reading an Optional changes the history of undefined reads only.
LEMMA ReadsFields ==
    ASSUME NEW s \in Submitter,
           NEW w \in SUBSET {"authorization", "pilot_id", "coordinates"}
    PROVE  /\ Reads(s, w) \in Submitter
           /\ Same(s, Reads(s, w))
           /\ Reads(s, w).requested = s.requested
           /\ Reads(s, w).calls = s.calls
           /\ Reads(s, w).undefined = s.undefined \cup w
BY DEF Reads, Submitter, Same

\* authorization_.get() is recorded only when there is none.
LEMMA ReadsAuthorizationFields ==
    ASSUME NEW s \in Submitter
    PROVE  /\ ReadsAuthorization(s) \in Submitter
           /\ Same(s, ReadsAuthorization(s))
           /\ ReadsAuthorization(s).requested = s.requested
           /\ ReadsAuthorization(s).calls = s.calls
           /\ s.authorization => ReadsAuthorization(s).undefined = s.undefined
<1>1. CASE s.authorization
  <2>1. ReadsAuthorization(s) = Reads(s, {})
    BY <1>1 DEF ReadsAuthorization
  <2>2. {} \in SUBSET {"authorization", "pilot_id", "coordinates"}
    OBVIOUS
  <2>3. s.undefined \cup {} = s.undefined
    OBVIOUS
  <2> QED
    BY <2>1, <2>2, <2>3, ReadsFields, ZenonT(60)
<1>2. CASE ~s.authorization
  <2>1. ReadsAuthorization(s) = Reads(s, {"authorization"})
    BY <1>2 DEF ReadsAuthorization
  <2> QED
    BY <1>2, <2>1, ReadsFields
<1> QED
  BY <1>1, <1>2

\* Issuing a call adds one pending callback and nothing else.
LEMMA IssuedFields ==
    ASSUME NEW s \in Submitter, NEW op, NEW f, Fresh(op, f) \in Call
    PROVE  /\ Issued(s, op, f) \in Submitter
           /\ Same(s, Issued(s, op, f))
           /\ Issued(s, op, f).requested = s.requested
           /\ \A d \in Call : Issued(s, op, f).calls[d]
                                = IF d = Fresh(op, f) THEN s.calls[d] + 1 ELSE s.calls[d]
           /\ Issued(s, op, f).undefined = s.undefined
BY DEF Issued, Submitter, Same

\* The three things most request functions do, as one change.
LEMMA FlagReadIssue ==
    ASSUME NEW s \in Submitter, NEW x \in Stage, NEW op, NEW f, Fresh(op, f) \in Call
    PROVE  /\ Asked(s, Issued(ReadsAuthorization(Flagged(s, x)), op, f), x, op, f)
           /\ s.authorization =>
                 Issued(ReadsAuthorization(Flagged(s, x)), op, f).undefined = s.undefined
<1> DEFINE r == Flagged(s, x)
           q == ReadsAuthorization(r)
           t == Issued(q, op, f)
<1>1. /\ r \in Submitter /\ Same(s, r) /\ r.calls = s.calls /\ r.undefined = s.undefined
      /\ \A y \in Stage : r.requested[y] <=> y = x \/ s.requested[y]
  BY FlaggedFields
<1> HIDE DEF r
<1>2. /\ q \in Submitter /\ Same(r, q) /\ q.calls = r.calls /\ q.requested = r.requested
      /\ r.authorization => q.undefined = r.undefined
  BY <1>1, ReadsAuthorizationFields
<1> HIDE DEF q
<1>3. /\ t \in Submitter /\ Same(q, t) /\ t.requested = q.requested /\ t.undefined = q.undefined
      /\ \A d \in Call : t.calls[d] = IF d = Fresh(op, f) THEN q.calls[d] + 1 ELSE q.calls[d]
  BY <1>2, IssuedFields
<1> HIDE DEF t
<1>4. Asked(s, t, x, op, f) /\ (s.authorization => t.undefined = s.undefined)
  BY <1>1, <1>2, <1>3 DEF Asked, Same
<1> QED
  BY <1>4 DEF t, q, r

\* When the chain issues a call: the flag was clear, the value missing and,
\* in an undisturbed session, the values before it are there.
MayAsk(s, x, op, f) ==
    /\ ~s.requested[x]
    /\ ~s.late => s.state = "active"
    /\ \/ /\ x = "authorization" /\ op = x /\ f = None
          /\ ~s.authorization
       \/ /\ x = "pilot_id" /\ op = x /\ f = None
          /\ s.authorization /\ ~s.pilot_id
       \/ /\ x = "active_flights" /\ op = x /\ f = None
          /\ ~s.late => s.authorization /\ s.pilot_id
          /\ s.active_flights = None
       \/ /\ x = "create_flight_plan" /\ op \in {x, "create_flight_by_point"} /\ f = None
          /\ ~s.late => s.authorization /\ s.pilot_id
          /\ s.active_flights = {} /\ ~s.flight_plan
       \/ /\ x = "submit_flight_plan" /\ op = x /\ f = None
          /\ s.flight_plan /\ s.flight = None
       \/ /\ x \in {"traffic_monitoring", "start_flight_comms"} /\ op = x
          /\ f = s.flight /\ f \in Flights

\* A stage that may be requested can be: the invariant survives the request.
LEMMA AskKeeps ==
    ASSUME NEW s, NEW t, NEW x \in Stage, NEW op, NEW f,
           ChainInv(s), MayAsk(s, x, op, f), Asked(s, t, x, op, f)
    PROVE  ChainInv(t)
<1> USE FlightsAssumption, FreshIsCall, FreshInjective DEF Asked, Same, ChainInv, MayAsk, Waits, WaitsFor
<1>1. ListKept(t)
  BY DEF ListKept, Stage
<1>2. Backed(t)
  BY DEF Backed, Submitter, Stage, PlainOp, FlightOp
<1>3. ~t.late => Single(t)
  BY DEF Session, Single, Submitter, Stage, PlainOp, FlightOp, StageOf
<1>4. ~t.late => Ordered(t)
  <2> USE DEF Session, Ordered, Stage, PlainOp, FlightOp
  <2>1. CASE x \in {"authorization", "pilot_id", "active_flights"}
    BY <2>1
  <2>2. CASE x = "create_flight_plan"
    BY <2>2 DEF Single, Submitter, StageOf
  <2>3. CASE x = "submit_flight_plan"
    BY <2>3
  <2>4. CASE x \in {"traffic_monitoring", "start_flight_comms"}
    BY <2>4
  <2> QED
    BY <2>1, <2>2, <2>3, <2>4
<1>5. ~t.late => Ending(t)
  BY DEF Session, Ending, Submitter, Stage, PlainOp, FlightOp
<1>6. ~t.late => Blank(t)
  BY DEF Session, Ordered, Blank
<1> QED
  BY <1>1, <1>2, <1>3, <1>4, <1>5, <1>6 DEF Session

\* A request function that returns early leaves a submitter in order.
LEMMA FollowsSelf ==
    ASSUME NEW s, ChainInv(s)
    PROVE  Follows(s, s)
BY DEF Follows

\* One request function after another is still one run of the chain.
LEMMA FollowsTransitive ==
    ASSUME NEW r, NEW s, NEW t, Follows(r, s), Follows(s, t)
    PROVE  Follows(r, t)
BY DEF Follows

\* A request function that flags, reads the authorization and issues a call.
LEMMA AskFollows ==
    ASSUME NEW s, NEW x \in Stage, NEW op, NEW f,
           ChainInv(s), MayAsk(s, x, op, f), Fresh(op, f) \in Call,
           ~s.late => s.authorization
    PROVE  LET t == Issued(ReadsAuthorization(Flagged(s, x)), op, f) IN
           Follows(s, t) /\ Same(s, t)
<1> DEFINE t == Issued(ReadsAuthorization(Flagged(s, x)), op, f)
<1>1. s \in Submitter
  BY DEF ChainInv
<1>2. Asked(s, t, x, op, f) /\ (s.authorization => t.undefined = s.undefined)
  BY <1>1, FlagReadIssue
<1> HIDE DEF t
<1>3. ChainInv(t)
  BY <1>2, AskKeeps
<1>4. Follows(s, t) /\ Same(s, t)
  BY <1>2, <1>3 DEF Follows, Asked, Same
<1> QED
  BY <1>4 DEF t

\* A request function that flags and issues a call without any argument.
LEMMA PlainAskFollows ==
    ASSUME NEW s, NEW x \in Stage \cap PlainOp, ChainInv(s), MayAsk(s, x, x, None)
    PROVE  Follows(s, Issued(Flagged(s, x), x, None))
<1> DEFINE r == Flagged(s, x)
           t == Issued(r, x, None)
<1>1. s \in Submitter /\ Fresh(x, None) \in Call
  BY FreshIsCall DEF ChainInv
<1>2. /\ r \in Submitter /\ Same(s, r) /\ r.calls = s.calls /\ r.undefined = s.undefined
      /\ \A y \in Stage : r.requested[y] <=> y = x \/ s.requested[y]
  BY <1>1, FlaggedFields
<1> HIDE DEF r
<1>3. /\ t \in Submitter /\ Same(r, t) /\ t.requested = r.requested /\ t.undefined = r.undefined
      /\ \A d \in Call : t.calls[d] = IF d = Fresh(x, None) THEN r.calls[d] + 1 ELSE r.calls[d]
  BY <1>1, <1>2, IssuedFields
<1> HIDE DEF t
<1>4. Asked(s, t, x, x, None) /\ t.undefined = s.undefined
  BY <1>2, <1>3 DEF Asked, Same
<1>5. ChainInv(t)
  BY <1>4, AskKeeps
<1>6. Follows(s, t)
  BY <1>4, <1>5 DEF Follows, Asked, Same
<1> QED
  BY <1>6 DEF t, r

\* request_start_flight_comms keeps the invariant once there is a flight.
LEMMA RequestStartFlightCommsFollows ==
    ASSUME NEW s, ChainInv(s), s.flight \in Flights, ~s.late => s.state = "active"
    PROVE  Follows(s, RequestStartFlightComms(s))
<1>1. s \in Submitter /\ (~s.late => s.authorization)
  BY FlightsAssumption DEF ChainInv, Session, Ordered
<1>2. CASE s.encryption_key # None
  <2>1. RequestStartFlightComms(s) = s
    BY <1>1, <1>2 DEF RequestStartFlightComms, HandleRequestStartFlightCommsFinished, Submitter
  <2> QED
    BY <2>1, FollowsSelf
<1>3. CASE s.encryption_key = None /\ s.requested["start_flight_comms"]
  BY <1>3, FollowsSelf DEF RequestStartFlightComms
<1>4. CASE s.encryption_key = None /\ ~s.requested["start_flight_comms"]
  <2>1. Fresh("start_flight_comms", s.flight) \in Call
    BY FreshIsCall DEF FlightOp
  <2>2. MayAsk(s, "start_flight_comms", "start_flight_comms", s.flight)
    BY <1>4 DEF MayAsk
  <2> QED
    BY <1>1, <1>4, <2>1, <2>2, AskFollows DEF RequestStartFlightComms, Stage
<1> QED
  BY <1>2, <1>3, <1>4

\* request_monitor_traffic keeps the invariant once there is a flight.
LEMMA RequestMonitorTrafficFollows ==
    ASSUME NEW s, ChainInv(s), s.flight \in Flights, ~s.late => s.state = "active"
    PROVE  /\ Follows(s, RequestMonitorTraffic(s))
           /\ RequestMonitorTraffic(s).flight = s.flight
<1>1. s \in Submitter /\ (~s.late => s.authorization)
  BY FlightsAssumption DEF ChainInv, Session, Ordered
<1>2. CASE s.traffic_monitor # None
  <2>1. RequestMonitorTraffic(s) = s
    BY <1>1, <1>2 DEF RequestMonitorTraffic, HandleRequestMonitorTrafficFinished, Submitter
  <2> QED
    BY <2>1, FollowsSelf
<1>3. CASE s.traffic_monitor = None /\ s.requested["traffic_monitoring"]
  BY <1>3, FollowsSelf DEF RequestMonitorTraffic
<1>4. CASE s.traffic_monitor = None /\ ~s.requested["traffic_monitoring"]
  <2>1. Fresh("traffic_monitoring", s.flight) \in Call
    BY FreshIsCall DEF FlightOp
  <2>2. MayAsk(s, "traffic_monitoring", "traffic_monitoring", s.flight)
    BY <1>4 DEF MayAsk
  <2> QED
    BY <1>1, <1>4, <2>1, <2>2, AskFollows DEF RequestMonitorTraffic, Stage, Same
<1> QED
  BY <1>2, <1>3, <1>4

\* handle_request_submit_flight_plan_finished, once the flight is stored.
LEMMA FlightStoredFollows ==
    ASSUME NEW s, ChainInv(s), s.flight \in Flights, ~s.late => s.state = "active"
    PROVE  Follows(s, RequestStartFlightComms(RequestMonitorTraffic(s)))
<1> DEFINE t == RequestMonitorTraffic(s)
<1>1. Follows(s, t) /\ t.flight = s.flight
  BY RequestMonitorTrafficFollows
<1> HIDE DEF t
<1>2. Follows(t, RequestStartFlightComms(t))
  BY <1>1, RequestStartFlightCommsFollows DEF Follows
<1>3. Follows(s, RequestStartFlightComms(t))
  BY <1>1, <1>2, FollowsTransitive
<1> QED
  BY <1>3 DEF t

\* request_submit_flight_plan keeps the invariant once there is a plan.
LEMMA RequestSubmitFlightPlanFollows ==
    ASSUME NEW s, ChainInv(s), s.flight_plan, ~s.late => s.state = "active"
    PROVE  Follows(s, RequestSubmitFlightPlan(s))
<1>1. s \in Submitter /\ (~s.late => s.authorization)
  BY DEF ChainInv, Session, Ordered
<1>2. CASE s.flight # None
  <2>1. [s EXCEPT !.flight = s.flight] = s
    BY <1>1 DEF Submitter
  <2>2. RequestSubmitFlightPlan(s) = RequestStartFlightComms(RequestMonitorTraffic(s))
    BY <1>2, <2>1 DEF RequestSubmitFlightPlan, HandleRequestSubmitFlightPlanFinished
  <2>3. s.flight \in Flights
    BY <1>1, <1>2 DEF Submitter
  <2> QED
    BY <2>2, <2>3, FlightStoredFollows
<1>3. CASE s.flight = None /\ s.requested["submit_flight_plan"]
  BY <1>3, FollowsSelf DEF RequestSubmitFlightPlan
<1>4. CASE s.flight = None /\ ~s.requested["submit_flight_plan"]
  <2>1. Fresh("submit_flight_plan", None) \in Call
    BY FreshIsCall DEF PlainOp
  <2>2. MayAsk(s, "submit_flight_plan", "submit_flight_plan", None)
    BY <1>4 DEF MayAsk
  <2> QED
    BY <1>1, <1>4, <2>1, <2>2, AskFollows DEF RequestSubmitFlightPlan, Stage
<1> QED
  BY <1>2, <1>3, <1>4

\* The polygon branch of request_create_flight_plan keeps the invariant.
LEMMA CreateByPolygonFollows ==
    ASSUME NEW s, ChainInv(s), MayAsk(s, "create_flight_plan", "create_flight_plan", None)
    PROVE  Follows(s, CreateByPolygon(Flagged(s, "create_flight_plan")))
<1> DEFINE r == Flagged(s, "create_flight_plan")
           w == (IF r.pilot_id THEN {} ELSE {"pilot_id"})
                   \cup (IF r.mission_geometry = "empty" THEN {"coordinates"} ELSE {})
           q == ReadsAuthorization(r)
           p == Reads(q, w)
           t == CreateByPolygon(r)
<1>1. s \in Submitter /\ (~s.late => s.authorization /\ s.pilot_id)
  BY DEF ChainInv, MayAsk
<1>2. /\ r \in Submitter /\ Same(s, r) /\ r.calls = s.calls /\ r.undefined = s.undefined
      /\ \A y \in Stage : r.requested[y] <=> y = "create_flight_plan" \/ s.requested[y]
  BY <1>1, FlaggedFields DEF Stage
<1> HIDE DEF r
<1>3. /\ q \in Submitter /\ Same(r, q) /\ q.calls = r.calls /\ q.requested = r.requested
      /\ r.authorization => q.undefined = r.undefined
  BY <1>2, ReadsAuthorizationFields
<1> HIDE DEF q
<1>4. /\ w \in SUBSET {"authorization", "pilot_id", "coordinates"}
      /\ r.pilot_id => w \subseteq {"coordinates"}
  OBVIOUS
<1> HIDE DEF w
<1>5. /\ p \in Submitter /\ Same(q, p) /\ p.calls = q.calls /\ p.requested = q.requested
      /\ p.undefined = q.undefined \cup w
  BY <1>3, <1>4, ReadsFields
<1> HIDE DEF p
<1>6. t = Issued(p, "create_flight_plan", None)
  BY DEF t, p, q, w, CreateByPolygon
<1> HIDE DEF t
<1>7. /\ t \in Submitter /\ Same(p, t) /\ t.requested = p.requested /\ t.undefined = p.undefined
      /\ \A d \in Call : t.calls[d] = IF d = Fresh("create_flight_plan", None)
                                         THEN p.calls[d] + 1 ELSE p.calls[d]
  <2>1. Fresh("create_flight_plan", None) \in Call
    BY FreshIsCall DEF PlainOp
  <2> QED
    BY <1>5, <1>6, <2>1, IssuedFields
<1>8. Asked(s, t, "create_flight_plan", "create_flight_plan", None)
  BY <1>2, <1>3, <1>5, <1>7 DEF Asked, Same
<1>9. ~s.late => t.undefined \subseteq s.undefined \cup {"coordinates"}
  BY <1>1, <1>2, <1>3, <1>4, <1>5, <1>7 DEF Same
<1>10. ChainInv(t)
  BY <1>8, AskKeeps DEF Stage
<1>11. Follows(s, t)
  BY <1>8, <1>9, <1>10 DEF Follows, Asked, Same
<1> QED
  BY <1>11 DEF t, r

\* The dead end: the flag is set and no call is issued.
LEMMA FlaggedWithoutPositionFollows ==
    ASSUME NEW s, ChainInv(s), MayAsk(s, "create_flight_plan", "create_flight_plan", None)
    PROVE  Follows(s, Flagged(s, "create_flight_plan"))
<1> DEFINE t == Flagged(s, "create_flight_plan")
<1>1. /\ t \in Submitter /\ Same(s, t) /\ t.calls = s.calls /\ t.undefined = s.undefined
      /\ \A y \in Stage : t.requested[y] <=> y = "create_flight_plan" \/ s.requested[y]
  BY FlaggedFields DEF ChainInv, Stage
<1> HIDE DEF t
<1> USE <1>1 DEF ChainInv, MayAsk, Same, Waits, WaitsFor, Stage
<1>2. ListKept(t) /\ Backed(t)
  BY DEF ListKept, Backed
<1>3. ~t.late => Single(t)
  BY DEF Session, Single, PlainOp, StageOf
<1>4. ~t.late => Ordered(t)
  BY DEF Session, Ordered
<1>5. ~t.late => Ending(t) /\ Blank(t)
  BY DEF Session, Ending, Blank
<1>6. Follows(s, t)
  BY <1>2, <1>3, <1>4, <1>5 DEF Follows, Session
<1> QED
  BY ONLY <1>6 DEF t

\* request_create_flight_plan keeps the invariant once no active flight is listed.
LEMMA RequestCreateFlightPlanFollows ==
    ASSUME NEW s, ChainInv(s), s.active_flights = {},
           ~s.late => s.state = "active" /\ s.authorization /\ s.pilot_id
    PROVE  Follows(s, RequestCreateFlightPlan(s))
<1>1. s \in Submitter
  BY DEF ChainInv
<1>2. CASE s.flight_plan
  <2>1. [s EXCEPT !.flight_plan = TRUE] = s
    BY <1>1, <1>2 DEF Submitter
  <2>2. RequestCreateFlightPlan(s) = RequestSubmitFlightPlan(s)
    BY <1>2, <2>1 DEF RequestCreateFlightPlan, HandleRequestCreateFlightPlanFinished
  <2> QED
    BY <1>2, <2>2, RequestSubmitFlightPlanFollows
<1>3. CASE ~s.flight_plan /\ s.requested["create_flight_plan"]
  BY <1>3, FollowsSelf DEF RequestCreateFlightPlan
<1>4. CASE ~s.flight_plan /\ ~s.requested["create_flight_plan"]
  <2> DEFINE t == Flagged(s, "create_flight_plan")
  <2>1. /\ MayAsk(s, "create_flight_plan", "create_flight_plan", None)
        /\ MayAsk(s, "create_flight_plan", "create_flight_by_point", None)
    BY <1>4 DEF MayAsk
  <2>2. CASE ~s.current_position
    BY <1>4, <2>1, <2>2, FlaggedWithoutPositionFollows DEF RequestCreateFlightPlan
  <2>3. CASE s.current_position /\ s.mission_geometry # None
    BY <1>4, <2>1, <2>3, CreateByPolygonFollows DEF RequestCreateFlightPlan
  <2>4. CASE s.current_position /\ s.mission_geometry = None
    <3>1. Fresh("create_flight_by_point", None) \in Call
      BY FreshIsCall DEF PlainOp
    <3>2. RequestCreateFlightPlan(s)
             = Issued(ReadsAuthorization(t), "create_flight_by_point", None)
      BY <1>4, <2>4 DEF RequestCreateFlightPlan, CreateByPoint
    <3> QED
      BY <2>1, <3>1, <3>2, AskFollows DEF Stage
  <2> QED
    BY <1>1, <2>2, <2>3, <2>4 DEF Submitter
<1> QED
  BY <1>1, <1>2, <1>3, <1>4 DEF Submitter

\* Issuing one end_flight per listed flight leaves none of them without a call.
LEMMA EndEachFollows ==
    ASSUME NEW s, ChainInv(s), s.active_flights \in SUBSET Flights,
           ~s.requested["end_active_flights"], s.active_flights # {},
           ~s.late => s.state = "active" /\ s.authorization /\ s.pilot_id
    PROVE  Follows(s, EndEach(Flagged(s, "end_active_flights")))
<1> DEFINE r == Flagged(s, "end_active_flights")
           q == ReadsAuthorization(r)
           t == EndEach(r)
<1>1. s \in Submitter
  BY DEF ChainInv
<1>2. /\ r \in Submitter /\ Same(s, r) /\ r.calls = s.calls /\ r.undefined = s.undefined
      /\ \A y \in Stage : r.requested[y] <=> y = "end_active_flights" \/ s.requested[y]
  BY <1>1, FlaggedFields DEF Stage
<1> HIDE DEF r
<1>3. /\ q \in Submitter /\ Same(r, q) /\ q.calls = r.calls /\ q.requested = r.requested
      /\ r.authorization => q.undefined = r.undefined
  BY <1>2, ReadsAuthorizationFields
<1>4. t = [q EXCEPT !.calls = [c \in Call |->
              IF c.op = "end_active_flights" /\ c.flight \in r.active_flights /\ ~c.stale
              THEN r.calls[c] + 1 ELSE r.calls[c]]]
  BY DEF EndEach
<1> HIDE DEF q, t
<1>5. /\ t \in Submitter /\ Same(q, t) /\ t.requested = q.requested /\ t.undefined = q.undefined
      /\ \A c \in Call : t.calls[c] =
            IF c.op = "end_active_flights" /\ c.flight \in s.active_flights /\ ~c.stale
            THEN s.calls[c] + 1 ELSE s.calls[c]
  BY <1>2, <1>3, <1>4 DEF Submitter, Same
<1>6. /\ \A op, f : op # "end_active_flights" /\ Fresh(op, f) \in Call =>
            t.calls[Fresh(op, f)] = s.calls[Fresh(op, f)]
      /\ \A f \in s.active_flights : t.calls[Fresh("end_active_flights", f)] > 0
  BY <1>1, <1>5, FreshIsCall DEF Fresh, FlightOp, Submitter
<1>7. Same(s, t) /\ (~s.late => t.undefined = s.undefined)
      /\ \A y \in Stage : t.requested[y] <=> y = "end_active_flights" \/ s.requested[y]
  BY <1>2, <1>3, <1>5 DEF Same
<1> USE <1>6, <1>7, FlightsAssumption, FreshIsCall DEF ChainInv, Same, Waits, WaitsFor, Stage, PlainOp, FlightOp
<1>8. ListKept(t) /\ Backed(t)
  BY DEF ListKept, Backed
<1>9. ~t.late => Single(t)
  BY DEF Session, Single, StageOf
<1>10. ~t.late => Ordered(t)
  BY DEF Session, Ordered
<1>11. ~t.late => Ending(t) /\ Blank(t)
  BY DEF Session, Ending, Blank
<1>12. Follows(s, t)
  BY <1>5, <1>8, <1>9, <1>10, <1>11 DEF Follows, Session
<1> QED
  BY ONLY <1>12 DEF t, r

\* request_end_active_flights keeps the invariant, whatever was found.
LEMMA RequestEndActiveFlightsFollows ==
    ASSUME NEW s, ChainInv(s), s.active_flights \in SUBSET Flights,
           ~s.late => s.state = "active" /\ s.authorization /\ s.pilot_id
    PROVE  Follows(s, RequestEndActiveFlights(s))
<1>1. CASE s.active_flights = {}
  BY <1>1, RequestCreateFlightPlanFollows DEF RequestEndActiveFlights
<1>2. CASE s.active_flights # {} /\ s.requested["end_active_flights"]
  BY <1>2, FollowsSelf DEF RequestEndActiveFlights
<1>3. CASE s.active_flights # {} /\ ~s.requested["end_active_flights"]
  BY <1>3, EndEachFollows DEF RequestEndActiveFlights
<1> QED
  BY <1>1, <1>2, <1>3

\* request_active_flights keeps the invariant once the pilot is known.
LEMMA RequestActiveFlightsFollows ==
    ASSUME NEW s, ChainInv(s),
           ~s.late => s.state = "active" /\ s.authorization /\ s.pilot_id
    PROVE  Follows(s, RequestActiveFlights(s))
<1>1. s \in Submitter
  BY DEF ChainInv
<1>2. CASE s.active_flights # None
  <2>1. [s EXCEPT !.active_flights = s.active_flights] = s
    BY <1>1 DEF Submitter
  <2>2. RequestActiveFlights(s) = RequestEndActiveFlights(s)
    BY <1>2, <2>1 DEF RequestActiveFlights, HandleRequestActiveFlightsFinished
  <2>3. s.active_flights \in SUBSET Flights
    BY <1>1, <1>2 DEF Submitter
  <2> QED
    BY <2>2, <2>3, RequestEndActiveFlightsFollows
<1>3. CASE s.active_flights = None /\ s.requested["active_flights"]
  BY <1>3, FollowsSelf DEF RequestActiveFlights
<1>4. CASE s.active_flights = None /\ ~s.requested["active_flights"]
  <2>1. MayAsk(s, "active_flights", "active_flights", None)
    BY <1>4 DEF MayAsk
  <2>2. RequestActiveFlights(s) = Issued(Flagged(s, "active_flights"), "active_flights", None)
    BY <1>4 DEF RequestActiveFlights
  <2> QED
    BY <2>1, <2>2, PlainAskFollows DEF Stage, PlainOp
<1> QED
  BY <1>2, <1>3, <1>4

\* request_pilot_id keeps the invariant once there is an authorization.
LEMMA RequestPilotIdFollows ==
    ASSUME NEW s, ChainInv(s), s.authorization, ~s.late => s.state = "active"
    PROVE  Follows(s, RequestPilotId(s))
<1>1. s \in Submitter
  BY DEF ChainInv
<1>2. CASE s.pilot_id
  <2>1. [s EXCEPT !.pilot_id = TRUE] = s
    BY <1>1, <1>2 DEF Submitter
  <2>2. RequestPilotId(s) = RequestActiveFlights(s)
    BY <1>2, <2>1 DEF RequestPilotId, HandleRequestPilotIdFinished
  <2> QED
    BY <1>2, <2>2, RequestActiveFlightsFollows
<1>3. CASE ~s.pilot_id /\ s.requested["pilot_id"]
  BY <1>3, FollowsSelf DEF RequestPilotId
<1>4. CASE ~s.pilot_id /\ ~s.requested["pilot_id"]
  <2>1. MayAsk(s, "pilot_id", "pilot_id", None)
    BY <1>4 DEF MayAsk
  <2>2. RequestPilotId(s) = Issued(Flagged(s, "pilot_id"), "pilot_id", None)
    BY <1>4 DEF RequestPilotId
  <2> QED
    BY <2>1, <2>2, PlainAskFollows DEF Stage, PlainOp
<1> QED
  BY <1>2, <1>3, <1>4

\* The chain as activate() and submit() enter it keeps the invariant.
LEMMA RequestAuthorizationFollows ==
    ASSUME NEW s, ChainInv(s), ~s.late => s.state = "active"
    PROVE  Follows(s, RequestAuthorization(s))
<1>1. s \in Submitter
  BY DEF ChainInv
<1>2. CASE s.authorization
  <2>1. [s EXCEPT !.authorization = TRUE] = s
    BY <1>1, <1>2 DEF Submitter
  <2>2. RequestAuthorization(s) = RequestPilotId(s)
    BY <1>2, <2>1 DEF RequestAuthorization, HandleRequestAuthorizationFinished
  <2> QED
    BY <1>2, <2>2, RequestPilotIdFollows
<1>3. CASE ~s.authorization /\ s.requested["authorization"]
  BY <1>3, FollowsSelf DEF RequestAuthorization
<1>4. CASE ~s.authorization /\ ~s.requested["authorization"]
  <2>1. MayAsk(s, "authorization", "authorization", None)
    BY <1>4 DEF MayAsk
  <2>2. RequestAuthorization(s) = Issued(Flagged(s, "authorization"), "authorization", None)
    BY <1>4 DEF RequestAuthorization
  <2> QED
    BY <2>1, <2>2, PlainAskFollows DEF Stage, PlainOp
<1> QED
  BY <1>2, <1>3, <1>4

-----------------------------------------------------------------------------
(***************************************************************************)
(* Replies.                                                                *)
(***************************************************************************)
\* What every step of the submitter guarantees.
Keeps(s, t) ==
    /\ ChainInv(t)
    /\ ~t.late => t.undefined \subseteq s.undefined \cup {"coordinates"}

\* A run of the chain that starts from what a step set up is kept by the step.
LEMMA FollowsKeeps ==
    ASSUME NEW s, NEW r, NEW t, Follows(r, t), r.undefined = s.undefined
    PROVE  Keeps(s, t)
BY DEF Follows, Keeps

\* A call names a flight exactly when its operation is about one.
LEMMA CallShape ==
    ASSUME NEW c \in Call
    PROVE  /\ c.stale \in BOOLEAN
           /\ (c.op \in PlainOp /\ c.flight = None) \/ (c.op \in FlightOp /\ c.flight \in Flights)
           /\ ~c.stale => c = Fresh(c.op, c.flight)
<1>1. c.stale \in BOOLEAN /\ c = [op |-> c.op, flight |-> c.flight, stale |-> c.stale]
  <2>1. CASE c \in [op : PlainOp, flight : {None}, stale : BOOLEAN]
    BY <2>1
  <2>2. CASE c \in [op : FlightOp, flight : Flights, stale : BOOLEAN]
    BY <2>2
  <2> QED
    BY <2>1, <2>2 DEF Call
<1>2. (c.op \in PlainOp /\ c.flight = None) \/ (c.op \in FlightOp /\ c.flight \in Flights)
  <2>1. CASE c \in [op : PlainOp, flight : {None}, stale : BOOLEAN]
    BY <2>1
  <2>2. CASE c \in [op : FlightOp, flight : Flights, stale : BOOLEAN]
    BY <2>2
  <2> QED
    BY <2>1, <2>2 DEF Call
<1>3. ~c.stale => c.stale = FALSE
  BY <1>1
<1> QED
  BY <1>1, <1>2, <1>3 DEF Fresh

\* The callback of c starts: one pending call less.
Took(s, r, c) ==
    /\ r \in Submitter
    /\ r.late = (s.late \/ (c.stale /\ c.op # "end_flight"))
    /\ r.state = s.state /\ r.requested = s.requested
    /\ r.authorization = s.authorization /\ r.pilot_id = s.pilot_id
    /\ r.active_flights = s.active_flights /\ r.flight_plan = s.flight_plan
    /\ r.flight = s.flight /\ r.traffic_monitor = s.traffic_monitor
    /\ r.encryption_key = s.encryption_key /\ r.undefined = s.undefined
    /\ \A d \in Call : r.calls[d] = IF d = c THEN s.calls[d] - 1 ELSE s.calls[d]

\* Running a callback takes its call out of the bag and nothing else.
LEMMA TakenFields ==
    ASSUME NEW s \in Submitter, NEW c \in Call, Pending(s, c)
    PROVE  Took(s, Taken(s, c), c)
<1> DEFINE n == [s.calls EXCEPT ![c] = @ - 1]
           l == s.late \/ (c.stale /\ c.op # "end_flight")
<1>1. n \in [Call -> Nat] /\ \A d \in Call : n[d] = IF d = c THEN s.calls[d] - 1 ELSE s.calls[d]
  BY DEF Pending, Submitter
<1>2. l \in BOOLEAN
  OBVIOUS
<1>3. Taken(s, c) = [s EXCEPT !.calls = n, !.late = l]
  BY DEF Taken
<1> HIDE DEF n, l
<1>4. [s EXCEPT !.calls = n, !.late = l] \in Submitter
  BY <1>1, <1>2 DEF Submitter
<1>5. Taken(s, c).late = l /\ Taken(s, c).calls = n
  BY <1>3 DEF Submitter
<1>6. /\ Taken(s, c).state = s.state
      /\ Taken(s, c).requested = s.requested
      /\ Taken(s, c).authorization = s.authorization
      /\ Taken(s, c).pilot_id = s.pilot_id
      /\ Taken(s, c).active_flights = s.active_flights
      /\ Taken(s, c).flight_plan = s.flight_plan
      /\ Taken(s, c).flight = s.flight
      /\ Taken(s, c).traffic_monitor = s.traffic_monitor
      /\ Taken(s, c).encryption_key = s.encryption_key
      /\ Taken(s, c).undefined = s.undefined
  BY <1>3 DEF Submitter
<1> QED
  BY <1>1, <1>3, <1>4, <1>5, <1>6 DEF l, Took

\* A fresh reply to the chain, in a session no late reply has touched, finds
\* the submitter active.
LEMMA FreshReplyFindsActive ==
    ASSUME NEW s, NEW c \in Call, ChainInv(s), Pending(s, c), ~Taken(s, c).late,
           c.op # "end_flight"
    PROVE  ~s.late /\ ~c.stale /\ s.state = "active"
<1>1. ~s.late /\ ~c.stale
  BY TakenFields, ZenonT(60) DEF ChainInv, Took
<1>2. c = Fresh(c.op, c.flight) /\ s.calls[c] > 0
  BY <1>1, CallShape DEF Pending
<1>3. s \in Submitter /\ Single(s) /\ Ordered(s) /\ Blank(s)
  BY <1>1 DEF ChainInv, Session
<1>4. CASE c.op \in PlainOp
  <2>1. c.flight = None
    BY <1>4, CallShape DEF PlainOp, FlightOp
  <2>2. Waits(s, c.op) > 0
    BY <1>2, <2>1 DEF Waits
  <2>3. s.requested[StageOf(c.op)] /\ StageOf(c.op) \in Stage
    BY <1>3, <1>4, <2>2 DEF Single, StageOf, Stage, PlainOp
  <2> QED
    BY <1>1, <1>3, <2>3 DEF Blank, Submitter
<1>5. CASE c.op \in FlightOp
  <2>1. c.flight \in Flights /\ WaitsFor(s, c.op, c.flight) > 0
    BY <1>2, <1>5, CallShape DEF PlainOp, FlightOp, WaitsFor
  <2>2. CASE c.op = "end_active_flights"
    BY <1>1, <1>3, <2>1, <2>2 DEF Ordered, Blank, Submitter
  <2>3. CASE c.op \in {"traffic_monitoring", "start_flight_comms"}
    BY <1>1, <1>3, <2>1, <2>3 DEF Single, Blank, Submitter, Stage
  <2> QED
    BY <1>5, <2>2, <2>3 DEF FlightOp
<1> QED
  BY <1>4, <1>5, CallShape

\* What the handlers below need to know of the submitter whose callback runs.
Running(s, r, c) ==
    /\ s \in Submitter /\ Took(s, r, c)
    /\ ~r.late => /\ ~s.late /\ s.state = "active"
                  /\ s.calls[Fresh(c.op, c.flight)] > 0
                  /\ c = Fresh(c.op, c.flight)
    /\ \A op, f : op # c.op /\ Fresh(op, f) \in Call =>
          r.calls[Fresh(op, f)] = s.calls[Fresh(op, f)]
    /\ \A d \in Call : r.calls[d] <= s.calls[d]
    /\ \A d \in Call : d.op # c.op => r.calls[d] = s.calls[d]

\* What the invariant says of the submitter when a callback starts to run.
LEMMA TakenFacts ==
    ASSUME NEW s, NEW c \in Call, ChainInv(s), Pending(s, c), c.op # "end_flight"
    PROVE  Running(s, Taken(s, c), c)
<1> DEFINE r == Taken(s, c)
<1>1. s \in Submitter
  BY DEF ChainInv
<1>2. Took(s, r, c)
  BY <1>1, TakenFields
<1>3. ~r.late => ~s.late /\ ~c.stale /\ s.state = "active"
  BY FreshReplyFindsActive
<1> HIDE DEF r
<1>4. ~c.stale => c = Fresh(c.op, c.flight) /\ s.calls[c] > 0
  BY CallShape DEF Pending
<1>5. \A op, f : op # c.op => Fresh(op, f) # c
  BY FreshInjective
<1>6. \A d \in Call : s.calls[d] \in Nat
  BY <1>1 DEF Submitter
<1>7. \A d \in Call : r.calls[d] = IF d = c THEN s.calls[d] - 1 ELSE s.calls[d]
  BY <1>2 DEF Took
<1> QED
  BY <1>1, <1>2, <1>3, <1>4, <1>5, <1>6, <1>7 DEF r, Running

\* The reply to authenticate_*, late or not, keeps the invariant.
LEMMA AuthenticatedKeeps ==
    ASSUME NEW s, NEW c \in Call, ChainInv(s), Pending(s, c), c.op = "authorization"
    PROVE  Keeps(s, HandleRequestAuthorizationFinished(Taken(s, c)))
<1> DEFINE r == Taken(s, c)
           t == [r EXCEPT !.authorization = TRUE]
<1>1. Running(s, r, c) /\ c.flight = None
  BY TakenFacts, CallShape DEF PlainOp, FlightOp
<1> HIDE DEF r
<1>2. /\ t \in Submitter /\ t.calls = r.calls /\ t.undefined = s.undefined
      /\ t.late = r.late /\ t.state = s.state
      /\ t.requested = s.requested
      /\ t.authorization = TRUE
      /\ t.pilot_id = s.pilot_id
      /\ t.active_flights = s.active_flights
      /\ t.flight_plan = s.flight_plan
      /\ t.flight = s.flight
      /\ t.traffic_monitor = s.traffic_monitor
      /\ t.encryption_key = s.encryption_key
  BY <1>1, ZenonT(60) DEF Submitter, Took, Running
<1>3. \A d \in Call : t.calls[d] = IF d = c THEN s.calls[d] - 1 ELSE s.calls[d]
  BY <1>1, <1>2 DEF Took, Running
<1> HIDE DEF t
<1> USE <1>1, <1>2, FlightsAssumption, FreshIsCall
    DEF Running, ChainInv, Session, Waits, WaitsFor, Stage, PlainOp, FlightOp
<1>4. ListKept(t) /\ Backed(t)
  BY DEF ListKept, Backed
<1>5. ~t.late => Single(t)
  BY DEF Single, StageOf, Submitter
<1>6. ~t.late => Ordered(t)
  BY DEF Ordered
<1>7. ~t.late => Ending(t) /\ Blank(t)
  BY DEF Ending, Blank, Submitter
<1>8. Follows(t, RequestPilotId(t))
  BY <1>4, <1>5, <1>6, <1>7, RequestPilotIdFollows
<1>9. Keeps(s, RequestPilotId(t))
  BY <1>2, <1>8, FollowsKeeps
<1> QED
  BY ONLY <1>9 DEF t, r, HandleRequestAuthorizationFinished

\* The reply to pilots().authenticated keeps the invariant.
LEMMA PilotFoundKeeps ==
    ASSUME NEW s, NEW c \in Call, ChainInv(s), Pending(s, c), c.op = "pilot_id"
    PROVE  Keeps(s, HandleRequestPilotIdFinished(Taken(s, c)))
<1> DEFINE r == Taken(s, c)
           t == [r EXCEPT !.pilot_id = TRUE]
<1>1. Running(s, r, c) /\ c.flight = None
  BY TakenFacts, CallShape DEF PlainOp, FlightOp
<1> HIDE DEF r
<1>2. /\ t \in Submitter /\ t.calls = r.calls /\ t.undefined = s.undefined
      /\ t.late = r.late /\ t.state = s.state
      /\ t.requested = s.requested
      /\ t.authorization = s.authorization
      /\ t.pilot_id = TRUE
      /\ t.active_flights = s.active_flights
      /\ t.flight_plan = s.flight_plan
      /\ t.flight = s.flight
      /\ t.traffic_monitor = s.traffic_monitor
      /\ t.encryption_key = s.encryption_key
  BY <1>1, ZenonT(60) DEF Submitter, Took, Running
<1>3. \A d \in Call : t.calls[d] = IF d = c THEN s.calls[d] - 1 ELSE s.calls[d]
  BY <1>1, <1>2 DEF Took, Running
<1> HIDE DEF t
<1> USE <1>1, <1>2, FlightsAssumption, FreshIsCall
    DEF Running, ChainInv, Session, Waits, WaitsFor, Stage, PlainOp, FlightOp
<1>4. ListKept(t) /\ Backed(t)
  BY DEF ListKept, Backed
<1>5. ~t.late => Single(t)
  BY DEF Single, StageOf, Submitter
<1>6. ~t.late => Ordered(t)
  BY DEF Ordered
<1>7. ~t.late => Ending(t) /\ Blank(t)
  BY DEF Ending, Blank, Submitter
<1>8. Follows(t, RequestActiveFlights(t))
  BY <1>4, <1>5, <1>6, <1>7, RequestActiveFlightsFollows DEF Ordered
<1>9. Keeps(s, RequestActiveFlights(t))
  BY <1>2, <1>8, FollowsKeeps
<1> QED
  BY ONLY <1>9 DEF t, r, HandleRequestPilotIdFinished

\* The reply to flights().search keeps the invariant, whatever it lists.
LEMMA FlightsFoundKeeps ==
    ASSUME NEW s, NEW c \in Call, ChainInv(s), Pending(s, c), c.op = "active_flights", NEW found \in SUBSET Flights
    PROVE  Keeps(s, HandleRequestActiveFlightsFinished(Taken(s, c), found))
<1> DEFINE r == Taken(s, c)
           t == [r EXCEPT !.active_flights = found]
<1>1. Running(s, r, c) /\ c.flight = None
  BY TakenFacts, CallShape DEF PlainOp, FlightOp
<1> HIDE DEF r
<1>2. /\ t \in Submitter /\ t.calls = r.calls /\ t.undefined = s.undefined
      /\ t.late = r.late /\ t.state = s.state
      /\ t.requested = s.requested
      /\ t.authorization = s.authorization
      /\ t.pilot_id = s.pilot_id
      /\ t.active_flights = found
      /\ t.flight_plan = s.flight_plan
      /\ t.flight = s.flight
      /\ t.traffic_monitor = s.traffic_monitor
      /\ t.encryption_key = s.encryption_key
  BY <1>1 DEF Submitter, Took, Running
<1>3. \A d \in Call : t.calls[d] = IF d = c THEN s.calls[d] - 1 ELSE s.calls[d]
  BY <1>1, <1>2 DEF Took, Running
<1> HIDE DEF t
<1> USE <1>1, <1>2, FlightsAssumption, FreshIsCall
    DEF Running, ChainInv, Session, Waits, WaitsFor, Stage, PlainOp, FlightOp
<1>4. ListKept(t) /\ Backed(t)
  BY DEF ListKept, Backed
<1>5. ~t.late => Single(t)
  BY DEF Single, StageOf, Submitter
<1>6. ~t.late => Ordered(t)
  BY <1>3, FreshInjective DEF Ordered, Single, Submitter, StageOf
<1>7. ~t.late => Ending(t) /\ Blank(t)
  BY DEF Ending, Blank, Submitter, ListKept, Ordered
<1>8. Follows(t, RequestEndActiveFlights(t))
  BY <1>4, <1>5, <1>6, <1>7, RequestEndActiveFlightsFollows DEF Ordered
<1>9. Keeps(s, RequestEndActiveFlights(t))
  BY <1>2, <1>8, FollowsKeeps
<1> QED
  BY ONLY <1>9 DEF t, r, HandleRequestActiveFlightsFinished

\* The reply to create_by_polygon keeps the invariant.
LEMMA FlightPlanCreatedKeeps ==
    ASSUME NEW s, NEW c \in Call, ChainInv(s), Pending(s, c), c.op = "create_flight_plan"
    PROVE  Keeps(s, HandleRequestCreateFlightPlanFinished(Taken(s, c)))
<1> DEFINE r == Taken(s, c)
           t == [r EXCEPT !.flight_plan = TRUE]
<1>1. Running(s, r, c) /\ c.flight = None
  BY TakenFacts, CallShape DEF PlainOp, FlightOp
<1> HIDE DEF r
<1>2. /\ t \in Submitter /\ t.calls = r.calls /\ t.undefined = s.undefined
      /\ t.late = r.late /\ t.state = s.state
      /\ t.requested = s.requested
      /\ t.authorization = s.authorization
      /\ t.pilot_id = s.pilot_id
      /\ t.active_flights = s.active_flights
      /\ t.flight_plan = TRUE
      /\ t.flight = s.flight
      /\ t.traffic_monitor = s.traffic_monitor
      /\ t.encryption_key = s.encryption_key
  BY <1>1, ZenonT(60) DEF Submitter, Took, Running
<1>3. \A d \in Call : t.calls[d] = IF d = c THEN s.calls[d] - 1 ELSE s.calls[d]
  BY <1>1, <1>2 DEF Took, Running
<1> HIDE DEF t
<1> USE <1>1, <1>2, FlightsAssumption, FreshIsCall
    DEF Running, ChainInv, Session, Waits, WaitsFor, Stage, PlainOp, FlightOp
<1>4. ListKept(t) /\ Backed(t)
  BY DEF ListKept, Backed
<1>5. ~t.late => Single(t)
  BY DEF Single, StageOf, Submitter
<1>6. ~t.late => Ordered(t)
  BY <1>3 DEF Ordered, Single, Submitter, StageOf
<1>7. ~t.late => Ending(t) /\ Blank(t)
  BY DEF Ending, Blank, Submitter
<1>8. Follows(t, RequestSubmitFlightPlan(t))
  BY <1>4, <1>5, <1>6, <1>7, RequestSubmitFlightPlanFollows
<1>9. Keeps(s, RequestSubmitFlightPlan(t))
  BY <1>2, <1>8, FollowsKeeps
<1> QED
  BY ONLY <1>9 DEF t, r, HandleRequestCreateFlightPlanFinished

\* The reply to create_flight_by_point keeps the invariant.
LEMMA FlightCreatedByPointKeeps ==
    ASSUME NEW s, NEW c \in Call, ChainInv(s), Pending(s, c), c.op = "create_flight_by_point", NEW f \in Flights
    PROVE  Keeps(s, HandleRequestSubmitFlightPlanFinished(Taken(s, c), f))
<1> DEFINE r == Taken(s, c)
           t == [r EXCEPT !.flight = f]
<1>1. Running(s, r, c) /\ c.flight = None
  BY TakenFacts, CallShape DEF PlainOp, FlightOp
<1> HIDE DEF r
<1>2. /\ t \in Submitter /\ t.calls = r.calls /\ t.undefined = s.undefined
      /\ t.late = r.late /\ t.state = s.state
      /\ t.requested = s.requested
      /\ t.authorization = s.authorization
      /\ t.pilot_id = s.pilot_id
      /\ t.active_flights = s.active_flights
      /\ t.flight_plan = s.flight_plan
      /\ t.flight = f
      /\ t.traffic_monitor = s.traffic_monitor
      /\ t.encryption_key = s.encryption_key
  BY <1>1 DEF Submitter, Took, Running
<1>3. \A d \in Call : t.calls[d] = IF d = c THEN s.calls[d] - 1 ELSE s.calls[d]
  BY <1>1, <1>2 DEF Took, Running
<1> HIDE DEF t
<1> USE <1>1, <1>2, FlightsAssumption, FreshIsCall
    DEF Running, ChainInv, Session, Waits, WaitsFor, Stage, PlainOp, FlightOp
<1>4. ListKept(t) /\ Backed(t)
  BY DEF ListKept, Backed
<1>5. ~t.late => Single(t)
  BY DEF Single, StageOf, Submitter, Ordered
<1>6. ~t.late => Ordered(t)
  BY <1>3 DEF Ordered, Single, Submitter, StageOf
<1>7. ~t.late => Ending(t) /\ Blank(t)
  BY DEF Ending, Blank, Submitter
<1>8. Follows(t, RequestStartFlightComms(RequestMonitorTraffic(t)))
  BY <1>4, <1>5, <1>6, <1>7, FlightStoredFollows
<1>9. Keeps(s, RequestStartFlightComms(RequestMonitorTraffic(t)))
  BY <1>2, <1>8, FollowsKeeps
<1> QED
  BY ONLY <1>9 DEF t, r, HandleRequestSubmitFlightPlanFinished

\* The reply to flight_plans().submit keeps the invariant.
LEMMA FlightPlanSubmittedKeeps ==
    ASSUME NEW s, NEW c \in Call, ChainInv(s), Pending(s, c), c.op = "submit_flight_plan", NEW f \in Flights
    PROVE  Keeps(s, HandleRequestSubmitFlightPlanFinished(Taken(s, c), f))
<1> DEFINE r == Taken(s, c)
           t == [r EXCEPT !.flight = f]
<1>1. Running(s, r, c) /\ c.flight = None
  BY TakenFacts, CallShape DEF PlainOp, FlightOp
<1> HIDE DEF r
<1>2. /\ t \in Submitter /\ t.calls = r.calls /\ t.undefined = s.undefined
      /\ t.late = r.late /\ t.state = s.state
      /\ t.requested = s.requested
      /\ t.authorization = s.authorization
      /\ t.pilot_id = s.pilot_id
      /\ t.active_flights = s.active_flights
      /\ t.flight_plan = s.flight_plan
      /\ t.flight = f
      /\ t.traffic_monitor = s.traffic_monitor
      /\ t.encryption_key = s.encryption_key
  BY <1>1 DEF Submitter, Took, Running
<1>3. \A d \in Call : t.calls[d] = IF d = c THEN s.calls[d] - 1 ELSE s.calls[d]
  BY <1>1, <1>2 DEF Took, Running
<1> HIDE DEF t
<1> USE <1>1, <1>2, FlightsAssumption, FreshIsCall
    DEF Running, ChainInv, Session, Waits, WaitsFor, Stage, PlainOp, FlightOp
<1>4. ListKept(t) /\ Backed(t)
  BY DEF ListKept, Backed
<1>5. ~t.late => Single(t)
  BY DEF Single, StageOf, Submitter, Ordered
<1>6. ~t.late => Ordered(t)
  BY <1>3 DEF Ordered, Single, Submitter, StageOf
<1>7. ~t.late => Ending(t) /\ Blank(t)
  BY DEF Ending, Blank, Submitter
<1>8. Follows(t, RequestStartFlightComms(RequestMonitorTraffic(t)))
  BY <1>4, <1>5, <1>6, <1>7, FlightStoredFollows
<1>9. Keeps(s, RequestStartFlightComms(RequestMonitorTraffic(t)))
  BY <1>2, <1>8, FollowsKeeps
<1> QED
  BY ONLY <1>9 DEF t, r, HandleRequestSubmitFlightPlanFinished

\* The reply to traffic().monitor keeps the invariant.
LEMMA TrafficMonitoredKeeps ==
    ASSUME NEW s, NEW c \in Call, ChainInv(s), Pending(s, c), c.op = "traffic_monitoring"
    PROVE  Keeps(s, HandleRequestMonitorTrafficFinished(Taken(s, c), c.flight))
<1> DEFINE r == Taken(s, c)
           t == [r EXCEPT !.traffic_monitor = c.flight]
<1>1. Running(s, r, c) /\ c.flight \in Flights
  BY TakenFacts, CallShape DEF PlainOp, FlightOp
<1> HIDE DEF r
<1>2. /\ t \in Submitter /\ t.calls = r.calls /\ t.undefined = s.undefined
      /\ t.late = r.late /\ t.state = s.state
      /\ t.requested = s.requested
      /\ t.authorization = s.authorization
      /\ t.pilot_id = s.pilot_id
      /\ t.active_flights = s.active_flights
      /\ t.flight_plan = s.flight_plan
      /\ t.flight = s.flight
      /\ t.traffic_monitor = c.flight
      /\ t.encryption_key = s.encryption_key
  BY <1>1 DEF Submitter, Took, Running
<1>3. \A d \in Call : t.calls[d] = IF d = c THEN s.calls[d] - 1 ELSE s.calls[d]
  BY <1>1, <1>2 DEF Took, Running
<1> HIDE DEF t
<1> USE <1>1, <1>2, FlightsAssumption, FreshIsCall
    DEF Running, ChainInv, Session, Waits, WaitsFor, Stage, PlainOp, FlightOp
<1>4. ListKept(t) /\ Backed(t)
  BY DEF ListKept, Backed
<1>5. ~t.late => Single(t)
  BY DEF Single, StageOf, Submitter
<1>6. ~t.late => Ordered(t)
  BY DEF Ordered, Single
<1>7. ~t.late => Ending(t) /\ Blank(t)
  BY DEF Ending, Blank, Submitter
<1>8. Keeps(s, t)
  BY <1>2, <1>4, <1>5, <1>6, <1>7 DEF Keeps
<1> QED
  BY ONLY <1>8 DEF t, r, HandleRequestMonitorTrafficFinished

\* The reply to start_flight_communications keeps the invariant.
LEMMA FlightCommsStartedKeeps ==
    ASSUME NEW s, NEW c \in Call, ChainInv(s), Pending(s, c), c.op = "start_flight_comms"
    PROVE  Keeps(s, HandleRequestStartFlightCommsFinished(Taken(s, c), c.flight))
<1> DEFINE r == Taken(s, c)
           t == [r EXCEPT !.encryption_key = c.flight]
<1>1. Running(s, r, c) /\ c.flight \in Flights
  BY TakenFacts, CallShape DEF PlainOp, FlightOp
<1> HIDE DEF r
<1>2. /\ t \in Submitter /\ t.calls = r.calls /\ t.undefined = s.undefined
      /\ t.late = r.late /\ t.state = s.state
      /\ t.requested = s.requested
      /\ t.authorization = s.authorization
      /\ t.pilot_id = s.pilot_id
      /\ t.active_flights = s.active_flights
      /\ t.flight_plan = s.flight_plan
      /\ t.flight = s.flight
      /\ t.traffic_monitor = s.traffic_monitor
      /\ t.encryption_key = c.flight
  BY <1>1 DEF Submitter, Took, Running
<1>3. \A d \in Call : t.calls[d] = IF d = c THEN s.calls[d] - 1 ELSE s.calls[d]
  BY <1>1, <1>2 DEF Took, Running
<1> HIDE DEF t
<1> USE <1>1, <1>2, FlightsAssumption, FreshIsCall
    DEF Running, ChainInv, Session, Waits, WaitsFor, Stage, PlainOp, FlightOp
<1>4. ListKept(t) /\ Backed(t)
  BY DEF ListKept, Backed
<1>5. ~t.late => Single(t)
  BY DEF Single, StageOf, Submitter
<1>6. ~t.late => Ordered(t)
  BY DEF Ordered, Single
<1>7. ~t.late => Ending(t) /\ Blank(t)
  BY DEF Ending, Blank, Submitter
<1>8. Keeps(s, t)
  BY <1>2, <1>4, <1>5, <1>6, <1>7 DEF Keeps
<1> QED
  BY ONLY <1>8 DEF t, r, HandleRequestStartFlightCommsFinished

\* The reply to the end of a flight found active keeps the invariant.
LEMMA ActiveFlightEndedKeeps ==
    ASSUME NEW s, NEW c \in Call, ChainInv(s), Pending(s, c), c.op = "end_active_flights"
    PROVE  Keeps(s, HandleRequestEndActiveFlightFinished(Taken(s, c), c.flight))
<1> DEFINE r == Taken(s, c)
           t == [r EXCEPT !.active_flights = @ \ {c.flight}]
           u == HandleRequestEndActiveFlightFinished(r, c.flight)
<1>1. Running(s, r, c) /\ c.flight \in Flights
  BY TakenFacts, CallShape DEF PlainOp, FlightOp
<1>2. u = IF t.active_flights = {} THEN RequestCreateFlightPlan(t) ELSE t
  BY DEF HandleRequestEndActiveFlightFinished
<1> HIDE DEF r, u
<1>3. s.active_flights \in SUBSET Flights
  BY <1>1 DEF Running, ChainInv, ListKept, Pending, Submitter
<1>4. /\ t \in Submitter /\ t.calls = r.calls /\ t.undefined = s.undefined
      /\ t.late = r.late /\ t.state = s.state
      /\ t.requested = s.requested
      /\ t.authorization = s.authorization
      /\ t.pilot_id = s.pilot_id
      /\ t.active_flights = s.active_flights \ {c.flight}
      /\ t.flight_plan = s.flight_plan
      /\ t.flight = s.flight
      /\ t.traffic_monitor = s.traffic_monitor
      /\ t.encryption_key = s.encryption_key
  BY <1>1, <1>3 DEF Submitter, Took, Running
<1>5. \A f \in t.active_flights :
          t.calls[Fresh("end_active_flights", f)] = s.calls[Fresh("end_active_flights", f)]
  <2> TAKE f \in t.active_flights
  <2>1. f \in Flights /\ f # c.flight
    BY <1>3, <1>4
  <2>2. Fresh("end_active_flights", f) \in Call
    BY <2>1, FreshIsCall DEF FlightOp
  <2>3. Fresh("end_active_flights", f) # c
    BY <2>1 DEF Fresh
  <2> QED
    BY <1>1, <1>4, <2>2, <2>3 DEF Took, Running
<1> HIDE DEF t
<1> USE <1>1, <1>3, <1>4, FlightsAssumption, FreshIsCall
    DEF Running, ChainInv, Session, Waits, WaitsFor, Stage, PlainOp, FlightOp
<1>6. t.active_flights # None /\ s.active_flights # None
  OBVIOUS
<1>7. ListKept(t) /\ Backed(t)
  BY <1>6 DEF ListKept, Backed
<1>8. ~t.late => Single(t)
  BY DEF Single, StageOf, Submitter
<1>9. ~t.late => Ordered(t)
  BY <1>6 DEF Ordered, Submitter
<1>10. ~t.late => Ending(t) /\ Blank(t)
  BY <1>5, <1>6 DEF Ending, Blank
<1>11. ChainInv(t)
  BY <1>7, <1>8, <1>9, <1>10
<1>12. ~t.late => t.state = "active" /\ t.authorization /\ t.pilot_id
  BY DEF Ordered
<1>13. CASE t.active_flights = {}
  <2>1. Follows(t, RequestCreateFlightPlan(t))
    BY <1>11, <1>12, <1>13, RequestCreateFlightPlanFollows
  <2>2. Keeps(s, u)
    BY <1>2, <1>4, <1>13, <2>1, FollowsKeeps
  <2> QED
    BY ONLY <2>2 DEF u, r
<1>14. CASE t.active_flights # {}
  <2>1. Keeps(s, u)
    BY <1>2, <1>11, <1>14 DEF Keeps
  <2> QED
    BY ONLY <2>1 DEF u, r
<1> QED
  BY <1>13, <1>14

\* The callback of deactivate()'s end_flight touches nothing.
LEMMA FlightEndedKeeps ==
    ASSUME NEW s, NEW c \in Call, ChainInv(s), Pending(s, c), c.op = "end_flight"
    PROVE  Keeps(s, Taken(s, c))
<1> DEFINE t == Taken(s, c)
<1>1. s \in Submitter /\ Took(s, t, c)
  BY TakenFields DEF ChainInv
<1> HIDE DEF t
<1>0. ~t.late => ~s.late
  BY <1>1 DEF Took
<1>2. /\ \A op, f : op # "end_flight" /\ Fresh(op, f) \in Call =>
            t.calls[Fresh(op, f)] = s.calls[Fresh(op, f)]
      /\ \A d \in Call : d.op # "end_flight" => t.calls[d] = s.calls[d]
  BY <1>1, FreshInjective DEF Took
<1> USE <1>0, <1>1, <1>2, FlightsAssumption, FreshIsCall
    DEF Took, ChainInv, Session, Waits, WaitsFor, Stage, PlainOp, FlightOp
<1>3. ListKept(t) /\ Backed(t)
  BY DEF ListKept, Backed
<1>4. ~t.late => Single(t)
  BY DEF Single
<1>5. ~t.late => Ordered(t)
  BY DEF Ordered
<1>6. ~t.late => Ending(t) /\ Blank(t)
  BY DEF Ending, Blank, Submitter
<1>7. Keeps(s, t)
  BY <1>3, <1>4, <1>5, <1>6 DEF Keeps
<1> QED
  BY ONLY <1>7 DEF t

\* The failure branch of a callback of the chain.
LEMMA CallFailedKeeps ==
    ASSUME NEW s, NEW c \in Call, ChainInv(s), Pending(s, c)
    PROVE  Keeps(s, Failed(Taken(s, c), c))
<1>1. CASE c.op = "end_flight"
  BY <1>1, FlightEndedKeeps DEF Failed
<1>2. CASE c.op # "end_flight"
  <2> DEFINE r == Taken(s, c)
             x == StageOf(c.op)
             t == [r EXCEPT !.requested[x] = FALSE]
  <2>1. Running(s, r, c)
    BY <1>2, TakenFacts
  <2>2. /\ (c.op \in PlainOp /\ c.flight = None)
              \/ (c.op \in FlightOp /\ c.flight \in Flights)
        /\ x \in Stage
    BY <1>2, CallShape DEF PlainOp, FlightOp, StageOf, Stage
  <2> HIDE DEF r
  <2>3. /\ t \in Submitter /\ t.calls = r.calls /\ t.undefined = s.undefined
        /\ t.late = r.late /\ t.state = s.state
        /\ \A y \in Stage : t.requested[y] <=> y # x /\ s.requested[y]
        /\ t.authorization = s.authorization
        /\ t.pilot_id = s.pilot_id
        /\ t.active_flights = s.active_flights
        /\ t.flight_plan = s.flight_plan
        /\ t.flight = s.flight
        /\ t.traffic_monitor = s.traffic_monitor
        /\ t.encryption_key = s.encryption_key
    BY <2>1, <2>2, ZenonT(60) DEF Submitter, Took, Running
  <2>4. \A d \in Call : t.calls[d] = IF d = c THEN s.calls[d] - 1 ELSE s.calls[d]
    BY <2>1, <2>3 DEF Took, Running
  <2> HIDE DEF t
  <2> USE <1>2, <2>1, <2>2, <2>3, FlightsAssumption, FreshIsCall
      DEF Running, ChainInv, Session, Waits, WaitsFor, Stage, PlainOp, FlightOp, StageOf
  <2>5. ListKept(t)
    BY <2>4 DEF ListKept, Pending
  <2>6. Backed(t)
    BY DEF Backed
  <2>7. ~t.late => Single(t)
    BY <2>4, FreshInjective DEF Single, Ordered, Submitter
  <2>8. ~t.late => Ordered(t)
    BY <2>4, FreshInjective DEF Ordered, Single, Submitter
  <2>9. ~t.late => Ending(t) /\ Blank(t)
    BY DEF Ending, Blank, Submitter
  <2>10. Keeps(s, t)
    BY <2>3, <2>5, <2>6, <2>7, <2>8, <2>9 DEF Keeps
  <2>11. Failed(r, c) = t
    BY ONLY <1>2 DEF Failed, t
  <2> QED
    BY ONLY <2>10, <2>11 DEF r
<1> QED
  BY <1>1, <1>2

-----------------------------------------------------------------------------
(***************************************************************************)
(* What the vehicle monitor calls.                                         *)
(***************************************************************************)
LEMMA ActivatedKeeps ==
    ASSUME NEW s, ChainInv(s)
    PROVE  Keeps(s, Activated(s))
<1> DEFINE t == [s EXCEPT !.state = "active"]
<1>1. /\ t \in Submitter /\ t.state = "active" /\ t.late = s.late /\ t.calls = s.calls
      /\ t.requested = s.requested /\ t.undefined = s.undefined
      /\ t.authorization = s.authorization /\ t.pilot_id = s.pilot_id
      /\ t.active_flights = s.active_flights /\ t.flight_plan = s.flight_plan
      /\ t.flight = s.flight /\ t.traffic_monitor = s.traffic_monitor
      /\ t.encryption_key = s.encryption_key
  BY DEF ChainInv, Submitter
<1> HIDE DEF t
<1>2. ChainInv(t)
  BY <1>1 DEF ChainInv, Session, ListKept, Backed, Single, Ordered, Ending, Blank, Waits, WaitsFor
<1>3. Keeps(s, RequestAuthorization(t))
  BY <1>1, <1>2, RequestAuthorizationFollows, FollowsKeeps
<1> QED
  BY ONLY <1>3 DEF t, Activated

\* submit() keeps the invariant.
LEMMA SubmittedKeeps ==
    ASSUME NEW s, ChainInv(s)
    PROVE  Keeps(s, Submitted(s))
<1> DEFINE t == [s EXCEPT !.current_position = TRUE]
<1>1. /\ t \in Submitter /\ t.state = s.state /\ t.late = s.late /\ t.calls = s.calls
      /\ t.requested = s.requested /\ t.undefined = s.undefined
      /\ t.authorization = s.authorization /\ t.pilot_id = s.pilot_id
      /\ t.active_flights = s.active_flights /\ t.flight_plan = s.flight_plan
      /\ t.flight = s.flight /\ t.traffic_monitor = s.traffic_monitor
      /\ t.encryption_key = s.encryption_key
  BY DEF ChainInv, Submitter
<1>2. Submitted(s) = IF t.state = "inactive" \/ Ready(t) THEN t ELSE RequestAuthorization(t)
  BY DEF Submitted
<1> HIDE DEF t
<1>3. ChainInv(t)
  BY <1>1 DEF ChainInv, Session, ListKept, Backed, Single, Ordered, Ending, Blank, Waits, WaitsFor
<1>4. CASE t.state = "inactive" \/ Ready(t)
  BY <1>1, <1>2, <1>3, <1>4 DEF Keeps
<1>5. CASE ~(t.state = "inactive" \/ Ready(t))
  <2>1. t.state = "active"
    BY <1>1, <1>5 DEF Submitter
  <2> QED
    BY <1>1, <1>2, <1>3, <1>5, <2>1, RequestAuthorizationFollows, FollowsKeeps
<1> QED
  BY <1>4, <1>5

\* set_mission_geometry() keeps the invariant.
LEMMA WithMissionGeometryKeeps ==
    ASSUME NEW s, NEW g \in Geometry, ChainInv(s)
    PROVE  Keeps(s, WithMissionGeometry(s, g))
<1> DEFINE t == [s EXCEPT !.mission_geometry = g]
<1>1. /\ t \in Submitter /\ t.state = s.state /\ t.late = s.late /\ t.calls = s.calls
      /\ t.requested = s.requested /\ t.undefined = s.undefined
      /\ t.authorization = s.authorization /\ t.pilot_id = s.pilot_id
      /\ t.active_flights = s.active_flights /\ t.flight_plan = s.flight_plan
      /\ t.flight = s.flight /\ t.traffic_monitor = s.traffic_monitor
      /\ t.encryption_key = s.encryption_key
  BY DEF ChainInv, Submitter
<1> HIDE DEF t
<1>2. Keeps(s, t)
  BY <1>1 DEF Keeps, ChainInv, Session, ListKept, Backed, Single, Ordered, Ending, Blank, Waits, WaitsFor
<1> QED
  BY ONLY <1>2 DEF t, WithMissionGeometry

\* deactivate() up to the end_flight call: no flag, no value, no fresh call.
LEMMA ForgottenFields ==
    ASSUME NEW s, ChainInv(s)
    PROVE  LET t == Forgotten(s) IN
           /\ t \in Submitter /\ t.state = "inactive" /\ t.late = FALSE
           /\ \A x \in Stage : ~t.requested[x]
           /\ ~t.authorization /\ ~t.pilot_id /\ ~t.flight_plan
           /\ t.flight = None /\ t.traffic_monitor = None /\ t.encryption_key = None
           /\ t.active_flights = s.active_flights /\ t.undefined = s.undefined
           /\ t.calls = Outdated(s.calls)
<1>1. s \in Submitter
  BY DEF ChainInv
<1>2. Outdated(s.calls) \in [Call -> Nat]
  <2>1. ASSUME NEW c \in Call PROVE [c EXCEPT !.stale = FALSE] \in Call
    BY CallShape DEF Call
  <2>2. \A c \in Call : s.calls[c] \in Nat /\ s.calls[[c EXCEPT !.stale = FALSE]] \in Nat
    BY <1>1, <2>1 DEF Submitter
  <2> QED
    BY <2>2 DEF Outdated
<1> QED
  BY <1>1, <1>2 DEF Forgotten, Submitter

\* deactivate() keeps the invariant: what it forgets, no fresh call brings back.
LEMMA DeactivatedKeeps ==
    ASSUME NEW s, ChainInv(s)
    PROVE  Keeps(s, Deactivated(s))
<1> DEFINE r == Forgotten(s)
           Nothing(t) ==
               /\ t \in Submitter /\ t.state = "inactive" /\ t.late = FALSE
               /\ \A x \in Stage : ~t.requested[x]
               /\ ~t.authorization /\ ~t.pilot_id /\ ~t.flight_plan
               /\ t.flight = None /\ t.traffic_monitor = None /\ t.encryption_key = None
               /\ t.active_flights = s.active_flights /\ t.undefined = s.undefined
               /\ \A c \in Call : c.op # "end_flight" /\ ~c.stale => t.calls[c] = 0
               /\ \A c \in Call : c.op = "end_active_flights" /\ s.active_flights = None => t.calls[c] = 0
<1>1. s \in Submitter
  BY DEF ChainInv
<1>2. Nothing(r)
  <2>1. \A c \in Call : r.calls[c] =
            IF c.stale THEN s.calls[c] + s.calls[[c EXCEPT !.stale = FALSE]] ELSE 0
    BY ForgottenFields, ZenonT(60) DEF Outdated
  <2>2. ASSUME NEW c \in Call, c.op = "end_active_flights", s.active_flights = None
        PROVE  r.calls[c] = 0
    <3>1. /\ [c EXCEPT !.stale = FALSE] \in Call
          /\ [c EXCEPT !.stale = FALSE].op = "end_active_flights"
      BY <2>2 DEF Call
    <3>2. s.calls[c] = 0 /\ s.calls[[c EXCEPT !.stale = FALSE]] = 0
      BY <2>2, <3>1 DEF ChainInv, ListKept
    <3> QED
      BY <2>1, <3>2
  <2> QED
    BY <2>1, <2>2, ForgottenFields
<1> HIDE DEF r
<1>3. ASSUME NEW t, Nothing(t) PROVE Keeps(s, t)
  <2>1. \A op, f : op # "end_flight" /\ Fresh(op, f) \in Call => t.calls[Fresh(op, f)] = 0
    BY <1>3 DEF Fresh
  <2> USE <1>3, <2>1, FlightsAssumption, FreshIsCall
      DEF Waits, WaitsFor, Stage, PlainOp, FlightOp
  <2>2. ListKept(t) /\ Backed(t)
    BY DEF ListKept, Backed
  <2>3. Single(t)
    BY DEF Single
  <2>4. Ordered(t)
    BY DEF Ordered
  <2>5. Ending(t) /\ Blank(t)
    BY DEF Ending, Blank
  <2> QED
    BY <2>2, <2>3, <2>4, <2>5 DEF Keeps, ChainInv, Session
<1>4. CASE s.state = "inactive"
  BY <1>4 DEF Deactivated, Keeps
<1>5. CASE s.state # "inactive" /\ s.authorization /\ s.flight # None
  <2> DEFINE t == Issued(r, "end_flight", s.flight)
  <2>1. Fresh("end_flight", s.flight) \in Call
    BY <1>1, <1>5, FreshIsCall DEF FlightOp, Submitter
  <2>2. /\ t \in Submitter /\ Same(r, t) /\ t.requested = r.requested /\ t.undefined = r.undefined
        /\ \A d \in Call : t.calls[d] = IF d = Fresh("end_flight", s.flight)
                                           THEN r.calls[d] + 1 ELSE r.calls[d]
    BY <1>2, <2>1, IssuedFields
  <2> HIDE DEF t
  <2>3. \A d \in Call : d.op # "end_flight" => t.calls[d] = r.calls[d]
    BY <2>2, FreshInjective
  <2>4. Nothing(t)
    BY <1>2, <2>2, <2>3 DEF Same
  <2>5. Deactivated(s) = t
    BY <1>5 DEF Deactivated, t, r
  <2> QED
    BY <1>3, <2>4, <2>5
<1>6. CASE s.state # "inactive" /\ ~(s.authorization /\ s.flight # None)
  <2>1. Deactivated(s) = r
    BY <1>6 DEF Deactivated, r
  <2> QED
    BY <1>2, <1>3, <2>1
<1> QED
  BY <1>4, <1>5, <1>6

\* A new submitter is in order.
LEMMA NewSubmitterInv == ChainInv(NewSubmitter)
<1> DEFINE s == NewSubmitter
<1>1. s \in Submitter
  BY DEF NewSubmitter, Submitter
<1>2. /\ s.state = "inactive" /\ ~s.authorization /\ ~s.pilot_id /\ ~s.flight_plan
      /\ s.flight = None /\ s.traffic_monitor = None /\ s.encryption_key = None
      /\ s.active_flights = None
      /\ \A x \in Stage : ~s.requested[x]
      /\ \A c \in Call : s.calls[c] = 0
  BY DEF NewSubmitter
<1> HIDE DEF s
<1>3. ListKept(s) /\ Backed(s) /\ Single(s) /\ Ordered(s) /\ Ending(s) /\ Blank(s)
  BY <1>2, FreshIsCall, FlightsAssumption
     DEF ListKept, Backed, Single, Ordered, Ending, Blank, Waits, WaitsFor, Stage, PlainOp, FlightOp
<1>4. ChainInv(s)
  BY <1>1, <1>3 DEF ChainInv, Session
<1> QED
  BY <1>4 DEF s

-----------------------------------------------------------------------------
(***************************************************************************)
(* What the chain leaves alone.                                            *)
(***************************************************************************)
\* What the session sees of s and t is the same, no call is taken back, and the
\* flights ended in addition are listed.
Held(s, t) ==
    /\ t \in Submitter
    /\ t.state = s.state /\ t.late = s.late
    /\ t.active_flights = s.active_flights
    /\ t.flight = s.flight /\ t.encryption_key = s.encryption_key
    /\ t.mission_geometry = s.mission_geometry
    /\ \A c \in Call : c.op = "end_flight" => t.calls[c] = s.calls[c]
    /\ \A c \in Call : Pending(s, c) => Pending(t, c)
    /\ \A c \in Call : c.op = "end_active_flights" /\ Pending(t, c)
          => Pending(s, c) \/ c.flight \in s.active_flights

\* A request function may be the last of several.
LEMMA HeldTransitive ==
    ASSUME NEW r, NEW s, NEW t, Held(r, s), Held(s, t)
    PROVE  Held(r, t)
BY DEF Held

\* A submitter holds what it holds.
LEMMA HeldSelf ==
    ASSUME NEW s \in Submitter
    PROVE  Held(s, s)
BY DEF Held

\* Flagging, reading and issuing a call of the chain.
LEMMA AskHeld ==
    ASSUME NEW s \in Submitter, NEW x \in Stage, NEW op, NEW f,
           Fresh(op, f) \in Call, op \notin {"end_flight", "end_active_flights"}
    PROVE  /\ Held(s, Flagged(s, x))
           /\ Held(s, Issued(s, op, f))
           /\ Held(s, ReadsAuthorization(s))
           /\ Held(s, Issued(Flagged(s, x), op, f))
           /\ Held(s, Issued(ReadsAuthorization(s), op, f))
           /\ Held(s, Issued(ReadsAuthorization(Flagged(s, x)), op, f))
<1>1. ASSUME NEW r \in Submitter PROVE Held(r, Flagged(r, x))
  BY FlaggedFields DEF Held, Same, Pending
<1>2. ASSUME NEW r \in Submitter PROVE Held(r, Issued(r, op, f))
  <2>1. Fresh(op, f).op = op
    BY FreshInjective
  <2>2. \A c \in Call : Pending(r, c) => Pending(Issued(r, op, f), c)
    BY IssuedFields DEF Pending, Submitter
  <2>3. \A c \in Call : c.op # op => (Pending(Issued(r, op, f), c) <=> Pending(r, c))
    BY <2>1, IssuedFields DEF Pending
  <2> QED
    BY <2>1, <2>2, <2>3, IssuedFields DEF Held, Same
<1>3. ASSUME NEW r \in Submitter PROVE Held(r, ReadsAuthorization(r))
  BY ReadsAuthorizationFields DEF Held, Same, Pending
<1>4. \A r : Held(s, r) => r \in Submitter
  BY DEF Held
<1> QED
  BY <1>1, <1>2, <1>3, <1>4, HeldTransitive

\* request_start_flight_comms
LEMMA RequestStartFlightCommsHeld ==
    ASSUME NEW s \in Submitter, s.flight \in Flights
    PROVE  Held(s, RequestStartFlightComms(s))
<1>1. Fresh("start_flight_comms", s.flight) \in Call
  BY FreshIsCall DEF FlightOp
<1>2. [s EXCEPT !.encryption_key = s.encryption_key] = s
  BY DEF Submitter
<1> QED
  BY <1>1, <1>2, AskHeld, HeldSelf
     DEF RequestStartFlightComms, HandleRequestStartFlightCommsFinished, Stage

\* request_monitor_traffic
LEMMA RequestMonitorTrafficHeld ==
    ASSUME NEW s \in Submitter, s.flight \in Flights
    PROVE  Held(s, RequestMonitorTraffic(s))
<1>1. Fresh("traffic_monitoring", s.flight) \in Call
  BY FreshIsCall DEF FlightOp
<1>2. [s EXCEPT !.traffic_monitor = s.traffic_monitor] = s
  BY DEF Submitter
<1> QED
  BY <1>1, <1>2, AskHeld, HeldSelf
     DEF RequestMonitorTraffic, HandleRequestMonitorTrafficFinished, Stage

\* What is requested for a flight leaves the flight alone.
LEMMA FlightStoredHeld ==
    ASSUME NEW s \in Submitter, s.flight \in Flights
    PROVE  Held(s, RequestStartFlightComms(RequestMonitorTraffic(s)))
<1>1. Held(s, RequestMonitorTraffic(s))
  BY RequestMonitorTrafficHeld
<1>2. /\ RequestMonitorTraffic(s) \in Submitter
      /\ RequestMonitorTraffic(s).flight \in Flights
  BY <1>1 DEF Held
<1>3. Held(RequestMonitorTraffic(s), RequestStartFlightComms(RequestMonitorTraffic(s)))
  BY <1>2, RequestStartFlightCommsHeld
<1> QED
  BY <1>1, <1>3, HeldTransitive

\* request_submit_flight_plan
LEMMA RequestSubmitFlightPlanHeld ==
    ASSUME NEW s \in Submitter
    PROVE  Held(s, RequestSubmitFlightPlan(s))
<1>1. CASE s.flight # None
  <2>1. s.flight \in Flights /\ [s EXCEPT !.flight = s.flight] = s
    BY <1>1 DEF Submitter
  <2> QED
    BY <1>1, <2>1, FlightStoredHeld
       DEF RequestSubmitFlightPlan, HandleRequestSubmitFlightPlanFinished
<1>2. CASE s.flight = None
  <2>1. Fresh("submit_flight_plan", None) \in Call
    BY FreshIsCall DEF PlainOp
  <2> QED
    BY <1>2, <2>1, AskHeld, HeldSelf DEF RequestSubmitFlightPlan, Stage
<1> QED
  BY <1>1, <1>2

\* handle_request_create_flight_plan_finished
LEMMA PlanStoredHeld ==
    ASSUME NEW s \in Submitter
    PROVE  Held(s, HandleRequestCreateFlightPlanFinished(s))
<1> DEFINE t == [s EXCEPT !.flight_plan = TRUE]
<1>1. t \in Submitter /\ Held(s, t)
  BY DEF Held, Submitter, Pending
<1> HIDE DEF t
<1>2. Held(s, RequestSubmitFlightPlan(t))
  BY <1>1, RequestSubmitFlightPlanHeld, HeldTransitive
<1> QED
  BY <1>2 DEF t, HandleRequestCreateFlightPlanFinished

\* The polygon branch of request_create_flight_plan.
LEMMA CreateByPolygonHeld ==
    ASSUME NEW s \in Submitter
    PROVE  Held(s, CreateByPolygon(s))
<1> DEFINE w == (IF s.pilot_id THEN {} ELSE {"pilot_id"})
                   \cup (IF s.mission_geometry = "empty" THEN {"coordinates"} ELSE {})
           q == ReadsAuthorization(s)
           p == Reads(q, w)
<1>1. w \in SUBSET {"authorization", "pilot_id", "coordinates"}
  OBVIOUS
<1>2. Fresh("create_flight_plan", None) \in Call
  BY FreshIsCall DEF PlainOp
<1>3. q \in Submitter /\ Held(s, q)
  BY ReadsAuthorizationFields DEF Held, Same, Pending
<1>4. CreateByPolygon(s) = Issued(p, "create_flight_plan", None)
  BY DEF CreateByPolygon
<1> HIDE DEF q, w
<1>5. p \in Submitter /\ Held(q, p)
  BY <1>1, <1>3, ReadsFields DEF Held, Same, Pending
<1> HIDE DEF p
<1>6. Held(p, Issued(p, "create_flight_plan", None))
  BY <1>2, <1>5, AskHeld DEF Stage
<1> QED
  BY <1>3, <1>4, <1>5, <1>6, HeldTransitive

\* request_create_flight_plan
LEMMA RequestCreateFlightPlanHeld ==
    ASSUME NEW s \in Submitter
    PROVE  Held(s, RequestCreateFlightPlan(s))
<1> DEFINE t == Flagged(s, "create_flight_plan")
<1>1. t \in Submitter /\ Held(s, t)
  BY FlaggedFields DEF Stage, Held, Same, Pending
<1>2. Held(s, CreateByPolygon(t))
  BY <1>1, CreateByPolygonHeld, HeldTransitive
<1>3. Fresh("create_flight_by_point", None) \in Call
  BY FreshIsCall DEF PlainOp
<1>4. Held(t, CreateByPoint(t))
  BY <1>1, <1>3, AskHeld DEF CreateByPoint, Stage
<1>5. Held(s, CreateByPoint(t))
  BY <1>1, <1>4, HeldTransitive
<1>6. CASE s.flight_plan \/ s.requested["create_flight_plan"]
  BY <1>6, PlanStoredHeld, HeldSelf DEF RequestCreateFlightPlan
<1>7. CASE ~s.flight_plan /\ ~s.requested["create_flight_plan"]
  BY <1>1, <1>2, <1>5, <1>7 DEF RequestCreateFlightPlan
<1> QED
  BY <1>6, <1>7

\* request_end_active_flights
LEMMA RequestEndActiveFlightsHeld ==
    ASSUME NEW s \in Submitter
    PROVE  Held(s, RequestEndActiveFlights(s))
<1> DEFINE t == Flagged(s, "end_active_flights")
           q == ReadsAuthorization(t)
           n == [c \in Call |->
                   IF c.op = "end_active_flights" /\ c.flight \in t.active_flights /\ ~c.stale
                   THEN t.calls[c] + 1 ELSE t.calls[c]]
<1>1. t \in Submitter /\ Held(s, t)
  BY FlaggedFields DEF Stage, Held, Same, Pending
<1> HIDE DEF t
<1>2. q \in Submitter /\ Held(t, q) /\ q.calls = t.calls
  BY <1>1, ReadsAuthorizationFields DEF Held, Same, Pending
<1>3. EndEach(t) = [q EXCEPT !.calls = n]
  BY DEF EndEach
<1> HIDE DEF q
<1>4. /\ n \in [Call -> Nat]
      /\ \A c \in Call : c.op = "end_flight" => n[c] = t.calls[c]
      /\ \A c \in Call : t.calls[c] > 0 => n[c] > 0
      /\ \A c \in Call : c.op = "end_active_flights" /\ n[c] > 0
            => t.calls[c] > 0 \/ c.flight \in t.active_flights
  BY <1>1 DEF Submitter
<1> HIDE DEF n
<1>5. Held(t, EndEach(t))
  BY <1>2, <1>3, <1>4 DEF Held, Submitter, Pending
<1>6. Held(s, EndEach(t))
  BY <1>1, <1>5, HeldTransitive
<1> QED
  BY <1>6, RequestCreateFlightPlanHeld, HeldSelf DEF RequestEndActiveFlights, t

\* request_active_flights
LEMMA RequestActiveFlightsHeld ==
    ASSUME NEW s \in Submitter
    PROVE  Held(s, RequestActiveFlights(s))
<1>1. Fresh("active_flights", None) \in Call
  BY FreshIsCall DEF PlainOp
<1>2. [s EXCEPT !.active_flights = s.active_flights] = s
  BY DEF Submitter
<1> QED
  BY <1>1, <1>2, AskHeld, HeldSelf, RequestEndActiveFlightsHeld
     DEF RequestActiveFlights, HandleRequestActiveFlightsFinished, Stage

\* handle_request_pilot_id_finished
LEMMA PilotIdStoredHeld ==
    ASSUME NEW s \in Submitter
    PROVE  Held(s, HandleRequestPilotIdFinished(s))
<1> DEFINE t == [s EXCEPT !.pilot_id = TRUE]
<1>1. t \in Submitter /\ Held(s, t)
  BY DEF Held, Submitter, Pending
<1> HIDE DEF t
<1>2. Held(s, RequestActiveFlights(t))
  BY <1>1, RequestActiveFlightsHeld, HeldTransitive
<1> QED
  BY <1>2 DEF t, HandleRequestPilotIdFinished

\* request_pilot_id
LEMMA RequestPilotIdHeld ==
    ASSUME NEW s \in Submitter
    PROVE  Held(s, RequestPilotId(s))
<1>1. Fresh("pilot_id", None) \in Call
  BY FreshIsCall DEF PlainOp
<1> QED
  BY <1>1, AskHeld, HeldSelf, PilotIdStoredHeld DEF RequestPilotId, Stage

\* handle_request_authorization_finished
LEMMA AuthorizationStoredHeld ==
    ASSUME NEW s \in Submitter
    PROVE  Held(s, HandleRequestAuthorizationFinished(s))
<1> DEFINE t == [s EXCEPT !.authorization = TRUE]
<1>1. t \in Submitter /\ Held(s, t)
  BY DEF Held, Submitter, Pending
<1> HIDE DEF t
<1>2. Held(s, RequestPilotId(t))
  BY <1>1, RequestPilotIdHeld, HeldTransitive
<1> QED
  BY <1>2 DEF t, HandleRequestAuthorizationFinished

\* request_authorization
LEMMA RequestAuthorizationHeld ==
    ASSUME NEW s \in Submitter
    PROVE  Held(s, RequestAuthorization(s))
<1>1. Fresh("authorization", None) \in Call
  BY FreshIsCall DEF PlainOp
<1> QED
  BY <1>1, AskHeld, HeldSelf, AuthorizationStoredHeld DEF RequestAuthorization, Stage

=============================================================================
