------------------------- MODULE MonitorDaemonProofs -------------------------
(***************************************************************************)
(* Proofs about MonitorDaemon for any set of vehicles, any finite set of   *)
(* flights and any number of pending calls.  They rest on what every       *)
(* function of a submitter preserves (SubmitterChainProofs).               *)
(***************************************************************************)
EXTENDS MonitorDaemon, SubmitterChainProofs

\* The items of a mission, in order, all of them counted.
InOrder(m) ==
    /\ \A i, j \in DOMAIN m.coordinates : i < j => m.coordinates[i] < m.coordinates[j]
    /\ \A i \in DOMAIN m.coordinates : m.coordinates[i] < m.counter

\* The submitter s has the geometry of the mission m if that is complete.
HandedOver(m, s) ==
    m.counter = m.mission_size /\ m.counter > 0 => s.mission_geometry = AsGeometry(m)

\* A vehicle and its submitter.
PairInv(x, s) ==
    /\ x \in VehicleState /\ InOrder(x.mission)
    /\ ChainInv(s)
    /\ HandedOver(x.mission, s)

\* The inductive invariant.
DInv ==
    /\ DOMAIN vehicles \subseteq SystemId
    /\ DOMAIN submitters = DOMAIN vehicles
    /\ \A v \in DOMAIN vehicles : PairInv(vehicles[v], submitters[v])
    /\ open \subseteq Flights

-----------------------------------------------------------------------------
(***************************************************************************)
(* What a submitter keeps while it walks the chain.                        *)
(***************************************************************************)
\* The session goes on, and so does its mission.
Continues(s, t) ==
    /\ ChainInv(t)
    /\ t.state = s.state /\ t.mission_geometry = s.mission_geometry

\* A run of the chain from what a callback has stored.
LEMMA HeldContinues ==
    ASSUME NEW s, NEW r, NEW t, Keeps(s, t), Held(r, t),
           r.state = s.state, r.mission_geometry = s.mission_geometry
    PROVE  Continues(s, t)
BY DEF Continues, Keeps, Held

\* Taking a call out of the bag.
LEMMA TakenContinues ==
    ASSUME NEW s \in Submitter, NEW c \in Call, Pending(s, c)
    PROVE  /\ Taken(s, c) \in Submitter
           /\ Taken(s, c).state = s.state
           /\ Taken(s, c).mission_geometry = s.mission_geometry
<1>1. Took(s, Taken(s, c), c)
  BY TakenFields
<1> QED
  BY <1>1 DEF Took, Taken, Submitter

\* Every callback that succeeds, whichever session it belongs to.
LEMMA SuccessContinues ==
    ASSUME NEW s, ChainInv(s), NEW c \in Call, Pending(s, c), NEW x,
           Creates(c) => x \in Flights,
           c.op = "active_flights" => x \in SUBSET Flights
    PROVE  Continues(s, Success(Taken(s, c), c, x))
<1> DEFINE r == Taken(s, c)
<1>1. s \in Submitter
  BY DEF ChainInv
<1>2. r \in Submitter /\ r.state = s.state /\ r.mission_geometry = s.mission_geometry
  BY <1>1, TakenContinues
<1>3. CASE c.op = "authorization"
  BY <1>2, <1>3, AuthenticatedKeeps, AuthorizationStoredHeld, HeldContinues DEF Success
<1>4. CASE c.op = "pilot_id"
  BY <1>2, <1>4, PilotFoundKeeps, PilotIdStoredHeld, HeldContinues DEF Success
<1>5. CASE c.op = "active_flights"
  <2> DEFINE q == [r EXCEPT !.active_flights = x]
  <2>1. q \in Submitter /\ q.state = r.state /\ q.mission_geometry = r.mission_geometry
    BY <1>2, <1>5 DEF Submitter
  <2>2. Success(r, c, x) = RequestEndActiveFlights(q)
    BY <1>5 DEF Success, HandleRequestActiveFlightsFinished
  <2>3. Keeps(s, Success(r, c, x))
    BY <1>5, FlightsFoundKeeps DEF Success
  <2> QED
    BY <1>2, <2>1, <2>2, <2>3, RequestEndActiveFlightsHeld, HeldContinues
<1>6. CASE c.op = "create_flight_plan"
  BY <1>2, <1>6, FlightPlanCreatedKeeps, PlanStoredHeld, HeldContinues DEF Success
<1>7. CASE Creates(c)
  <2> DEFINE q == [r EXCEPT !.flight = x]
  <2>1. /\ q \in Submitter /\ q.flight \in Flights
        /\ q.state = r.state /\ q.mission_geometry = r.mission_geometry
    BY <1>2, <1>7 DEF Submitter
  <2>2. Success(r, c, x) = RequestStartFlightComms(RequestMonitorTraffic(q))
    BY <1>7 DEF Success, Creates, HandleRequestSubmitFlightPlanFinished
  <2>3. Keeps(s, Success(r, c, x))
    BY <1>7, FlightCreatedByPointKeeps, FlightPlanSubmittedKeeps DEF Success, Creates
  <2> QED
    BY <1>2, <2>1, <2>2, <2>3, FlightStoredHeld, HeldContinues
<1>8. CASE c.op = "end_active_flights"
  <2> DEFINE q == [r EXCEPT !.active_flights = @ \ {c.flight}]
  <2>1. Keeps(s, Success(r, c, x))
    BY <1>8, ActiveFlightEndedKeeps DEF Success
  <2>2. r.active_flights # None
    BY <1>1, <1>8, TakenFields DEF ChainInv, ListKept, Took, Pending
  <2>3. q \in Submitter /\ q.state = r.state /\ q.mission_geometry = r.mission_geometry
    BY <1>2, <2>2 DEF Submitter
  <2>4. Success(r, c, x) \in {q, RequestCreateFlightPlan(q)}
    BY <1>8 DEF Success, HandleRequestEndActiveFlightFinished
  <2> QED
    BY <1>2, <2>1, <2>3, <2>4, RequestCreateFlightPlanHeld, HeldSelf, HeldContinues
<1>9. CASE c.op = "traffic_monitoring"
  BY <1>2, <1>9, TrafficMonitoredKeeps
     DEF Success, HandleRequestMonitorTrafficFinished, Continues, Keeps, Submitter
<1>10. CASE c.op = "start_flight_comms"
  BY <1>2, <1>10, FlightCommsStartedKeeps
     DEF Success, HandleRequestStartFlightCommsFinished, Continues, Keeps, Submitter
<1>11. CASE c.op = "end_flight"
  BY <1>2, <1>11, FlightEndedKeeps DEF Success, Continues, Keeps
<1> QED
  BY <1>3, <1>4, <1>5, <1>6, <1>7, <1>8, <1>9, <1>10, <1>11 DEF Creates, Call, PlainOp, FlightOp

\* Every callback that fails.
LEMMA FailureContinues ==
    ASSUME NEW s, ChainInv(s), NEW c \in Call, Pending(s, c)
    PROVE  Continues(s, Failed(Taken(s, c), c))
<1>1. s \in Submitter /\ Keeps(s, Failed(Taken(s, c), c))
  BY CallFailedKeeps DEF ChainInv
<1>2. /\ Failed(Taken(s, c), c).state = Taken(s, c).state
      /\ Failed(Taken(s, c), c).mission_geometry = Taken(s, c).mission_geometry
  BY <1>1, TakenContinues DEF Failed, Submitter
<1> QED
  BY <1>1, <1>2, TakenContinues DEF Continues, Keeps

\* A position.
LEMMA SubmittedContinues ==
    ASSUME NEW s, ChainInv(s)
    PROVE  Continues(s, Submitted(s))
<1> DEFINE t == [s EXCEPT !.current_position = TRUE]
<1>1. t \in Submitter /\ t.state = s.state /\ t.mission_geometry = s.mission_geometry
  BY DEF ChainInv, Submitter
<1>2. Submitted(s) \in {t, RequestAuthorization(t)}
  BY DEF Submitted
<1> HIDE DEF t
<1> QED
  BY <1>1, <1>2, SubmittedKeeps, RequestAuthorizationHeld, HeldSelf, HeldContinues

\* activate(), deactivate() and their silence in every other change of status.
LEMMA StatusChange ==
    ASSUME NEW s, ChainInv(s), NEW old, NEW new
    PROVE  LET t == OnSystemStatusChanged(s, old, new) IN
           /\ ChainInv(t)
           /\ t.mission_geometry = s.mission_geometry
           /\ t.state = IF Activates(old, new) THEN "active"
                        ELSE IF Deactivates(old, new) THEN "inactive" ELSE s.state
<1> DEFINE t == [s EXCEPT !.state = "active"]
<1>1. s \in Submitter
  BY DEF ChainInv
<1>2. t \in Submitter /\ t.state = "active" /\ t.mission_geometry = s.mission_geometry
  BY <1>1 DEF Submitter
<1>3. Activated(s) = RequestAuthorization(t)
  BY DEF Activated
<1> HIDE DEF t
<1>4. /\ ChainInv(Activated(s)) /\ Activated(s).state = "active"
      /\ Activated(s).mission_geometry = s.mission_geometry
  BY <1>2, <1>3, ActivatedKeeps, RequestAuthorizationHeld DEF Held, Keeps
<1>5. /\ ChainInv(Deactivated(s)) /\ Deactivated(s).state = "inactive"
      /\ Deactivated(s).mission_geometry = s.mission_geometry
  BY <1>1, DeactivatedKeeps DEF Keeps, Deactivated, Forgotten, Issued, Submitter
<1> QED
  BY <1>4, <1>5 DEF OnSystemStatusChanged

-----------------------------------------------------------------------------
(***************************************************************************)
(* What a mission keeps while it is assembled.                             *)
(***************************************************************************)
\* A mission of the right type with its items in order.
Assembled(m) == m \in Mission /\ InOrder(m)

\* A mission without items.
LEMMA EmptyMission ==
    ASSUME NEW n \in 0 .. MaxMissionSize
    PROVE  /\ Assembled(HandleMsgMissionCount(NewMission, n))
           /\ HandleMsgMissionCount(NewMission, n).counter = 0
<1>1. /\ HandleMsgMissionCount(NewMission, n)
             = [coordinates |-> <<>>, counter |-> 0, mission_size |-> n]
      /\ <<>> \in Seq(0 .. MaxSeq) /\ 0 \in 0 .. MaxSeq + 1
  BY MissionAssumption DEF HandleMsgMissionCount, NewMission
<1> QED
  BY <1>1 DEF Assembled, InOrder, Mission

\* Clearing, and announcing another mission, start from nothing.
LEMMA MissionRestarts ==
    ASSUME NEW m, NEW n \in 0 .. MaxMissionSize
    PROVE  /\ Assembled(HandleMsgMissionClearAll(m)) /\ Assembled(HandleMsgMissionCount(m, n))
           /\ HandleMsgMissionClearAll(m).counter = 0 /\ HandleMsgMissionCount(m, n).counter = 0
           /\ Assembled(NewMission) /\ NewMission.counter = 0
<1>1. HandleMsgMissionCount(m, n) = HandleMsgMissionCount(NewMission, n)
  BY DEF HandleMsgMissionCount
<1>2. /\ HandleMsgMissionClearAll(m) = HandleMsgMissionCount(NewMission, 0)
      /\ NewMission = HandleMsgMissionCount(NewMission, 0)
  BY DEF HandleMsgMissionClearAll, HandleMsgMissionCount, NewMission
<1>3. 0 \in 0 .. MaxMissionSize
  BY MissionAssumption
<1> QED
  BY <1>1, <1>2, <1>3, EmptyMission

\* The item that is expected is appended or only counted; any other is ignored.
\* A mission that is complete afterwards was completed by this item or before.
LEMMA ItemTaken ==
    ASSUME NEW m, Assembled(m), NEW seq \in 0 .. MaxSeq, NEW type \in MissionType
    PROVE  LET new == HandleMsgMissionItem(m, seq, type) IN
           /\ Assembled(new)
           /\ ~Completes(m, seq) => new = m \/ new.counter # new.mission_size
<1>1. CASE seq # m.counter
  BY <1>1 DEF HandleMsgMissionItem, Completes
<1>2. CASE seq = m.counter
  <2> DEFINE cs == IF type = "16" THEN Append(m.coordinates, seq) ELSE m.coordinates
             new == [m EXCEPT !.counter = seq + 1, !.coordinates = cs]
  <2>1. /\ m.coordinates \in Seq(0 .. MaxSeq) /\ m.counter \in Nat /\ m.mission_size \in Nat
        /\ \A i \in DOMAIN m.coordinates : m.coordinates[i] \in 0 .. MaxSeq
    BY MissionAssumption DEF Assembled, Mission
  <2>2. HandleMsgMissionItem(m, seq, type) = new
    BY <1>2 DEF HandleMsgMissionItem
  <2>3. cs \in Seq(0 .. MaxSeq) /\ seq + 1 \in 0 .. MaxSeq + 1
    <3>1. Append(m.coordinates, seq) \in Seq(0 .. MaxSeq)
      BY <2>1
    <3>2. seq + 1 \in 0 .. MaxSeq + 1
      BY MissionAssumption
    <3> QED
      BY <2>1, <3>1, <3>2
  <2>4. \A i \in DOMAIN cs : IF i \in DOMAIN m.coordinates THEN cs[i] = m.coordinates[i]
                             ELSE cs[i] = seq /\ \A j \in DOMAIN cs : j <= i
    BY <2>1
  <2> HIDE DEF cs
  <2>5. /\ new \in Mission /\ new.coordinates = cs /\ new.counter = seq + 1
        /\ new.mission_size = m.mission_size
    BY <2>3 DEF Assembled, Mission
  <2> HIDE DEF new
  <2>6. InOrder(m)
    BY DEF Assembled
  <2>7. DOMAIN cs \subseteq Nat /\ DOMAIN m.coordinates \subseteq Nat
    BY <2>1, <2>3
  <2>8. ASSUME NEW i \in DOMAIN cs PROVE cs[i] < seq + 1 /\ cs[i] \in Nat
    BY <1>2, <2>1, <2>4, <2>6, MissionAssumption DEF InOrder
  <2>9. ASSUME NEW i \in DOMAIN cs, NEW j \in DOMAIN cs, i < j PROVE cs[i] < cs[j]
    <3>1. i \in DOMAIN m.coordinates
      BY <2>4, <2>7, <2>9
    <3> QED
      BY <1>2, <2>4, <2>6, <2>9, <3>1 DEF InOrder
  <2>10. InOrder(new)
    BY <2>5, <2>8, <2>9 DEF InOrder
  <2>11. ~Completes(m, seq) => new.counter # new.mission_size
    BY <1>2, <2>5 DEF Completes
  <2> QED
    BY <2>2, <2>5, <2>10, <2>11 DEF Assembled
<1> QED
  BY <1>1, <1>2

-----------------------------------------------------------------------------
(***************************************************************************)
(* Steps of the daemon.                                                    *)
(***************************************************************************)
\* What becomes of a submitter's state when its vehicle goes from old to new.
After(old, new, state) ==
    IF Activates(old, new) THEN "active"
    ELSE IF Deactivates(old, new) THEN "inactive" ELSE state

\* In a step, the submitter of v follows v.
Tracks(v) ==
    submitters'[v].state
        = After(vehicles[v].system_status, vehicles'[v].system_status, submitters[v].state)

\* A status that stays means nothing to the submitter.
LEMMA SameStatus ==
    ASSUME NEW old, NEW state
    PROVE  After(old, old, state) = state
BY DEF After, Activates, Deactivates, Grounded, Flying

\* A vehicle that is seen for the first time gets a submitter in order.
LEMMA PairOf ==
    ASSUME DInv, NEW v \in SystemId
    PROVE  PairInv(VehicleOf(v), SubmitterOf(v))
<1>1. CASE v \in DOMAIN vehicles
  BY <1>1 DEF DInv, VehicleOf, SubmitterOf
<1>2. CASE v \notin DOMAIN vehicles
  <2>1. VehicleOf(v) = NewVehicle /\ SubmitterOf(v) = NewSubmitter
    BY <1>2 DEF DInv, VehicleOf, SubmitterOf
  <2>2. 0 \in 0 .. MaxMissionSize
    BY MissionAssumption
  <2>3. Assembled(NewMission) /\ NewMission.counter = 0
    BY <2>2, MissionRestarts
  <2>4. NewVehicle \in VehicleState /\ NewVehicle.mission = NewMission
    BY <2>3 DEF NewVehicle, VehicleState, Status, Grounded, Assembled
  <2>5. HandedOver(NewVehicle.mission, NewSubmitter)
    BY <2>3, <2>4 DEF HandedOver
  <2> QED
    BY <2>1, <2>3, <2>4, <2>5, NewSubmitterInv DEF PairInv, Assembled
<1> QED
  BY <1>1, <1>2

\* A message changes one vehicle and its submitter.
LEMMA MessageStep ==
    ASSUME DInv, NEW v \in SystemId, NEW x, NEW s, Updated(v, x, s), PairInv(x, s),
           s.state = After(VehicleOf(v).system_status, x.system_status, SubmitterOf(v).state)
    PROVE  DInv' /\ \A w \in DOMAIN vehicles : Tracks(w)
<1>1. /\ DOMAIN vehicles' = DOMAIN vehicles \cup {v} /\ DOMAIN submitters' = DOMAIN vehicles'
      /\ \A w \in DOMAIN vehicles' :
            /\ vehicles'[w] = IF w = v THEN x ELSE vehicles[w]
            /\ submitters'[w] = IF w = v THEN s ELSE submitters[w]
      /\ open' = open
  BY DEF DInv, Updated, Set
<1>2. DInv'
  BY <1>1 DEF DInv
<1>3. ASSUME NEW w \in DOMAIN vehicles PROVE Tracks(w)
  BY <1>1, SameStatus DEF Tracks, VehicleOf, SubmitterOf, DInv
<1> QED
  BY <1>2, <1>3

\* A reply changes one submitter, which continues.
LEMMA ReplyStep ==
    ASSUME DInv, NEW v \in DOMAIN submitters, NEW t, Continues(submitters[v], t),
           submitters' = [submitters EXCEPT ![v] = t], vehicles' = vehicles,
           open' \subseteq Flights
    PROVE  DInv' /\ \A w \in DOMAIN vehicles : Tracks(w)
<1>1. PairInv(vehicles[v], t)
  BY DEF DInv, PairInv, HandedOver, Continues
<1>2. DInv'
  BY <1>1 DEF DInv
<1>3. ASSUME NEW w \in DOMAIN vehicles PROVE Tracks(w)
  BY SameStatus DEF Tracks, DInv, Continues
<1> QED
  BY <1>2, <1>3

\* Every message the tracker hands to a vehicle.
LEMMA EveryMessage ==
    ASSUME DInv, NEW v \in SystemId, Message(v)
    PROVE  DInv' /\ \A w \in DOMAIN vehicles : Tracks(w)
<1> DEFINE x == VehicleOf(v)
           s == SubmitterOf(v)
           With(m) == [x EXCEPT !.mission = m]
<1>1. /\ x \in VehicleState /\ Assembled(x.mission)
      /\ ChainInv(s) /\ HandedOver(x.mission, s)
  BY PairOf DEF PairInv, Assembled, VehicleState
<1> HIDE DEF x, s
<1>2. ASSUME NEW m \in Mission
      PROVE  /\ With(m) \in VehicleState /\ With(m).mission = m
             /\ With(m).system_status = x.system_status
  BY <1>1, <1>2 DEF VehicleState
<1>3. ASSUME NEW status \in Reported, Heartbeat(v, status)
      PROVE  DInv' /\ \A w \in DOMAIN vehicles : Tracks(w)
  <2> DEFINE y == [x EXCEPT !.system_status = status]
             t == IF status = x.system_status THEN s
                  ELSE OnSystemStatusChanged(s, x.system_status, status)
  <2>1. y \in VehicleState /\ y.mission = x.mission /\ y.system_status = status
    BY <1>1, <1>3, DaemonAssumption DEF VehicleState
  <2>2. /\ ChainInv(t) /\ t.mission_geometry = s.mission_geometry
        /\ t.state = After(x.system_status, status, s.state)
    BY <1>1, StatusChange, SameStatus DEF After
  <2>3. PairInv(y, t)
    BY <1>1, <2>1, <2>2 DEF PairInv, HandedOver, Assembled
  <2>4. Updated(v, y, t)
    BY <1>3 DEF Heartbeat, x, s
  <2> QED
    BY <2>1, <2>2, <2>3, <2>4, MessageStep DEF x, s
<1>4. CASE GlobalPositionInt(v)
  <2>1. Continues(s, Submitted(s))
    BY <1>1, SubmittedContinues
  <2>2. PairInv(x, Submitted(s))
    BY <1>1, <2>1 DEF PairInv, HandedOver, Assembled, Continues
  <2>3. Submitted(s).state = After(x.system_status, x.system_status, s.state)
    BY <2>1, SameStatus DEF Continues
  <2>4. Updated(v, x, Submitted(s))
    BY <1>4 DEF GlobalPositionInt, x, s
  <2> QED
    BY <2>2, <2>3, <2>4, MessageStep DEF x, s
<1>5. ASSUME NEW m, Assembled(m), NEW t, ChainInv(t), t.state = s.state,
             HandedOver(m, t), Updated(v, With(m), t)
      PROVE  DInv' /\ \A w \in DOMAIN vehicles : Tracks(w)
  <2>1. With(m) \in VehicleState /\ With(m).mission = m /\ With(m).system_status = x.system_status
    BY <1>2, <1>5 DEF Assembled
  <2> HIDE DEF With
  <2>2. PairInv(With(m), t)
    BY <1>5, <2>1 DEF PairInv, Assembled
  <2>3. t.state = After(x.system_status, With(m).system_status, s.state)
    BY <1>5, <2>1, SameStatus
  <2> QED
    BY <1>5, <2>2, <2>3, MessageStep DEF x, s
<1>6. CASE MissionClearAll(v)
  <2> DEFINE new == HandleMsgMissionClearAll(x.mission)
  <2>1. Assembled(new) /\ new.counter = 0
    BY MissionAssumption, MissionRestarts
  <2>2. Updated(v, With(new), s)
    BY <1>6 DEF MissionClearAll, x, s
  <2> HIDE DEF new, With
  <2> QED
    BY <1>1, <1>5, <2>1, <2>2 DEF HandedOver
<1>7. ASSUME NEW n \in 0 .. MaxMissionSize, MissionCount(v, n)
      PROVE  DInv' /\ \A w \in DOMAIN vehicles : Tracks(w)
  <2> DEFINE new == HandleMsgMissionCount(x.mission, n)
  <2>1. Assembled(new) /\ new.counter = 0
    BY MissionRestarts
  <2>2. Updated(v, With(new), s)
    BY <1>7 DEF MissionCount, x, s
  <2> HIDE DEF new, With
  <2> QED
    BY <1>1, <1>5, <2>1, <2>2 DEF HandedOver
<1>8. ASSUME NEW seq \in 0 .. MaxSeq, NEW type \in MissionType, MissionItem(v, seq, type)
      PROVE  DInv' /\ \A w \in DOMAIN vehicles : Tracks(w)
  <2> DEFINE new == HandleMsgMissionItem(x.mission, seq, type)
             t == WithMissionGeometry(s, AsGeometry(new))
  <2>1. Assembled(new) /\ (~Completes(x.mission, seq) => new = x.mission \/ new.counter # new.mission_size)
    BY <1>1, ItemTaken
  <2>2. Updated(v, With(new), IF Completes(x.mission, seq) THEN t ELSE s)
    BY <1>8 DEF MissionItem, x, s
  <2> HIDE DEF new, With
  <2>3. CASE Completes(x.mission, seq)
    <3>1. AsGeometry(new) \in Geometry
      BY DaemonAssumption DEF AsGeometry
    <3>2. ChainInv(t)
      BY <1>1, <3>1, WithMissionGeometryKeeps DEF Keeps
    <3>3. t.state = s.state /\ t.mission_geometry = AsGeometry(new)
      BY <1>1 DEF WithMissionGeometry, ChainInv, Submitter
    <3> HIDE DEF t
    <3> QED
      BY <1>5, <2>1, <2>2, <2>3, <3>2, <3>3 DEF HandedOver
  <2>4. CASE ~Completes(x.mission, seq)
    BY <1>1, <1>5, <2>1, <2>2, <2>4 DEF HandedOver
  <2> QED
    BY <2>3, <2>4
<1> QED
  BY <1>3, <1>4, <1>6, <1>7, <1>8 DEF Message

\* Every reply, lost or not, and whatever the services did before it.
LEMMA EveryReply ==
    ASSUME DInv, NEW v \in DOMAIN submitters, Reply(v)
    PROVE  DInv' /\ \A w \in DOMAIN vehicles : Tracks(w)
<1> PICK c \in Call : Succeeded(v, c) \/ CallFailed(v, c) \/ ReplyLost(v, c)
  BY DEF Reply
<1>1. ChainInv(submitters[v]) /\ Pending(submitters[v], c)
  BY DEF DInv, PairInv, Succeeded, CallFailed, ReplyLost
<1>2. ASSUME NEW x \in Payload(c)
      PROVE  /\ Creates(c) => x \in Flights
             /\ c.op = "active_flights" => x \in SUBSET Flights
             /\ Served(c, x) \subseteq Flights
  BY <1>2 DEF Payload, Unused, Served, Creates, DInv
<1>3. Continues(submitters[v], Failed(Taken(submitters[v], c), c))
  BY <1>1, FailureContinues
<1>4. CASE Succeeded(v, c)
  <2> PICK x \in Payload(c) :
        /\ submitters' = [submitters EXCEPT ![v] = Success(Taken(submitters[v], c), c, x)]
        /\ open' = Served(c, x)
    BY <1>4 DEF Succeeded
  <2>1. Continues(submitters[v], Success(Taken(submitters[v], c), c, x))
    BY <1>1, <1>2, SuccessContinues
  <2> QED
    BY <1>2, <1>4, <2>1, ReplyStep DEF Succeeded
<1>5. CASE CallFailed(v, c)
  BY <1>3, <1>5, ReplyStep DEF CallFailed, DInv
<1>6. CASE ReplyLost(v, c)
  BY <1>2, <1>3, <1>6, ReplyStep DEF ReplyLost
<1> QED
  BY <1>4, <1>5, <1>6

\* Every step keeps the invariant and lets submitters follow their vehicles.
LEMMA DaemonStep ==
    ASSUME DInv, [Next]_vars
    PROVE  DInv' /\ \A w \in DOMAIN vehicles : Tracks(w)
<1>1. CASE \E f \in Flights : Expire(f)
  BY <1>1, SameStatus DEF Expire, DInv, Tracks
<1>2. CASE UNCHANGED vars
  BY <1>2, SameStatus DEF vars, DInv, Tracks
<1> QED
  BY <1>1, <1>2, EveryMessage, EveryReply DEF Next

-----------------------------------------------------------------------------
\* The inductive invariant holds in every reachable state.
THEOREM DaemonInvariant == Spec => []DInv
<1>1. Init => DInv
  BY DEF Init, DInv
<1>2. DInv /\ [Next]_vars => DInv'
  BY DaemonStep
<1> QED
  BY <1>1, <1>2, PTL DEF Spec

\* Types, and with them that every vehicle added has exactly one submitter,
\* which every reply finds in a state its callback can be run in.
THEOREM DaemonTypes == Spec => []TypeOK
<1>1. DInv => TypeOK
  BY DEF DInv, PairInv, ChainInv, TypeOK
<1> QED
  BY <1>1, DaemonInvariant, PTL

\* Whatever mission items are repeated, lost or sent past the end, the items a
\* vehicle has taken (handle_msg_mission_item) are distinct and in order.
THEOREM MissionsStayInOrder == Spec => []MissionInOrder
<1>1. DInv => MissionInOrder
  BY DEF DInv, PairInv, InOrder, MissionInOrder
<1> QED
  BY <1>1, DaemonInvariant, PTL

\* The geometry of a complete mission is the one its submitter would plan with,
\* through every session of the submitter and every reply.
THEOREM CompleteMissionsArrive == Spec => []CompleteMissionIsHandedOver
<1>1. DInv => CompleteMissionIsHandedOver
  BY DEF DInv, PairInv, HandedOver, CompleteMissionIsHandedOver
<1> QED
  BY <1>1, DaemonInvariant, PTL

\* Submitter and vehicle (on_system_status_changed) lose each other only on the
\* two detours, however many vehicles there are and however late replies come.
THEOREM DetoursOnly == Spec => AgreeUnlessDetour
<1>1. DInv /\ [Next]_vars =>
        [\A v \in DOMAIN vehicles :
            /\ ActiveOnGround(v)' /\ ~ActiveOnGround(v)
                  => vehicles[v].system_status \in Neither
            /\ InactiveInFlight(v)' /\ ~InactiveInFlight(v)
                  => vehicles[v].system_status \notin Grounded]_vars
  <2> SUFFICES ASSUME DInv, [Next]_vars, NEW v \in DOMAIN vehicles
               PROVE  /\ ActiveOnGround(v)' /\ ~ActiveOnGround(v)
                            => vehicles[v].system_status \in Neither
                      /\ InactiveInFlight(v)' /\ ~InactiveInFlight(v)
                            => vehicles[v].system_status \notin Grounded
    OBVIOUS
  <2>1. Tracks(v)
    BY DaemonStep
  <2>2. vehicles[v].system_status \in Status /\ submitters[v].state \in {"active", "inactive"}
    BY DEF DInv, PairInv, VehicleState, ChainInv, Submitter
  <2> QED
    BY <2>1, <2>2
       DEF Tracks, After, Activates, Deactivates, ActiveOnGround, InactiveInFlight,
           Status, Grounded, Flying, Neither
<1> QED
  BY <1>1, DaemonInvariant, PTL DEF Spec, AgreeUnlessDetour

-----------------------------------------------------------------------------
(***************************************************************************)
(* Nobody ends the flight it is flying.  The flights found are ended       *)
(* before a flight is taken, and an answered call may be repeated, so ends *)
(* of other flights can still be pending then; the identifier of the       *)
(* flight taken is new, so none of them ends that one.                     *)
(***************************************************************************)
\* Until a late reply, no call of s ends its own flight, and none will.
Apart(s) ==
    ~s.late /\ s.flight # None =>
        /\ s.active_flights = {}
        /\ \A c \in Call : Ends(c) /\ Pending(s, c) => c.flight # s.flight

\* Every submitter of the daemon is.
AllApart == \A v \in DOMAIN submitters : Apart(submitters[v])

\* A run of the chain ends nothing but what is listed.
LEMMA HeldApart ==
    ASSUME NEW s, NEW t, Held(s, t), Apart(s)
    PROVE  Apart(t)
<1>1. ASSUME ~t.late, t.flight # None, NEW c \in Call, Ends(c), Pending(t, c)
      PROVE  c.flight # t.flight
  <2>1. /\ t.flight = s.flight /\ s.active_flights = {}
        /\ \A d \in Call : Ends(d) /\ Pending(s, d) => d.flight # s.flight
    BY <1>1 DEF Held, Apart
  <2>2. Pending(s, c)
    BY <1>1, <2>1 DEF Held, Ends, Pending
  <2> QED
    BY <1>1, <2>1, <2>2
<1>2. ~t.late /\ t.flight # None => t.active_flights = {}
  BY DEF Held, Apart
<1> QED
  BY <1>1, <1>2 DEF Apart

\* r has no call that s has not, and is about the same flight, if any.
LEMMA LessApart ==
    ASSUME NEW s, NEW r, Apart(s), s.late => r.late, r.flight \in {None, s.flight},
           s.active_flights = {} => r.active_flights = {},
           \A c \in Call : Ends(c) /\ Pending(r, c) => Pending(s, c)
    PROVE  Apart(r)
BY DEF Apart

\* Running a callback takes a call away.
LEMMA TakenApart ==
    ASSUME NEW s \in Submitter, Apart(s), NEW c \in Call, Pending(s, c)
    PROVE  Apart(Taken(s, c))
<1>1. Took(s, Taken(s, c), c)
  BY TakenFields
<1>2. \A d \in Call : Pending(Taken(s, c), d) => Pending(s, d)
  BY <1>1 DEF Took, Pending
<1> QED
  BY <1>1, <1>2, LessApart DEF Took

\* An undisturbed submitter that waits for a search or a creation has no flight.
LEMMA NoFlightYet ==
    ASSUME NEW s, ChainInv(s), NEW c \in Call, Pending(s, c), ~Taken(s, c).late,
           c.op = "active_flights" \/ Creates(c)
    PROVE  s.flight = None /\ (Creates(c) => s.active_flights = {})
<1>1. c.op # "end_flight" /\ c.op \in PlainOp /\ c.flight = None
  BY CallShape DEF Creates, PlainOp, FlightOp
<1>2. ~s.late /\ ~c.stale
  BY <1>1, FreshReplyFindsActive
<1>3. c = Fresh(c.op, c.flight)
  BY <1>2, CallShape
<1>4. Waits(s, c.op) > 0 /\ Single(s) /\ Ordered(s)
  BY <1>1, <1>2, <1>3 DEF Pending, Waits, ChainInv, Session
<1>5. CASE c.op = "active_flights"
  <2>1. s.active_flights = None /\ None # {}
    BY <1>4, <1>5, FlightsAssumption DEF Ordered
  <2> QED
    BY <1>4, <1>5, <2>1 DEF Ordered, Creates
<1>6. CASE c.op = "create_flight_by_point"
  <2>1. s.requested["create_flight_plan"]
    BY <1>1, <1>4, <1>6 DEF Single, StageOf
  <2> QED
    BY <1>4, <1>6, <2>1 DEF Ordered
<1>7. CASE c.op = "submit_flight_plan"
  <2>1. s.requested["submit_flight_plan"]
    BY <1>1, <1>4, <1>7 DEF Single, StageOf
  <2> QED
    BY <1>4, <1>7, <2>1 DEF Ordered
<1> QED
  BY <1>5, <1>6, <1>7 DEF Creates

\* Every callback that succeeds; a flight is taken under a name no call has.
LEMMA SuccessApart ==
    ASSUME NEW s, ChainInv(s), Apart(s), NEW c \in Call, Pending(s, c), NEW x,
           Creates(c) => x \in Flights \ Named(s),
           c.op = "active_flights" => x \in SUBSET Flights
    PROVE  Apart(Success(Taken(s, c), c, x))
<1> DEFINE r == Taken(s, c)
<1>1. s \in Submitter /\ r \in Submitter /\ Apart(r)
  BY TakenFields, TakenApart DEF ChainInv, Took
<1>2. /\ r.flight = s.flight /\ r.active_flights = s.active_flights
      /\ \A d \in Call : Pending(r, d) => Pending(s, d)
  <2>1. Took(s, r, c)
    BY <1>1, TakenFields
  <2> QED
    BY <1>1, <2>1 DEF Took, Pending
<1>3. CASE c.op = "authorization"
  BY <1>1, <1>3, AuthorizationStoredHeld, HeldApart DEF Success
<1>4. CASE c.op = "pilot_id"
  BY <1>1, <1>4, PilotIdStoredHeld, HeldApart DEF Success
<1>5. CASE c.op = "active_flights"
  <2> DEFINE q == [r EXCEPT !.active_flights = x]
  <2>1. Success(r, c, x) = RequestEndActiveFlights(q)
    BY <1>5 DEF Success, HandleRequestActiveFlightsFinished
  <2>2. q \in Submitter /\ q.late = r.late /\ q.flight = r.flight
    BY <1>1, <1>5 DEF Submitter
  <2>3. ~r.late => s.flight = None
    BY <1>5, NoFlightYet
  <2> HIDE DEF q
  <2>4. Apart(q)
    BY <1>2, <2>2, <2>3 DEF Apart
  <2> QED
    BY <2>1, <2>2, <2>4, RequestEndActiveFlightsHeld, HeldApart
<1>6. CASE c.op = "create_flight_plan"
  BY <1>1, <1>6, PlanStoredHeld, HeldApart DEF Success
<1>7. CASE Creates(c)
  <2> DEFINE q == [r EXCEPT !.flight = x]
  <2>1. Success(r, c, x) = RequestStartFlightComms(RequestMonitorTraffic(q))
    BY <1>7 DEF Success, Creates, HandleRequestSubmitFlightPlanFinished
  <2>2. /\ q \in Submitter /\ q.late = r.late /\ q.flight = x /\ q.calls = r.calls
        /\ q.active_flights = r.active_flights
    BY <1>1, <1>7 DEF Submitter
  <2>3. ~r.late => s.active_flights = {}
    BY <1>7, NoFlightYet
  <2>4. \A d \in Call : Pending(s, d) => d.flight # x
    BY <1>7 DEF Named, Pending
  <2> HIDE DEF q
  <2>5. Apart(q)
    BY <1>2, <2>2, <2>3, <2>4 DEF Apart, Pending
  <2> QED
    BY <1>7, <2>1, <2>2, <2>5, FlightStoredHeld, HeldApart
<1>8. CASE c.op = "end_active_flights"
  <2> DEFINE left == r.active_flights \ {c.flight}
             q == [r EXCEPT !.active_flights = left]
  <2>1. Success(r, c, x) \in {q, RequestCreateFlightPlan(q)}
    BY <1>8 DEF Success, HandleRequestEndActiveFlightFinished
  <2>2. r.active_flights # None
    BY <1>1, <1>8, TakenFields DEF ChainInv, ListKept, Took, Pending
  <2>3. /\ q \in Submitter /\ q.late = r.late /\ q.flight = r.flight /\ q.calls = r.calls
        /\ r.active_flights = {} => q.active_flights = {}
    BY <1>1, <2>2 DEF Submitter
  <2> HIDE DEF q
  <2>4. Apart(q)
    BY <1>1, <2>3, LessApart DEF Pending
  <2> QED
    BY <2>1, <2>3, <2>4, RequestCreateFlightPlanHeld, HeldApart
<1>9. CASE c.op = "traffic_monitoring"
  <2> DEFINE q == [r EXCEPT !.traffic_monitor = c.flight]
  <2>1. Success(r, c, x) = q
    BY <1>9 DEF Success, HandleRequestMonitorTrafficFinished
  <2>2. /\ q.late = r.late /\ q.flight = r.flight /\ q.calls = r.calls
        /\ q.active_flights = r.active_flights
    BY <1>1 DEF Submitter
  <2> HIDE DEF q
  <2> QED
    BY <1>1, <2>1, <2>2, LessApart DEF Pending
<1>10. CASE c.op = "start_flight_comms"
  <2> DEFINE q == [r EXCEPT !.encryption_key = c.flight]
  <2>1. Success(r, c, x) = q
    BY <1>10 DEF Success, HandleRequestStartFlightCommsFinished
  <2>2. /\ q.late = r.late /\ q.flight = r.flight /\ q.calls = r.calls
        /\ q.active_flights = r.active_flights
    BY <1>1 DEF Submitter
  <2> HIDE DEF q
  <2> QED
    BY <1>1, <2>1, <2>2, LessApart DEF Pending
<1>11. CASE c.op = "end_flight"
  BY <1>1, <1>11 DEF Success
<1> QED
  BY <1>3, <1>4, <1>5, <1>6, <1>7, <1>8, <1>9, <1>10, <1>11 DEF Creates, Call, PlainOp, FlightOp

\* Every callback that fails.
LEMMA FailureApart ==
    ASSUME NEW s, ChainInv(s), Apart(s), NEW c \in Call, Pending(s, c)
    PROVE  Apart(Failed(Taken(s, c), c))
<1> DEFINE r == Taken(s, c)
           t == Failed(r, c)
<1>1. r \in Submitter /\ Apart(r)
  BY TakenFields, TakenApart DEF ChainInv, Took
<1> HIDE DEF r
<1>2. /\ t.late = r.late /\ t.flight = r.flight /\ t.calls = r.calls
      /\ t.active_flights = r.active_flights
  BY <1>1 DEF Failed, Submitter
<1> HIDE DEF t
<1>3. Apart(t)
  BY <1>1, <1>2, LessApart DEF Pending
<1> QED
  BY <1>3 DEF t, r

\* A position, an activation, a mission.
LEMMA SubmittedApart ==
    ASSUME NEW s, ChainInv(s), Apart(s), NEW g
    PROVE  Apart(Submitted(s)) /\ Apart(Activated(s)) /\ Apart(WithMissionGeometry(s, g))
<1> DEFINE p == [s EXCEPT !.current_position = TRUE]
           a == [s EXCEPT !.state = "active"]
           m == [s EXCEPT !.mission_geometry = g]
<1>1. s \in Submitter
  BY DEF ChainInv
<1>2. /\ p \in Submitter /\ p.late = s.late /\ p.flight = s.flight /\ p.calls = s.calls
      /\ p.active_flights = s.active_flights
  BY <1>1 DEF Submitter
<1>3. /\ a \in Submitter /\ a.late = s.late /\ a.flight = s.flight /\ a.calls = s.calls
      /\ a.active_flights = s.active_flights
  BY <1>1 DEF Submitter
<1>4. /\ m.late = s.late /\ m.flight = s.flight /\ m.calls = s.calls
      /\ m.active_flights = s.active_flights
  BY <1>1 DEF Submitter
<1>5. /\ Submitted(s) \in {p, RequestAuthorization(p)}
      /\ Activated(s) = RequestAuthorization(a) /\ WithMissionGeometry(s, g) = m
  BY DEF Submitted, Activated, WithMissionGeometry
<1> HIDE DEF p, a, m
<1>6. Apart(p) /\ Apart(a) /\ Apart(m)
  BY <1>2, <1>3, <1>4, LessApart DEF Pending
<1> QED
  BY <1>2, <1>3, <1>5, <1>6, RequestAuthorizationHeld, HeldApart

\* After a change of status the submitter is new, active or without a flight.
LEMMA StatusApart ==
    ASSUME NEW s, ChainInv(s), Apart(s), NEW old, NEW new
    PROVE  Apart(OnSystemStatusChanged(s, old, new))
<1>1. Apart(Activated(s))
  BY SubmittedApart
<1>2. Apart(Deactivated(s))
  <2>1. CASE s.state = "inactive"
    BY <2>1 DEF Deactivated
  <2>2. CASE s.state # "inactive"
    <3> DEFINE r == Forgotten(s)
    <3>1. r \in Submitter /\ r.flight = None
      BY ForgottenFields
    <3> HIDE DEF r
    <3>2. Issued(r, "end_flight", s.flight).flight = None
      BY <3>1 DEF Issued, Submitter
    <3>3. Deactivated(s) \in {r, Issued(r, "end_flight", s.flight)}
      BY <2>2 DEF Deactivated, r
    <3>4. Deactivated(s).flight = None
      BY <3>1, <3>2, <3>3
    <3> QED
      BY <3>4 DEF Apart
  <2> QED
    BY <2>1, <2>2
<1> QED
  BY <1>1, <1>2 DEF OnSystemStatusChanged

\* A message leaves every submitter apart from its flight's end.
LEMMA MessageApart ==
    ASSUME DInv, AllApart, NEW v \in SystemId, Message(v)
    PROVE  AllApart' /\ open' = open
<1> DEFINE s == SubmitterOf(v)
<1>1. ChainInv(s)
  BY PairOf DEF PairInv
<1>2. Apart(s)
  BY DEF SubmitterOf, AllApart, NewSubmitter, Apart
<1>3. ASSUME NEW x, NEW t, Updated(v, x, t), Apart(t)
      PROVE  AllApart' /\ open' = open
  BY <1>3 DEF Updated, Set, AllApart
<1> HIDE DEF s
<1>4. CASE \E status \in Reported : Heartbeat(v, status)
  <2> PICK status \in Reported : Heartbeat(v, status)
    BY <1>4
  <2> DEFINE old == VehicleOf(v).system_status
             y == [VehicleOf(v) EXCEPT !.system_status = status]
             t == IF status = old THEN s ELSE OnSystemStatusChanged(s, old, status)
  <2>1. Updated(v, y, t)
    BY DEF Heartbeat, s
  <2>2. Apart(t)
    BY <1>1, <1>2, StatusApart
  <2> QED
    BY <1>3, <2>1, <2>2
<1>5. CASE GlobalPositionInt(v)
  BY <1>1, <1>2, <1>3, <1>5, SubmittedApart DEF GlobalPositionInt, s
<1>6. CASE MissionClearAll(v)
  BY <1>2, <1>3, <1>6 DEF MissionClearAll, s
<1>7. CASE \E n \in 0 .. MaxMissionSize : MissionCount(v, n)
  BY <1>2, <1>3, <1>7 DEF MissionCount, s
<1>8. CASE \E seq \in 0 .. MaxSeq, type \in MissionType : MissionItem(v, seq, type)
  <2> PICK seq \in 0 .. MaxSeq, type \in MissionType : MissionItem(v, seq, type)
    BY <1>8
  <2> DEFINE new == HandleMsgMissionItem(VehicleOf(v).mission, seq, type)
             y == [VehicleOf(v) EXCEPT !.mission = new]
             t == IF Completes(VehicleOf(v).mission, seq)
                  THEN WithMissionGeometry(s, AsGeometry(new)) ELSE s
  <2>1. Updated(v, y, t)
    BY DEF MissionItem, s
  <2>2. Apart(t)
    BY <1>1, <1>2, SubmittedApart
  <2> QED
    BY <1>3, <2>1, <2>2
<1> QED
  BY <1>4, <1>5, <1>6, <1>7, <1>8 DEF Message

\* The call c of the submitter of w ends the flight f.
EndsAt(w, c, f) == Ends(c) /\ c.flight = f /\ Pending(submitters[w], c)

\* A reply leaves every submitter apart, and what it ends it was asked to end.
LEMMA ReplyApart ==
    ASSUME DInv, AllApart, NEW v \in DOMAIN submitters, Reply(v)
    PROVE  AllApart' /\ \A f \in open \ open' : \E c \in Call : EndsAt(v, c, f)
<1> PICK c \in Call : Succeeded(v, c) \/ CallFailed(v, c) \/ ReplyLost(v, c)
  BY DEF Reply
<1> DEFINE s == submitters[v]
<1>1. ChainInv(s) /\ Apart(s) /\ Pending(s, c)
  BY DEF DInv, PairInv, AllApart, Succeeded, CallFailed, ReplyLost
<1>2. ASSUME NEW x \in Payload(c)
      PROVE  /\ Creates(c) => x \in Flights \ Named(s)
             /\ c.op = "active_flights" => x \in SUBSET Flights
             /\ \A f \in open \ Served(c, x) : EndsAt(v, c, f)
  <2>1. Creates(c) => x \in Flights \ Named(s)
    BY <1>2 DEF Payload, Unused
  <2>2. c.op = "active_flights" => x \in SUBSET Flights
    BY <1>2 DEF Payload, Creates, DInv
  <2>3. ASSUME NEW f \in open \ Served(c, x) PROVE EndsAt(v, c, f)
    BY <1>1, <2>3 DEF Served, EndsAt
  <2> QED
    BY <2>1, <2>2, <2>3
<1>3. ASSUME NEW t, Apart(t), submitters' = [submitters EXCEPT ![v] = t]
      PROVE  AllApart'
  BY <1>3 DEF AllApart
<1> HIDE DEF s
<1>4. Apart(Failed(Taken(s, c), c))
  BY <1>1, FailureApart
<1>5. CASE Succeeded(v, c)
  <2> PICK x \in Payload(c) :
        /\ submitters' = [submitters EXCEPT ![v] = Success(Taken(s, c), c, x)]
        /\ open' = Served(c, x)
    BY <1>5 DEF Succeeded, s
  <2>1. Apart(Success(Taken(s, c), c, x))
    BY <1>1, <1>2, SuccessApart
  <2> QED
    BY <1>2, <1>3, <2>1
<1>6. CASE CallFailed(v, c)
  BY <1>3, <1>4, <1>6 DEF CallFailed, s
<1>7. CASE ReplyLost(v, c)
  <2>1. submitters' = [submitters EXCEPT ![v] = Failed(Taken(s, c), c)]
    BY <1>7 DEF ReplyLost, s
  <2>2. PICK x \in Payload(c) : open' = Served(c, x)
    BY <1>7 DEF ReplyLost
  <2> QED
    BY <1>2, <1>3, <1>4, <2>1, <2>2
<1> QED
  BY <1>5, <1>6, <1>7

\* No step ends the flight of an undisturbed submitter but its end_time and
\* the replies to other submitters.
LEMMA ApartStep ==
    ASSUME DInv, AllApart, [Next]_vars
    PROVE  /\ AllApart'
           /\ \A v \in DOMAIN submitters :
                 submitters[v].flight \in open \ open' /\ ~submitters[v].late =>
                     \/ Expire(submitters[v].flight)
                     \/ \E w \in DOMAIN submitters \ {v}, c \in Call :
                           EndsAt(w, c, submitters[v].flight)
<1>1. CASE \E f \in Flights : Expire(f)
  BY <1>1 DEF Expire, AllApart
<1>2. CASE UNCHANGED vars
  BY <1>2 DEF vars, AllApart
<1>3. CASE \E v \in SystemId : Message(v)
  BY <1>3, MessageApart
<1>4. CASE \E w \in DOMAIN submitters : Reply(w)
  <2> PICK w \in DOMAIN submitters : Reply(w)
    BY <1>4
  <2>1. AllApart' /\ \A f \in open \ open' : \E c \in Call : EndsAt(w, c, f)
    BY ReplyApart
  <2>2. ASSUME NEW v \in DOMAIN submitters,
               submitters[v].flight \in open \ open', ~submitters[v].late
        PROVE  \E u \in DOMAIN submitters \ {v}, c \in Call : EndsAt(u, c, submitters[v].flight)
    <3>1. PICK c \in Call : EndsAt(w, c, submitters[v].flight)
      BY <2>1, <2>2
    <3>2. submitters[v].flight # None
      BY <2>2, FlightsAssumption DEF DInv
    <3>3. w # v
      BY <2>2, <3>1, <3>2 DEF EndsAt, AllApart, Apart
    <3> QED
      BY <3>1, <3>3
  <2> QED
    BY <2>1, <2>2
<1> QED
  BY <1>1, <1>2, <1>3, <1>4 DEF Next

\* A submitter never ends the flight it is flying: the flight of a submitter no
\* late reply has reached lasts to its end_time or until another vehicle's
\* submitter, which found it among the pilot's flights, ends it.
THEOREM NobodyEndsItsOwnFlight ==
    Spec => [][\A v \in DOMAIN submitters :
                  submitters[v].flight \in open \ open' /\ ~submitters[v].late =>
                      \/ Expire(submitters[v].flight)
                      \/ \E w \in DOMAIN submitters \ {v}, c \in Call :
                            EndsAt(w, c, submitters[v].flight)]_vars
<1>1. Init => AllApart
  BY DEF Init, AllApart
<1>2. DInv /\ AllApart /\ [Next]_vars => AllApart'
  BY ApartStep
<1>3. DInv /\ AllApart /\ [Next]_vars =>
        [\A v \in DOMAIN submitters :
            submitters[v].flight \in open \ open' /\ ~submitters[v].late =>
                \/ Expire(submitters[v].flight)
                \/ \E w \in DOMAIN submitters \ {v}, c \in Call :
                      EndsAt(w, c, submitters[v].flight)]_vars
  BY ApartStep
<1> QED
  BY <1>1, <1>2, <1>3, DaemonInvariant, PTL DEF Spec

\* The flight of an active submitter lasts to its end_time when there is one
\* vehicle, as the documentation has it; with two it does not.
THEOREM FlightsLastForOneVehicle ==
    ASSUME \A v, w \in SystemId : v = w
    PROVE  Spec => FlightLastsWhileActive
<1>1. Init => AllApart
  BY DEF Init, AllApart
<1>2. DInv /\ AllApart /\ [Next]_vars => AllApart'
  BY ApartStep
<1>3. DInv /\ AllApart /\ [Next]_vars =>
        [\A v \in DOMAIN submitters :
            LET s == submitters[v] IN
            s.state = "active" /\ s.flight \in open \ open'
                => s.late \/ submitters'[v].late \/ Expire(s.flight)]_vars
  <2> SUFFICES ASSUME DInv, AllApart, [Next]_vars, NEW v \in DOMAIN submitters,
                      submitters[v].flight \in open \ open', ~submitters[v].late
               PROVE  Expire(submitters[v].flight)
    OBVIOUS
  <2>1. DOMAIN submitters \ {v} = {}
    BY DEF DInv
  <2> QED
    BY <2>1, ApartStep
<1> QED
  BY <1>1, <1>2, <1>3, DaemonInvariant, PTL DEF Spec, FlightLastsWhileActive
=============================================================================
