--------------------------- MODULE CommandsProofs ---------------------------
(***************************************************************************)
(* What is proved of a run of the airmap program, for every command,       *)
(* whatever it finds, for a scenario of any number of participants, and    *)
(* whatever the order of the answers.                                      *)
(*                                                                         *)
(* First the tables, one command at a time: each calls only what it knows  *)
(* how to go on from, and the calls of all but one make a tree.  From that *)
(* alone CInv is inductive.  Then the tests, which the credentials need: a *)
(* command that sends a token refuses a token file it cannot use.          *)
(***************************************************************************)
EXTENDS Commands, FiniteSetTheorems, WellFoundedInduction, TLAPS

\* What a command may call.
Ops == DOMAIN Methods \cup
           {"render_briefing", "rerender_briefing", "render_final_briefing", "timer",
            "broker.connect", "traffic.monitor", "telemetry.submit_updates"}

Outcomes == {"success", "error", "abort"}

\* A command knows what to do with the answer to each of its calls.
WellFormed(d) ==
    /\ d.starts \subseteq Call
    /\ \A c \in d.starts : c[2] \in DOMAIN d.then
    /\ DOMAIN d.then \subseteq Ops
    /\ \A op \in DOMAIN d.then : d.then[op] \subseteq DOMAIN d.then \cup Outcomes
    /\ d.tolerates \subseteq {"status.get_status_by_polygon"}

\* What is called at all.
Called(d) ==
    {op \in DOMAIN d.then :
        (\E c \in d.starts : c[2] = op) \/ \E o \in DOMAIN d.then : op \in d.then[o]}

\* The calls of a command make a tree: each is started, or follows one other.
Tree(d) ==
    \A o \in Called(d) : \A n \in d.then[o] \ Outcomes :
        /\ \A c \in d.starts : c[2] # n
        /\ \A q \in Called(d) : n \in d.then[q] => q = o

-----------------------------------------------------------------------------
LEMMA ServiceNames ==
    /\ DOMAIN Advisory = {"advisory.for_id", "advisory.search", "advisory.report_weather"}
    /\ DOMAIN Aircrafts = {"aircrafts.manufacturers", "aircrafts.models", "aircrafts.model_for_id"}
    /\ DOMAIN Airspaces = {"airspaces.search", "airspaces.for_ids"}
    /\ DOMAIN Authenticator =
          {"authenticator.authenticate_with_password", "authenticator.authenticate_anonymously",
           "authenticator.renew_authentication"}
    /\ DOMAIN FlightPlans =
          {"flight_plans.for_id", "flight_plans.create_by_polygon", "flight_plans.update",
           "flight_plans.delete_", "flight_plans.render_briefing", "flight_plans.submit"}
    /\ DOMAIN Flights =
          {"flights.search", "flights.for_id", "flights.create_flight_by_point",
           "flights.create_flight_by_path", "flights.create_flight_by_polygon",
           "flights.end_flight", "flights.delete_flight",
           "flights.start_flight_communications", "flights.end_flight_communications"}
    /\ DOMAIN Pilots =
          {"pilots.authenticated", "pilots.for_id", "pilots.aircrafts", "pilots.update_for_id",
           "pilots.update_aircraft", "pilots.start_verify_pilot_phone_for_id",
           "pilots.add_aircraft", "pilots.delete_aircraft"}
    /\ DOMAIN RuleSets =
          {"rulesets.search", "rulesets.for_id", "rulesets.fetch_rules",
           "rulesets.evaluate_rulesets", "rulesets.evaluate_flight_plan"}
    /\ DOMAIN Status =
          {"status.get_status_by_point", "status.get_status_by_path", "status.get_status_by_polygon"}
BY DEF Advisory, Aircrafts, Airspaces, Authenticator, FlightPlans, Flights, Pilots, RuleSets, Status

LEMMA MethodNames ==
    DOMAIN Methods =
        DOMAIN Advisory \cup DOMAIN Aircrafts \cup DOMAIN Airspaces \cup DOMAIN Authenticator
        \cup DOMAIN FlightPlans \cup DOMAIN Flights \cup DOMAIN Pilots \cup DOMAIN RuleSets
        \cup DOMAIN Status
BY DEF Methods

LEMMA SingleFacts ==
    ASSUME NEW tests, NEW op \in Ops
    PROVE  WellFormed(Single(tests, op)) /\ Tree(Single(tests, op))
<1>1. PICK t : t = [o \in {op} |-> {"success"}]
  OBVIOUS
<1>2. PICK d : d = Single(tests, op)
  OBVIOUS
<1>3. d.starts = {<<1, op>>} /\ d.then = t /\ d.tolerates = {}
  BY <1>1, <1>2 DEF Single, Command
<1>4. DOMAIN t = {op} /\ t[op] = {"success"}
  BY <1>1
<1>5. <<1, op>> \in Call
  BY ParticipantsAssumption DEF Call, Ops
<1> QED
  BY <1>2, <1>3, <1>4, <1>5 DEF WellFormed, Tree, Outcomes, Called

\* One call after the other.
Steps(steps, n) ==
    /\ DOMAIN steps = 1 .. n /\ Len(steps) = n
    /\ \A i \in 1 .. n : steps[i] \in Ops
    /\ \A i, j \in 1 .. n : steps[i] = steps[j] => i = j

LEMMA ChainFacts ==
    ASSUME NEW steps, NEW n \in Nat \ {0}, Steps(steps, n)
    PROVE  /\ DOMAIN Chain(steps) = {steps[i] : i \in 1 .. n}
           /\ \A i \in 1 .. n :
                 Chain(steps)[steps[i]] = IF i = n THEN {"success"} ELSE {steps[i + 1]}
<1>1. DOMAIN Chain(steps) = {steps[i] : i \in 1 .. n}
  BY DEF Chain, Steps
<1>2. ASSUME NEW i \in 1 .. n
      PROVE  Chain(steps)[steps[i]] = IF i = n THEN {"success"} ELSE {steps[i + 1]}
  <2>1. (CHOOSE j \in DOMAIN steps : steps[j] = steps[i]) = i
    BY DEF Steps
  <2> QED
    BY <2>1 DEF Chain, Steps
<1> QED
  BY <1>1, <1>2

LEMMA NoOutcomes == \A op \in Ops : op \notin Outcomes
BY ServiceNames, MethodNames DEF Ops, Outcomes

LEMMA ChainCommandFacts ==
    ASSUME NEW tests, NEW steps, NEW n \in Nat \ {0}, Steps(steps, n)
    PROVE  LET d == Command(tests, {steps[1]}, Chain(steps)) IN WellFormed(d) /\ Tree(d)
<1>1. PICK t : t = Chain(steps)
  OBVIOUS
<1>2. PICK d : d = Command(tests, {steps[1]}, Chain(steps))
  OBVIOUS
<1>3. d.starts = {<<1, steps[1]>>} /\ d.then = t /\ d.tolerates = {}
  BY <1>1, <1>2 DEF Command
<1>4. DOMAIN t = {steps[i] : i \in 1 .. n}
  BY <1>1 DEF Chain, Steps
<1>4a. ASSUME NEW i \in 1 .. n
       PROVE  t[steps[i]] = IF i = n THEN {"success"} ELSE {steps[i + 1]}
  BY <1>1, ChainFacts, Zenon
<1>5. 1 \in 1 .. n /\ steps[1] \in DOMAIN t /\ steps[1] \in Ops
  BY <1>4 DEF Steps
<1>6. <<1, steps[1]>> \in Call
  BY <1>5, ParticipantsAssumption DEF Call, Ops
<1>7. DOMAIN t \subseteq Ops
  BY <1>4 DEF Steps
<1>8. ASSUME NEW i \in 1 .. n PROVE t[steps[i]] \subseteq DOMAIN t \cup Outcomes
  <2>1. t[steps[i]] = IF i = n THEN {"success"} ELSE {steps[i + 1]}
    BY <1>4a
  <2>2. CASE i = n
    BY <2>1, <2>2 DEF Outcomes
  <2>3. CASE i # n
    <3>1. i + 1 \in 1 .. n
      BY <2>3
    <3>2. steps[i + 1] \in DOMAIN t
      BY <1>4, <3>1
    <3> QED
      BY <2>1, <2>3, <3>2
  <2> QED
    BY <2>2, <2>3
<1>9. WellFormed(d)
  BY <1>3, <1>4, <1>5, <1>6, <1>7, <1>8 DEF WellFormed
<1>10. ASSUME NEW o \in DOMAIN t, NEW m \in t[o] \ Outcomes
       PROVE  m # steps[1] /\ \A q \in DOMAIN t : m \in t[q] => q = o
  <2>1. PICK i \in 1 .. n : o = steps[i]
    BY <1>4
  <2>2. i # n /\ m = steps[i + 1] /\ i + 1 \in 1 .. n
    <3>1. t[steps[i]] = IF i = n THEN {"success"} ELSE {steps[i + 1]}
      BY <1>4a
    <3> QED
      BY <1>10, <2>1, <3>1 DEF Outcomes
  <2>3. m # steps[1]
    BY <1>5, <2>1, <2>2 DEF Steps
  <2>4. ASSUME NEW q \in DOMAIN t, m \in t[q] PROVE q = o
    <3>1. PICK j \in 1 .. n : q = steps[j]
      BY <1>4
    <3>2. j # n /\ m = steps[j + 1] /\ j + 1 \in 1 .. n
      <4>1. t[steps[j]] = IF j = n THEN {"success"} ELSE {steps[j + 1]}
        BY <1>4a
      <4> QED
        BY <1>10, <2>4, <3>1, <4>1 DEF Outcomes
    <3>3. i + 1 = j + 1
      BY <2>2, <3>2 DEF Steps
    <3> QED
      BY <2>1, <3>1, <3>3
  <2> QED
    BY <2>3, <2>4
<1>11. Called(d) \subseteq DOMAIN t
  BY <1>3 DEF Called
<1>12. Tree(d)
  BY <1>3, <1>10, <1>11 DEF Tree
<1> QED
  BY <1>2, <1>9, <1>12

LEMMA OpNames ==
    /\ {"advisory.for_id", "advisory.search", "advisory.report_weather", "aircrafts.models",
        "airspaces.search", "airspaces.for_ids", "authenticator.authenticate_with_password",
        "authenticator.authenticate_anonymously", "authenticator.renew_authentication"} \subseteq Ops
    /\ {"flight_plans.create_by_polygon", "flight_plans.update", "flight_plans.delete_",
        "flight_plans.render_briefing", "flight_plans.submit", "flights.create_flight_by_point",
        "flights.create_flight_by_polygon", "flights.end_flight", "flights.delete_flight",
        "flights.start_flight_communications", "flights.end_flight_communications"} \subseteq Ops
    /\ {"pilots.authenticated", "pilots.for_id", "pilots.aircrafts", "pilots.add_aircraft",
        "rulesets.search", "rulesets.for_id", "rulesets.fetch_rules", "rulesets.evaluate_rulesets",
        "rulesets.evaluate_flight_plan", "status.get_status_by_point",
        "status.get_status_by_polygon"} \subseteq Ops
    /\ {"render_briefing", "rerender_briefing", "render_final_briefing", "timer", "broker.connect",
        "traffic.monitor", "telemetry.submit_updates"} \subseteq Ops
<1>1. DOMAIN Methods \subseteq Ops
  BY DEF Ops
<1>2. /\ DOMAIN Advisory \subseteq Ops /\ DOMAIN Aircrafts \subseteq Ops
      /\ DOMAIN Airspaces \subseteq Ops /\ DOMAIN Authenticator \subseteq Ops
      /\ DOMAIN FlightPlans \subseteq Ops /\ DOMAIN Flights \subseteq Ops
      /\ DOMAIN Pilots \subseteq Ops /\ DOMAIN RuleSets \subseteq Ops
      /\ DOMAIN Status \subseteq Ops
  BY <1>1, MethodNames
<1> QED
  BY <1>2, ServiceNames DEF Ops

\* The commands of one call.
SingleCommands ==
    {"aircraft-models", "create-flight", "end-flight", "end-flight-comms", "start-flight-comms",
     "evaluate", "fetch-rules", "get-advisories", "get-status", "plan-flight", "query-rulesets",
     "search-airspace", "render-briefing", "submit-flight", "report-weather"}

LEMMA SingleTable ==
    ASSUME NEW c \in SingleCommands, NEW f0
    PROVE  \E tests : \E op \in Ops : Table(c, f0) = Single(tests, op)
<1>1. CASE c = "aircraft-models"
  <2>1. Table(c, f0) = AircraftModels(f0)
    BY <1>1 DEF Table
  <2> QED
    BY <2>1, OpNames DEF AircraftModels
<1>2. CASE c = "create-flight"
  <2>1. Table(c, f0) = CreateFlight(f0)
    BY <1>2 DEF Table
  <2> QED
    BY <2>1, OpNames DEF CreateFlight
<1>3. CASE c = "end-flight"
  <2>1. Table(c, f0) = EndFlight(f0)
    BY <1>3 DEF Table
  <2> QED
    BY <2>1, OpNames DEF EndFlight
<1>4. CASE c = "end-flight-comms"
  <2>1. Table(c, f0) = EndFlightComms(f0)
    BY <1>4 DEF Table
  <2> QED
    BY <2>1, OpNames DEF EndFlightComms
<1>5. CASE c = "start-flight-comms"
  <2>1. Table(c, f0) = StartFlightComms(f0)
    BY <1>5 DEF Table
  <2> QED
    BY <2>1, OpNames DEF StartFlightComms
<1>6. CASE c = "evaluate"
  <2>1. Table(c, f0) = Evaluate(f0)
    BY <1>6 DEF Table
  <2> QED
    BY <2>1, OpNames DEF Evaluate
<1>7. CASE c = "fetch-rules"
  <2>1. Table(c, f0) = FetchRules(f0)
    BY <1>7 DEF Table
  <2> QED
    BY <2>1, OpNames DEF FetchRules
<1>8. CASE c = "get-advisories"
  <2>1. Table(c, f0) = GetAdvisories(f0)
    BY <1>8 DEF Table
  <2> QED
    BY <2>1, OpNames DEF GetAdvisories
<1>9. CASE c = "get-status"
  <2>1. Table(c, f0) = GetStatus(f0)
    BY <1>9 DEF Table
  <2> QED
    BY <2>1, OpNames DEF GetStatus
<1>10. CASE c = "plan-flight"
  <2>1. Table(c, f0) = PlanFlight(f0)
    BY <1>10 DEF Table
  <2> QED
    BY <2>1, OpNames DEF PlanFlight
<1>11. CASE c = "query-rulesets"
  <2>1. Table(c, f0) = QueryRuleSets(f0)
    BY <1>11 DEF Table
  <2> QED
    BY <2>1, OpNames DEF QueryRuleSets, ByIdOrOutline
<1>12. CASE c = "search-airspace"
  <2>1. Table(c, f0) = SearchAirspace(f0)
    BY <1>12 DEF Table
  <2> QED
    BY <2>1, OpNames DEF SearchAirspace, ByIdOrOutline
<1>13. CASE c = "render-briefing"
  <2>1. Table(c, f0) = RenderBriefing(f0)
    BY <1>13 DEF Table
  <2> QED
    BY <2>1, OpNames DEF RenderBriefing, OfFlightPlan
<1>14. CASE c = "submit-flight"
  <2>1. Table(c, f0) = SubmitFlight(f0)
    BY <1>14 DEF Table
  <2> QED
    BY <2>1, OpNames DEF SubmitFlight, OfFlightPlan
<1>15. CASE c = "report-weather"
  <2>1. Table(c, f0) = ReportWeather(f0)
    BY <1>15 DEF Table
  <2> QED
    BY <2>1, OpNames DEF ReportWeather
<1> QED
  BY <1>1, <1>2, <1>3, <1>4, <1>5, <1>6, <1>7, <1>8, <1>9, <1>10, <1>11, <1>12, <1>13, <1>14, <1>15 DEF SingleCommands

LEMMA SuiteSteps == Steps(Suite, 11)
<1>1. DOMAIN Suite = 1 .. 11 /\ Len(Suite) = 11
  BY DEF Suite
<1>2. /\ Suite[1] = "pilots.authenticated" /\ Suite[2] = "pilots.aircrafts"
      /\ Suite[3] = "flight_plans.create_by_polygon" /\ Suite[4] = "render_briefing"
      /\ Suite[5] = "flight_plans.submit" /\ Suite[6] = "rerender_briefing"
      /\ Suite[7] = "timer" /\ Suite[8] = "render_final_briefing"
      /\ Suite[9] = "flight_plans.delete_" /\ Suite[10] = "flights.end_flight"
      /\ Suite[11] = "flights.delete_flight"
  BY DEF Suite
<1>3. \A i \in 1 .. 11 : i \in {1, 2, 3, 4, 5, 6, 7, 8, 9, 10, 11}
  OBVIOUS
<1>4. \A i \in 1 .. 11 : Suite[i] \in Ops
  BY <1>2, <1>3, OpNames
<1>5. \A i, j \in 1 .. 11 : Suite[i] = Suite[j] => i = j
  BY <1>2, <1>3
<1> QED
  BY <1>1, <1>4, <1>5 DEF Steps

\* The commands of a chain of calls.
IsChain(d) ==
    \E tests, steps : \E n \in Nat \ {0} :
        Steps(steps, n) /\ d = Command(tests, {steps[1]}, Chain(steps))

LEMMA ChainTable ==
    ASSUME NEW c \in {"add-aircraft", "pilot", "test"}, NEW f0
    PROVE  IsChain(Table(c, f0))
<1>0. 2 \in Nat \ {0}
  OBVIOUS
<1>1. ASSUME NEW a \in Ops, NEW b \in Ops, a # b
      PROVE  Steps(<<a, b>>, 2) /\ <<a, b>>[1] = a
  BY <1>1 DEF Steps
<1>2. CASE c = "add-aircraft"
  <2>1. Table(c, f0) = AddAircraft(f0)
    BY <1>2 DEF Table
  <2>2. PICK steps : steps = <<"pilots.authenticated", "pilots.add_aircraft">>
    OBVIOUS
  <2>3. Steps(steps, 2) /\ steps[1] = "pilots.authenticated"
    BY <1>1, <2>2, OpNames
  <2>4. \E tests : Table(c, f0) = Command(tests, {steps[1]}, Chain(steps))
    BY <2>1, <2>2, <2>3 DEF AddAircraft
  <2>5. PICK tests : Table(c, f0) = Command(tests, {steps[1]}, Chain(steps))
    BY <2>4
  <2> QED
    BY <1>0, <2>3, <2>5, Zenon DEF IsChain
<1>3. CASE c = "pilot"
  <2>1. Table(c, f0) = Pilot(f0)
    BY <1>3 DEF Table
  <2>2. PICK profile : profile = IF f0["pilot-id"] = "unset" THEN "pilots.authenticated"
                                 ELSE "pilots.for_id"
    OBVIOUS
  <2>3. PICK steps : steps = <<profile, "pilots.aircrafts">>
    OBVIOUS
  <2>4. profile \in Ops /\ profile # "pilots.aircrafts"
    BY <2>2, OpNames
  <2>5. Steps(steps, 2) /\ steps[1] = profile
    BY <1>1, <2>3, <2>4, OpNames
  <2>6. \E tests : Table(c, f0) = Command(tests, {steps[1]}, Chain(steps))
    BY <2>1, <2>2, <2>3, <2>5 DEF Pilot
  <2>7. PICK tests : Table(c, f0) = Command(tests, {steps[1]}, Chain(steps))
    BY <2>6
  <2> QED
    BY <1>0, <2>5, <2>7, Zenon DEF IsChain
<1>4. CASE c = "test"
  <2>1. Table(c, f0) = TestSuite(f0)
    BY <1>4 DEF Table
  <2>2. \E tests : Table(c, f0) = Command(tests, {Suite[1]}, Chain(Suite))
    BY <2>1 DEF TestSuite
  <2>3. PICK tests : Table(c, f0) = Command(tests, {Suite[1]}, Chain(Suite))
    BY <2>2
  <2>4. 11 \in Nat \ {0}
    OBVIOUS
  <2> QED
    BY <2>3, <2>4, SuiteSteps, Zenon DEF IsChain
<1> QED
  BY <1>2, <1>3, <1>4

\* The commands that call nothing, or make one call whose answer leads to no other.
LEMMA LeafFacts ==
    ASSUME NEW d, NEW ops \in SUBSET Ops,
           d.starts \subseteq {<<1, op>> : op \in ops}, d.tolerates = {},
           DOMAIN d.then = ops, \A op \in ops : d.then[op] \subseteq Outcomes
    PROVE  WellFormed(d) /\ Tree(d)
<1>1. \A op \in Ops : <<1, op>> \in Call
  BY ParticipantsAssumption DEF Call, Ops
<1> QED
  BY <1>1 DEF WellFormed, Tree, Called

LEMMA LeafTable ==
    ASSUME NEW c \in {"init", "version", "daemon", "monitor-mids", "monitor-traffic", "login"},
           NEW f0
    PROVE  WellFormed(Table(c, f0)) /\ Tree(Table(c, f0))
<1> DEFINE Leaf(d, ops) ==
        /\ d.starts \subseteq {<<1, op>> : op \in ops} /\ d.tolerates = {}
        /\ DOMAIN d.then = ops /\ \A op \in ops : d.then[op] \subseteq Outcomes
<1>1. SUFFICES \E ops \in SUBSET Ops : Leaf(Table(c, f0), ops)
  BY LeafFacts
<1>2. ASSUME NEW d, NEW tests, d = Command(tests, {}, <<>>) \/ d = Serving(tests, {}, <<>>)
      PROVE  \E ops \in SUBSET Ops : Leaf(d, ops)
  <2>1. PICK e : e = Command(tests, {}, <<>>)
    OBVIOUS
  <2>2. e.starts = {} /\ e.tolerates = {} /\ e.then = <<>>
    BY <2>1 DEF Command
  <2>3. d = e \/ d = [e EXCEPT !.serves = TRUE]
    BY <1>2, <2>1, Zenon DEF Serving
  <2>4. d.starts = {} /\ d.tolerates = {} /\ d.then = <<>>
    BY <2>1, <2>2, <2>3 DEF Command
  <2> QED
    BY <2>4
<1>3. ASSUME NEW d, NEW tests, NEW op \in Ops,
             d = Serving(tests, {op}, [o \in {op} |-> {}])
      PROVE  \E ops \in SUBSET Ops : Leaf(d, ops)
  <2>1. PICK t : t = [o \in {op} |-> {}]
    OBVIOUS
  <2>2. d.starts = {<<1, op>>} /\ d.tolerates = {} /\ d.then = t
    BY <1>3, <2>1 DEF Command, Serving
  <2>3. DOMAIN t = {op} /\ t[op] = {}
    BY <2>1
  <2>4. Leaf(d, {op})
    BY <2>2, <2>3
  <2> QED
    BY <2>4
<1>4. CASE c = "init"
  <2>1. Table(c, f0) = Initialize(f0)
    BY <1>4 DEF Table
  <2>2. \E tests : Table(c, f0) = Command(tests, {}, <<>>)
    BY <2>1 DEF Initialize
  <2> QED
    BY <1>2, <2>2
<1>5. CASE c = "version"
  <2>1. Table(c, f0) = Version
    BY <1>5 DEF Table
  <2>2. \E tests : Table(c, f0) = Command(tests, {}, <<>>)
    BY <2>1 DEF Version
  <2> QED
    BY <1>2, <2>2
<1>6. CASE c = "daemon"
  <2>1. Table(c, f0) = Daemon(f0)
    BY <1>6 DEF Table
  <2>2. \E tests : Table(c, f0) = Serving(tests, {}, <<>>)
    BY <2>1 DEF Daemon
  <2> QED
    BY <1>2, <2>2
<1>7. CASE c = "monitor-mids"
  <2>1. Table(c, f0) = MonitorMids(f0)
    BY <1>7 DEF Table
  <2>2. \E tests : Table(c, f0) = Serving(tests, {"broker.connect"}, [o \in {"broker.connect"} |-> {}])
    BY <2>1 DEF MonitorMids
  <2> QED
    BY <1>3, <2>2, OpNames
<1>8. CASE c = "monitor-traffic"
  <2>1. Table(c, f0) = MonitorTraffic(f0)
    BY <1>8 DEF Table
  <2>2. \E tests : Table(c, f0) = Serving(tests, {"traffic.monitor"}, [o \in {"traffic.monitor"} |-> {}])
    BY <2>1 DEF MonitorTraffic
  <2> QED
    BY <1>3, <2>2, OpNames
<1>9. CASE c = "login"
  <2>1. Table(c, f0) = Login(f0)
    BY <1>9 DEF Table
  <2>2. PICK after \in {{"success"}, {"error"}} :
            after = IF f0["new-token-file"] = "ok" THEN {"success"} ELSE {"error"}
    OBVIOUS
  <2> DEFINE ops == {"authenticator.renew_authentication",
                     "authenticator.authenticate_with_password",
                     "authenticator.authenticate_anonymously"}
  <2>3. PICK started \in SUBSET ops :
            started = CASE f0["renew"] = "ok"     -> {"authenticator.renew_authentication"}
                        [] f0["oauth"] = "ok"     -> {"authenticator.authenticate_with_password"}
                        [] f0["anonymous"] = "ok" -> {"authenticator.authenticate_anonymously"}
                        [] OTHER                  -> {}
    OBVIOUS
  <2>4. PICK t : t = [o \in ops |-> after]
    OBVIOUS
  <2>5. PICK d : d = Login(f0)
    OBVIOUS
  <2>6. d.starts = {<<1, op>> : op \in started} /\ d.tolerates = {} /\ d.then = t
    BY <2>2, <2>3, <2>4, <2>5 DEF Login, Command
  <2>7. DOMAIN t = ops /\ \A op \in ops : t[op] = after
    BY <2>4
  <2>8. Leaf(d, ops)
    BY <2>2, <2>6, <2>7 DEF Outcomes
  <2> QED
    BY <2>1, <2>5, <2>8, OpNames
<1> QED
  BY <1>4, <1>5, <1>6, <1>7, <1>8, <1>9

ScenarioOps ==
    Logins \cup {"status.get_status_by_polygon", "flights.create_flight_by_polygon",
                 "traffic.monitor", "flights.start_flight_communications", "timer",
                 "flights.end_flight_communications", "flights.end_flight"}

\* What a scenario does, login being the one its participants use.
IsScenario(d, login) ==
    /\ d.starts = {<<p, login>> : p \in 1 .. MaxParticipants}
    /\ d.tolerates = {"status.get_status_by_polygon"}
    /\ DOMAIN d.then = ScenarioOps
    /\ \A op \in Logins :
          d.then[op] = {"status.get_status_by_polygon", "flights.create_flight_by_polygon"}
    /\ d.then["flights.create_flight_by_polygon"] =
          {"traffic.monitor", "flights.start_flight_communications", "timer"}
    /\ d.then["timer"] = {"flights.end_flight_communications"}
    /\ d.then["flights.end_flight_communications"] = {"flights.end_flight"}
    /\ d.then["flights.end_flight"] = {"success"}
    /\ \A op \in {"status.get_status_by_polygon", "traffic.monitor",
                   "flights.start_flight_communications"} : d.then[op] = {}

LEMMA ScenarioTable ==
    ASSUME NEW f0
    PROVE  \E login \in Logins : IsScenario(Table("simulate-scenario", f0), login)
<1>1. PICK d : d = SimulateScenario(f0)
  OBVIOUS
<1>2. Table("simulate-scenario", f0) = d
  BY <1>1 DEF Table
<1>3. PICK login \in Logins :
          login = IF f0["user"] = "ok" THEN "authenticator.authenticate_with_password"
                  ELSE "authenticator.authenticate_anonymously"
  BY DEF Logins
<1>4. d.starts = {<<p, login>> : p \in 1 .. MaxParticipants}
  BY <1>1, <1>3 DEF SimulateScenario
<1>5. d.tolerates = {"status.get_status_by_polygon"}
  BY <1>1 DEF SimulateScenario
<1>6. PICK t : t = [op \in ScenarioOps |->
                      CASE op \in Logins ->
                             {"status.get_status_by_polygon", "flights.create_flight_by_polygon"}
                        [] op = "flights.create_flight_by_polygon" ->
                             {"traffic.monitor", "flights.start_flight_communications", "timer"}
                        [] op = "timer" -> {"flights.end_flight_communications"}
                        [] op = "flights.end_flight_communications" -> {"flights.end_flight"}
                        [] op = "flights.end_flight" -> {"success"}
                        [] OTHER -> {}]
  OBVIOUS
<1>7. d.then = t
  BY <1>1, <1>6 DEF SimulateScenario, ScenarioOps, Logins
<1>8. DOMAIN t = ScenarioOps
  BY <1>6
<1>9. \A op \in Logins :
          t[op] = {"status.get_status_by_polygon", "flights.create_flight_by_polygon"}
  <2>1. ASSUME NEW op \in Logins
        PROVE  t[op] = {"status.get_status_by_polygon", "flights.create_flight_by_polygon"}
    <3>1. op \in ScenarioOps /\ op \notin {"flights.create_flight_by_polygon", "timer",
              "flights.end_flight_communications", "flights.end_flight"}
      BY DEF ScenarioOps, Logins
    <3> QED
      BY <1>6, <3>1
  <2> QED
    BY <2>1
<1>10. /\ t["flights.create_flight_by_polygon"] =
             {"traffic.monitor", "flights.start_flight_communications", "timer"}
       /\ t["timer"] = {"flights.end_flight_communications"}
       /\ t["flights.end_flight_communications"] = {"flights.end_flight"}
       /\ t["flights.end_flight"] = {"success"}
  BY <1>6 DEF ScenarioOps, Logins
<1>11. \A op \in {"status.get_status_by_polygon", "traffic.monitor",
                  "flights.start_flight_communications"} : t[op] = {}
  BY <1>6 DEF ScenarioOps, Logins
<1> QED
  BY <1>2, <1>3, <1>4, <1>5, <1>7, <1>8, <1>9, <1>10, <1>11 DEF IsScenario

LEMMA ScenarioFacts ==
    ASSUME NEW d, NEW login \in Logins, IsScenario(d, login)
    PROVE  WellFormed(d) /\ Tree(d)
<1>1. ScenarioOps \subseteq Ops
  BY OpNames DEF ScenarioOps, Logins
<1>2. d.starts \subseteq Call /\ \A c \in d.starts : c[2] = login
  <2>1. login \in Ops
    BY <1>1 DEF ScenarioOps
  <2> QED
    BY <2>1 DEF IsScenario, Call, Ops
<1>3. PICK t : t = d.then
  OBVIOUS
<1>4. WellFormed(d)
  <2>1. ASSUME NEW op \in ScenarioOps PROVE t[op] \subseteq ScenarioOps \cup Outcomes
    BY <1>3 DEF IsScenario, ScenarioOps, Logins, Outcomes
  <2> QED
    BY <1>1, <1>2, <1>3, <2>1 DEF WellFormed, IsScenario, ScenarioOps
<1>5. \A o \in ScenarioOps : login \notin t[o] /\ (\A m \in Logins : m \notin t[o])
  BY <1>3 DEF IsScenario, ScenarioOps, Logins
<1>6. Called(d) \subseteq ScenarioOps /\ \A o \in Called(d) : o \in Logins => o = login
  BY <1>2, <1>3, <1>5 DEF Called, IsScenario
<1>7. ASSUME NEW o \in Called(d), NEW n \in t[o] \ Outcomes, NEW q \in Called(d), n \in t[q]
      PROVE  q = o
  <2>1. /\ o \in {login, "flights.create_flight_by_polygon", "timer",
                   "flights.end_flight_communications"}
        /\ q \in {login, "flights.create_flight_by_polygon", "timer",
                   "flights.end_flight_communications"}
    <3>1. ASSUME NEW x \in Called(d), n \in t[x]
          PROVE  x \in {login, "flights.create_flight_by_polygon", "timer",
                        "flights.end_flight_communications"}
      BY <1>3, <1>6, <1>7, <3>1 DEF IsScenario, ScenarioOps, Outcomes
    <3> QED
      BY <1>7, <3>1
  <2> QED
    BY <1>3, <1>7, <2>1 DEF IsScenario, Logins
<1>8. Tree(d)
  BY <1>2, <1>3, <1>5, <1>6, <1>7 DEF Tree
<1> QED
  BY <1>4, <1>8

LEMMA TelemetryTable == ASSUME NEW f0 PROVE WellFormed(Table("simulate-telemetry", f0))
<1> DEFINE op == "telemetry.submit_updates"
<1>1. PICK t : t = [o \in {op} |-> IF f0["frequency"] = "empty" THEN {"abort"} ELSE {o}]
  OBVIOUS
<1>2. PICK d : d = SimulateTelemetry(f0)
  OBVIOUS
<1>3. Table("simulate-telemetry", f0) = d
  BY <1>2 DEF Table
<1>4. d.starts = {<<1, op>>} /\ d.tolerates = {} /\ d.then = t
  BY <1>1, <1>2 DEF SimulateTelemetry, Serving, Command
<1>5. DOMAIN t = {op} /\ t[op] \in {{"abort"}, {op}}
  BY <1>1
<1>6. op \in Ops /\ <<1, op>> \in Call
  BY OpNames, ParticipantsAssumption DEF Call
<1> QED
  BY <1>3, <1>4, <1>5, <1>6 DEF WellFormed, Outcomes

\* No command calls what it cannot, and all but one make no call twice.
LEMMA TableFacts ==
    ASSUME NEW c \in CommandName, NEW f0
    PROVE  /\ WellFormed(Table(c, f0))
           /\ c # "simulate-telemetry" => Tree(Table(c, f0))
<1>1. CASE c \in SingleCommands
  <2>1. PICK tests : \E op \in Ops : Table(c, f0) = Single(tests, op)
    BY <1>1, SingleTable
  <2>2. PICK op \in Ops : Table(c, f0) = Single(tests, op)
    BY <2>1
  <2> QED
    BY <2>2, SingleFacts
<1>2. CASE c \in {"add-aircraft", "pilot", "test"}
  <2>1. IsChain(Table(c, f0))
    BY <1>2, ChainTable
  <2>2. PICK tests, steps : \E n \in Nat \ {0} :
            Steps(steps, n) /\ Table(c, f0) = Command(tests, {steps[1]}, Chain(steps))
    BY <2>1, Zenon DEF IsChain
  <2>3. PICK n \in Nat \ {0} :
            Steps(steps, n) /\ Table(c, f0) = Command(tests, {steps[1]}, Chain(steps))
    BY <2>2
  <2> QED
    BY <2>3, ChainCommandFacts
<1>3. CASE c \in {"init", "version", "daemon", "monitor-mids", "monitor-traffic", "login"}
  BY <1>3, LeafTable
<1>4. CASE c = "simulate-scenario"
  BY <1>4, ScenarioTable, ScenarioFacts
<1>5. CASE c = "simulate-telemetry"
  BY <1>5, TelemetryTable
<1> QED
  BY <1>1, <1>2, <1>3, <1>4, <1>5 DEF CommandName, Registered, SingleCommands

-----------------------------------------------------------------------------
\* The calls that were made.
Seen == calls \cup silent \cup done \cup failed

Typed ==
    /\ command \in CommandName
    /\ f \in Inputs(command)
    /\ phase \in {"start", "loop", "over"}
    /\ Seen \subseteq Call
    /\ simulating \in BOOLEAN
    /\ stop \in {"none", "success", "error"}
    /\ interrupted \in BOOLEAN
    /\ exit \in {"none", "0", "1", "abort"}
    /\ phase = "over" <=> exit # "none"

\* Nothing is called before the command runs.
Unstarted == phase = "start" => Seen = {} /\ stop = "none"

\* A call follows one of the same participant, unless its command starts with it.
Follows(c, o) ==
    /\ o \in DOMAIN Does.then
    /\ c[2] \in Does.then[o]
    /\ <<c[1], o>> \in done

Origin == \A c \in Seen : c \in Does.starts \/ \E o \in Ops : Follows(c, o)

Owned == \A c \in Seen : \E s \in Does.starts : s[1] = c[1]

\* A call under way was not made before.
Once == command # "simulate-telemetry" => \A c \in calls : c \notin silent \cup done \cup failed

\* The participants that have a key.
Keyed == {p \in 1 .. MaxParticipants : <<p, "flights.start_flight_communications">> \in done}

Counted ==
    /\ key_counter = IF command = "simulate-scenario" THEN Cardinality(Keyed) ELSE 0
    /\ simulating => command = "simulate-scenario" /\ key_counter = MaxParticipants

\* What stop() was given says how the calls went.
Stopped ==
    /\ stop # "error" => \A c \in failed : c[2] \in Does.tolerates
    /\ stop = "success" /\ ~ interrupted =>
          \E c \in done : c[2] \in DOMAIN Does.then /\ "success" \in Does.then[c[2]]
    /\ exit = "0" /\ stop # "none" => stop = "success"

CInv == Typed /\ Unstarted /\ Origin /\ Owned /\ Once /\ Counted /\ Stopped

\* What the tables say of the command that runs.
LEMMA DoesFacts ==
    ASSUME CInv
    PROVE  /\ WellFormed(Does)
           /\ command # "simulate-telemetry" => Tree(Does)
           /\ \A c \in Seen : c[2] \in Called(Does) /\ c[2] \in Ops /\ c = <<c[1], c[2]>>
                             /\ c[1] \in 1 .. MaxParticipants
<1>1. command \in CommandName
  BY DEF CInv, Typed
<1>2. WellFormed(Does) /\ (command # "simulate-telemetry" => Tree(Does))
  BY <1>1, TableFacts, Zenon DEF Does
<1>3. ASSUME NEW c \in Seen
      PROVE  /\ c[2] \in Called(Does) /\ c[2] \in Ops /\ c = <<c[1], c[2]>>
             /\ c[1] \in 1 .. MaxParticipants
  <2>1. c[2] \in Ops /\ c = <<c[1], c[2]>> /\ c[1] \in 1 .. MaxParticipants
    BY DEF CInv, Typed, Call, Ops
  <2>2. CASE c \in Does.starts
    BY <1>2, <2>2, <2>1 DEF WellFormed, Called
  <2>3. CASE \E o \in Ops : Follows(c, o)
    <3>1. PICK o \in DOMAIN Does.then : c[2] \in Does.then[o]
      BY <2>3 DEF Follows
    <3>2. c[2] \in DOMAIN Does.then
      BY <1>2, <2>1, <3>1, NoOutcomes DEF WellFormed
    <3> QED
      BY <2>1, <3>1, <3>2 DEF Called
  <2> QED
    BY <2>1, <2>2, <2>3 DEF CInv, Origin
<1> QED
  BY <1>2, <1>3

LEMMA InitCalls == Init => CInv
<1> SUFFICES ASSUME Init PROVE CInv
  OBVIOUS
<1>1. Seen = {} /\ done = {} /\ failed = {}
  BY DEF Init, Seen
<1>2. Typed /\ Unstarted
  BY <1>1 DEF Init, Typed, Unstarted
<1>3. Origin /\ Owned /\ Once
  BY <1>1 DEF Init, Origin, Owned, Once
<1>4. Counted
  <2>1. Keyed = {}
    BY <1>1 DEF Keyed
  <2>2. Cardinality(Keyed) = 0
    BY <2>1, FS_EmptySet
  <2> QED
    BY <2>2 DEF Init, Counted
<1>5. Stopped
  BY <1>1 DEF Init, Stopped
<1> QED
  BY <1>2, <1>3, <1>4, <1>5 DEF CInv

LEMMA RunCalls == ASSUME CInv, Run PROVE CInv'
<1>1. Does' = Does
  BY DEF Run, Does
<1>2. Seen = {} /\ stop = "none" /\ phase = "start" /\ exit = "none"
  BY DEF CInv, Typed, Unstarted, Run
<1>3. calls = {} /\ silent = {} /\ done = {} /\ failed = {}
  BY <1>2 DEF Seen
<1>4. /\ calls' \in {{}, Does.starts}
      /\ phase' \in {"loop", "over"} /\ exit' \in {"none", "0", "1", "abort"}
      /\ phase' = "over" <=> exit' # "none"
  BY <1>2, <1>3 DEF Run, Act, Enter, Exit
<1>5. silent' = {} /\ done' = {} /\ failed' = {} /\ stop' = "none" /\ interrupted' = interrupted
      /\ key_counter' = key_counter /\ simulating' = simulating /\ command' = command /\ f' = f
  BY <1>2, <1>3 DEF Run
<1>6. Seen' \subseteq Does.starts
  BY <1>4, <1>5 DEF Seen
<1>7. Typed'
  <2>1. Does.starts \subseteq Call
    BY DoesFacts DEF WellFormed
  <2> QED
    BY <1>4, <1>5, <1>6, <2>1 DEF CInv, Typed
<1>8. Unstarted' /\ Origin' /\ Owned' /\ Once'
  BY <1>1, <1>4, <1>5, <1>6 DEF Unstarted, Origin, Owned, Once
<1>9. Counted'
  <2>1. Keyed' = Keyed
    BY <1>3, <1>5 DEF Keyed
  <2> QED
    BY <1>5, <2>1 DEF CInv, Counted
<1>10. Stopped'
  BY <1>1, <1>5 DEF Stopped
<1> QED
  BY <1>7, <1>8, <1>9, <1>10 DEF CInv

LEMMA KeyedFacts ==
    /\ IsFiniteSet(Keyed) /\ Cardinality(Keyed) \in 0 .. MaxParticipants
    /\ Cardinality(Keyed) = MaxParticipants => Keyed = 1 .. MaxParticipants
<1>1. IsFiniteSet(1 .. MaxParticipants) /\ Cardinality(1 .. MaxParticipants) = MaxParticipants
  BY ParticipantsAssumption, FS_Interval
<1>2. Keyed \subseteq 1 .. MaxParticipants
  BY DEF Keyed
<1>3. /\ IsFiniteSet(Keyed) /\ Cardinality(Keyed) <= MaxParticipants
      /\ Cardinality(Keyed) = MaxParticipants => Keyed = 1 .. MaxParticipants
  BY <1>1, <1>2, FS_Subset
<1>4. Cardinality(Keyed) \in Nat
  BY <1>3, FS_CardinalityType
<1> QED
  BY <1>3, <1>4, ParticipantsAssumption

LEMMA SucceedCalls ==
    ASSUME CInv, NEW p, NEW op, <<p, op>> \in calls, phase = "loop", stop = "none",
           Succeed(p, op), UNCHANGED <<command, f, interrupted>>
    PROVE  CInv'
<1>1. Does' = Does
  BY DEF Does
<1>2. PICK c : c = <<p, op>>
  OBVIOUS
<1>3. c \in calls /\ c \in Seen /\ c[1] = p /\ c[2] = op
  BY <1>2 DEF Seen
<1>4. op \in Called(Does) /\ op \in Ops /\ p \in 1 .. MaxParticipants /\ op \in DOMAIN Does.then
  BY <1>3, DoesFacts DEF Called
<1>5. PICK next : next = Does.then[op]
  OBVIOUS
<1>6. next \subseteq DOMAIN Does.then \cup Outcomes /\ DOMAIN Does.then \subseteq Ops
  BY <1>4, <1>5, DoesFacts DEF WellFormed
<1>7. PICK new : new = {<<p, n>> : n \in next \ Outcomes}
  OBVIOUS
<1>8. /\ calls' = (calls \ {c}) \cup new
      /\ done' = done \cup {c}
      /\ silent' = silent /\ failed' = failed
  BY <1>2, <1>5, <1>7 DEF Succeed, Outcomes
<1>9. Seen' = Seen \cup new
  BY <1>3, <1>8 DEF Seen
<1>10. ASSUME NEW x \in new
       PROVE  x \in Call /\ x[1] = p /\ x[2] \in next \ Outcomes /\ x[2] \in Ops
  <2>1. PICK n \in next \ Outcomes : x = <<p, n>>
    BY <1>7
  <2>2. n \in Ops
    BY <1>6
  <2> QED
    BY <1>4, <2>1, <2>2 DEF Call, Ops
<1>11. /\ stop' \in {"none", "success", "error"}
       /\ stop' = "success" => "success" \in next
       /\ exit' \in {"none", "abort"} /\ phase' \in {"loop", "over"}
       /\ phase' = "over" <=> exit' # "none"
  <2>1. exit = "none"
    BY DEF CInv, Typed
  <2>2. stop' = CASE "success" \in next -> "success"
                  [] "error" \in next   -> "error"
                  [] OTHER              -> stop
    BY <1>5 DEF Succeed
  <2>3. IF "abort" \in next THEN Exit("abort") ELSE UNCHANGED <<phase, exit>>
    BY <1>5 DEF Succeed
  <2>4. (phase' = "over" /\ exit' = "abort") \/ (phase' = "loop" /\ exit' = "none")
    BY <2>1, <2>3 DEF Exit
  <2> QED
    BY <2>2, <2>4
<1>12. Typed'
  <2>1. simulating' \in BOOLEAN
    BY DEF CInv, Typed, Succeed, CollectKey
  <2> QED
    BY <1>9, <1>10, <1>11, <2>1 DEF CInv, Typed
<1>13. Unstarted'
  BY <1>11 DEF Unstarted
<1>14. Origin'
  <2>1. ASSUME NEW x \in Seen PROVE (x \in Does.starts \/ \E o \in Ops : Follows(x, o))'
    <3>1. CASE x \in Does.starts
      BY <1>1, <3>1
    <3>2. CASE \E o \in Ops : Follows(x, o)
      BY <1>1, <1>8, <3>2 DEF Follows
    <3> QED
      BY <3>1, <3>2 DEF CInv, Origin
  <2>2. ASSUME NEW x \in new PROVE Follows(x, op)'
    BY <1>1, <1>2, <1>4, <1>5, <1>8, <1>10 DEF Follows
  <2> QED
    BY <1>4, <1>9, <2>1, <2>2 DEF Origin
<1>15. Owned'
  BY <1>1, <1>3, <1>9, <1>10 DEF CInv, Owned
<1>16. Once'
  <2>1. SUFFICES ASSUME command # "simulate-telemetry", NEW x \in calls'
                 PROVE  x \notin silent \cup failed \cup done \cup {c}
    BY <1>8 DEF Once
  <2>2. CASE x \in calls \ {c}
    BY <2>1, <2>2 DEF CInv, Once
  <2>3. CASE x \in new
    <3>1. SUFFICES ASSUME x \in Seen PROVE FALSE
      BY <1>3 DEF Seen
    <3>2. /\ \A s \in Does.starts : s[2] # x[2]
          /\ \A q \in Called(Does) : x[2] \in Does.then[q] => q = op
      BY <1>4, <1>5, <1>10, <2>1, <2>3, DoesFacts DEF Tree
    <3>3. PICK q \in Ops : Follows(x, q)
      BY <3>1, <3>2 DEF CInv, Origin
    <3>4. <<p, q>> \in done /\ x[2] \in Does.then[q]
      BY <1>10, <2>3, <3>3 DEF Follows
    <3>5. q \in Called(Does)
      <4>1. <<p, q>> \in Seen
        BY <3>4 DEF Seen
      <4> QED
        BY <4>1, DoesFacts
    <3>6. q = op
      BY <3>2, <3>4, <3>5
    <3> QED
      BY <1>2, <1>3, <2>1, <3>4, <3>6 DEF CInv, Once
  <2> QED
    BY <1>8, <2>1, <2>2, <2>3
<1>17. Counted'
  <2> DEFINE start == "flights.start_flight_communications"
  <2>1. /\ key_counter' = IF op = start /\ command = "simulate-scenario"
                          THEN key_counter + 1 ELSE key_counter
        /\ simulating' = (simulating \/ (command = "simulate-scenario" /\ key_counter' = MaxParticipants))
    BY DEF Succeed, CollectKey
  <2>2. CASE command # "simulate-scenario"
    <3>1. key_counter' = 0 /\ ~ simulating'
      BY <2>1, <2>2 DEF CInv, Counted
    <3> QED
      BY <2>2, <3>1 DEF Counted
  <2>3. CASE command = "simulate-scenario" /\ op # start
    <3>1. Keyed' = Keyed
      BY <1>2, <1>8, <2>3 DEF Keyed
    <3> QED
      BY <2>1, <2>3, <3>1 DEF CInv, Counted
  <2>4. CASE command = "simulate-scenario" /\ op = start
    <3>1. Keyed' = Keyed \cup {p} /\ p \notin Keyed /\ p \in 1 .. MaxParticipants
      BY <1>2, <1>3, <1>4, <1>8, <2>4 DEF CInv, Once, Keyed
    <3>2. Cardinality(Keyed') = Cardinality(Keyed) + 1
      BY <3>1, KeyedFacts, FS_AddElement
    <3>3. key_counter = Cardinality(Keyed) /\ key_counter' = Cardinality(Keyed')
      BY <2>1, <2>4, <3>2 DEF CInv, Counted
    <3>4. ~ simulating
      BY <2>4, <3>1, <3>3, KeyedFacts DEF CInv, Counted
    <3> QED
      BY <2>1, <2>4, <3>3, <3>4 DEF Counted
  <2> QED
    BY <2>2, <2>3, <2>4
<1>18. Stopped'
  <2>1. \A x \in failed' : x[2] \in Does'.tolerates
    BY <1>1, <1>8 DEF CInv, Stopped
  <2>2. stop' = "success" =>
            \E x \in done' : x[2] \in DOMAIN Does'.then /\ "success" \in Does'.then[x[2]]
    <3>1. c \in done'
      BY <1>8
    <3> QED
      BY <1>1, <1>3, <1>4, <1>5, <1>11, <3>1
  <2>3. exit' # "0"
    BY <1>11
  <2> QED
    BY <2>1, <2>2, <2>3 DEF Stopped
<1> QED
  BY <1>12, <1>13, <1>14, <1>15, <1>16, <1>17, <1>18 DEF CInv

LEMMA FailCalls ==
    ASSUME CInv, NEW p, NEW op, <<p, op>> \in calls, phase = "loop", stop = "none",
           Fail(p, op) \/ Drop(p, op), UNCHANGED <<command, f, interrupted>>
    PROVE  CInv'
<1>1. Does' = Does
  BY DEF Does
<1>2. PICK c : c = <<p, op>>
  OBVIOUS
<1>3. c \in calls /\ c[2] = op
  BY <1>2
<1>4. /\ calls' = calls \ {c} /\ done' = done
      /\ key_counter' = key_counter /\ simulating' = simulating
      /\ phase' = phase /\ exit' = exit
      /\ \/ /\ silent' = silent /\ failed' = failed \cup {c}
            /\ stop' = IF op \in Does.tolerates THEN stop ELSE "error"
         \/ silent' = silent \cup {c} /\ failed' = failed /\ stop' = stop
  BY <1>2 DEF Fail, Drop
<1>5. Seen' = Seen
  BY <1>3, <1>4 DEF Seen
<1>6. stop' \in {"none", "error"}
  BY <1>4
<1>7. Typed' /\ Unstarted'
  BY <1>4, <1>5, <1>6 DEF CInv, Typed, Unstarted
<1>8. Origin' /\ Owned'
  BY <1>1, <1>4, <1>5 DEF CInv, Origin, Owned, Follows
<1>9. Once'
  BY <1>4 DEF CInv, Once
<1>10. Counted'
  <2>1. Keyed' = Keyed
    BY <1>4 DEF Keyed
  <2> QED
    BY <1>4, <2>1 DEF CInv, Counted
<1>11. Stopped'
  <2>1. stop' # "error" => \A x \in failed' : x[2] \in Does'.tolerates
    BY <1>1, <1>3, <1>4 DEF CInv, Stopped
  <2>2. exit' # "0"
    BY <1>4 DEF CInv, Typed
  <2> QED
    BY <1>6, <2>1, <2>2 DEF Stopped
<1> QED
  BY <1>7, <1>8, <1>9, <1>10, <1>11 DEF CInv

LEMMA ReturnCalls ==
    ASSUME CInv, Interrupt \/ Return \/ UNCHANGED vars
    PROVE  CInv'
<1>1. /\ command' = command /\ f' = f /\ calls' = calls /\ silent' = silent /\ done' = done
      /\ failed' = failed /\ key_counter' = key_counter /\ simulating' = simulating
  BY DEF Interrupt, Return, vars
<1>2. Does' = Does /\ Seen' = Seen /\ Keyed' = Keyed
  BY <1>1 DEF Does, Seen, Keyed
<1>3. /\ Typed' /\ Unstarted'
  BY <1>1, <1>2 DEF CInv, Typed, Unstarted, Interrupt, Return, Exit, vars
<1>4. Origin' /\ Owned' /\ Once' /\ Counted'
  BY <1>1, <1>2 DEF CInv, Origin, Owned, Once, Counted, Follows
<1>5. Stopped'
  <2>1. CASE Interrupt
    BY <1>1, <1>2, <2>1 DEF CInv, Stopped, Interrupt, Typed
  <2>2. CASE Return
    BY <1>1, <1>2, <2>2 DEF CInv, Stopped, Return, Exit
  <2>3. CASE UNCHANGED vars
    BY <1>1, <1>2, <2>3 DEF CInv, Stopped, vars
  <2> QED
    BY <2>1, <2>2, <2>3
<1> QED
  BY <1>3, <1>4, <1>5 DEF CInv

LEMMA NextCalls == CInv /\ [Next]_vars => CInv'
<1> SUFFICES ASSUME CInv, [Next]_vars PROVE CInv'
  OBVIOUS
<1>1. CASE Run
  BY <1>1, RunCalls
<1>2. CASE Answered
  <2>1. PICK c \in calls : Reply(c[1], c[2])
    BY <1>2 DEF Answered
  <2>2. <<c[1], c[2]>> \in calls /\ phase = "loop" /\ stop = "none"
        /\ UNCHANGED <<command, f, interrupted>>
    BY <2>1 DEF Reply
  <2>3. Succeed(c[1], c[2]) \/ Fail(c[1], c[2]) \/ Drop(c[1], c[2])
    BY <2>1 DEF Reply
  <2> QED
    BY <2>2, <2>3, SucceedCalls, FailCalls
<1>3. CASE \E c \in calls : Stall(c[1], c[2])
  <2>1. PICK c \in calls : Stall(c[1], c[2])
    BY <1>3
  <2>2. <<c[1], c[2]>> \in calls /\ phase = "loop" /\ stop = "none"
        /\ UNCHANGED <<command, f, interrupted>> /\ Drop(c[1], c[2])
    BY <2>1 DEF Stall
  <2> QED
    BY <2>2, FailCalls
<1>4. CASE Interrupt \/ Return \/ UNCHANGED vars
  BY <1>4, ReturnCalls
<1> QED
  BY <1>1, <1>2, <1>3, <1>4 DEF Next

-----------------------------------------------------------------------------
(***************************************************************************)
(* Every run of the program keeps CInv: a call is one its command knows,   *)
(* it is the first of its chain or follows an answer to the same           *)
(* participant, and none is made twice; the key counter counts the         *)
(* participants whose key came; and the argument of stop() says how the    *)
(* calls went.  (The handlers of every command under cmds/airmap/cmd, with *)
(* answers in any order.)                                                  *)
(***************************************************************************)
THEOREM CallsFollowTheirTables == Spec => []CInv
BY InitCalls, NextCalls, PTL DEF Spec

\* The state of a run has its type: a scenario never counts more keys than it
\* has participants (Collector::key_counter_), although each answer adds one.
THEOREM CommandTypes == Spec => []TypeOK
<1>1. CInv => TypeOK
  <2> SUFFICES ASSUME CInv PROVE TypeOK
    OBVIOUS
  <2>1. key_counter \in 0 .. MaxParticipants
    BY KeyedFacts, ParticipantsAssumption DEF CInv, Counted
  <2>2. calls \subseteq Call /\ silent \subseteq Call /\ done \subseteq Call /\ failed \subseteq Call
    BY DEF CInv, Typed, Seen
  <2> QED
    BY <2>1, <2>2 DEF CInv, Typed, TypeOK
<1> QED
  BY <1>1, CallsFollowTheirTables, PTL

\* A command that ends with 0, no signal having come, reached the end of its
\* chain, and no call of it failed but the status a scenario logs: whatever the
\* command, the answers and their order (the stop() of every handler).
THEOREM ZeroIsEarned == Spec => []ZeroMeansDone
<1>1. CInv => ZeroMeansDone
  <2> SUFFICES ASSUME CInv, Finished, exit = "0" 
               PROVE  /\ \E c \in done : "success" \in Does.then[c[2]]
                      /\ \A c \in failed : c[2] = "status.get_status_by_polygon"
    BY DEF ZeroMeansDone
  <2>1. stop = "success" /\ ~ interrupted
    BY DEF CInv, Stopped, Finished
  <2> QED
    BY <2>1, DoesFacts DEF CInv, Stopped, WellFormed
<1> QED
  BY <1>1, CallsFollowTheirTables, PTL

\* What each step of the LAANC chain leads to.
LEMMA SuiteFacts ==
    ASSUME NEW f0
    PROVE  LET d == Table("test", f0)
           IN  /\ d.starts = {<<1, "pilots.authenticated">>}
               /\ \A op \in DOMAIN d.then :
                     /\ "success" \in d.then[op] => op = "flights.delete_flight"
                     /\ "flights.delete_flight" \in d.then[op] => op = "flights.end_flight"
                     /\ "flights.end_flight" \in d.then[op] => op = "flight_plans.delete_"
<1>1. PICK tests : Table("test", f0) = Command(tests, {Suite[1]}, Chain(Suite))
  BY DEF Table, TestSuite
<1>2. PICK t : t = Chain(Suite)
  OBVIOUS
<1>3. PICK d : d = Table("test", f0)
  OBVIOUS
<1>4. d.starts = {<<1, Suite[1]>>} /\ d.then = t
  BY <1>1, <1>2, <1>3 DEF Command
<1>5. Suite[1] = "pilots.authenticated" /\ Suite[9] = "flight_plans.delete_"
      /\ Suite[10] = "flights.end_flight" /\ Suite[11] = "flights.delete_flight"
  BY DEF Suite
<1>6. DOMAIN t = {Suite[i] : i \in 1 .. 11}
  BY <1>2, SuiteSteps DEF Chain, Steps
<1>7. ASSUME NEW i \in 1 .. 11
      PROVE  t[Suite[i]] = IF i = 11 THEN {"success"} ELSE {Suite[i + 1]}
  <2>1. 11 \in Nat \ {0}
    OBVIOUS
  <2> QED
    BY <1>2, <2>1, SuiteSteps, ChainFacts, Zenon
<1>8. ASSUME NEW i \in 1 .. 11
      PROVE  /\ "success" \in t[Suite[i]] => i = 11
             /\ Suite[11] \in t[Suite[i]] => i = 10
             /\ Suite[10] \in t[Suite[i]] => i = 9
  <2>1. \A j \in 1 .. 11 : Suite[j] # "success"
    BY SuiteSteps, NoOutcomes DEF Steps, Outcomes
  <2>2. CASE i = 11
    BY <1>7, <2>1, <2>2
  <2>3. CASE i # 11
    <3>1. i + 1 \in 1 .. 11 /\ t[Suite[i]] = {Suite[i + 1]}
      BY <1>7, <2>3
    <3>2. \A j \in 1 .. 11 : Suite[j] = Suite[i + 1] => j = i + 1
      BY <3>1, SuiteSteps DEF Steps
    <3> QED
      BY <2>1, <2>3, <3>1, <3>2
  <2> QED
    BY <2>2, <2>3
<1> QED
  BY <1>3, <1>4, <1>5, <1>6, <1>8

\* `airmap test` ends with 0 only if it deleted the flight plan, ended the
\* flight and deleted it, in that order (test/laanc.phoenix.cpp).
THEOREM TestLeavesNothing == Spec => []TestCleansUp
<1>1. CInv => TestCleansUp
  <2> SUFFICES ASSUME CInv, Finished, exit = "0", command = "test"
               PROVE  {<<1, "flight_plans.delete_">>, <<1, "flights.end_flight">>,
                       <<1, "flights.delete_flight">>} \subseteq done
    BY DEF TestCleansUp
  <2>1. PICK c \in done : c[2] \in DOMAIN Does.then /\ "success" \in Does.then[c[2]]
    BY DEF CInv, Stopped, Finished
  <2>2. /\ Does.starts = {<<1, "pilots.authenticated">>}
        /\ \A op \in DOMAIN Does.then :
              /\ "success" \in Does.then[op] => op = "flights.delete_flight"
              /\ "flights.delete_flight" \in Does.then[op] => op = "flights.end_flight"
              /\ "flights.end_flight" \in Does.then[op] => op = "flight_plans.delete_"
    BY SuiteFacts DEF Does
  <2>3. done \subseteq Seen
    BY DEF Seen
  <2>4. c = <<1, "flights.delete_flight">>
    BY <2>1, <2>2, <2>3, DoesFacts DEF CInv, Owned
  <2>5. <<1, "flights.end_flight">> \in done
    BY <2>1, <2>2, <2>3, <2>4 DEF CInv, Origin, Follows
  <2>6. <<1, "flight_plans.delete_">> \in done
    BY <2>2, <2>3, <2>5 DEF CInv, Origin, Follows
  <2> QED
    BY <2>1, <2>4, <2>5, <2>6
<1> QED
  BY <1>1, CallsFollowTheirTables, PTL

\* A scenario's simulator starts only when every participant has a flight and a
\* key, in whatever order the answers came: nobody is counted twice
\* (Collector::collect_key_for).
THEOREM ScenarioIsComplete == Spec => []SimulationHasEveryKey
<1>1. CInv => SimulationHasEveryKey
  <2> SUFFICES ASSUME CInv, simulating, NEW p \in 1 .. MaxParticipants
               PROVE  {<<p, "flights.create_flight_by_polygon">>,
                       <<p, "flights.start_flight_communications">>} \subseteq done
    BY DEF SimulationHasEveryKey
  <2>1. command = "simulate-scenario" /\ Cardinality(Keyed) = MaxParticipants
    BY DEF CInv, Counted
  <2>2. <<p, "flights.start_flight_communications">> \in done
    BY <2>1, KeyedFacts DEF Keyed
  <2>3. PICK login \in Logins : IsScenario(Does, login)
    BY <2>1, ScenarioTable DEF Does
  <2>4. PICK o \in Ops : Follows(<<p, "flights.start_flight_communications">>, o)
    <3>1. <<p, "flights.start_flight_communications">> \notin Does.starts
      BY <2>3 DEF IsScenario, Logins
    <3> QED
      BY <2>2, <3>1 DEF CInv, Origin, Seen
  <2>5. o = "flights.create_flight_by_polygon"
    BY <2>3, <2>4 DEF Follows, IsScenario, ScenarioOps, Logins
  <2> QED
    BY <2>2, <2>4, <2>5 DEF Follows
<1> QED
  BY <1>1, CallsFollowTheirTables, PTL

-----------------------------------------------------------------------------
(***************************************************************************)
(* Tests.  None of these leads to a start, so what was started passed all  *)
(* of them.                                                                *)
(***************************************************************************)
Leads == {"exit 1", "exit 0", "abort", "wait"}

Plain(tests) ==
    /\ \E S : tests \in Seq(S)
    /\ \A i \in DOMAIN tests : tests[i].leads \in Leads

Passed(tests) == \A i \in DOMAIN tests : ~ tests[i].fails

LEMMA Smallest ==
    ASSUME NEW T \in SUBSET Nat, T # {}
    PROVE  \E m \in T : \A k \in T : m <= k
<1>1. PICK R : R = {ss \in Nat \X Nat : ss[1] < ss[2]}
  OBVIOUS
<1>2. IsWellFoundedOn(R, Nat)
  BY <1>1, NatLessThanWellFounded DEF OpToRel
<1>3. PICK m \in T : \A k \in T : ~ (<<k, m>> \in R)
  BY <1>2, WFMin, Zenon
<1>4. ASSUME NEW k \in T PROVE m <= k
  <2>1. m \in Nat /\ k \in Nat /\ <<k, m>> \notin R
    BY <1>3
  <2>2. ~ (k < m)
    BY <1>1, <2>1
  <2> QED
    BY <2>1, <2>2
<1> QED
  BY <1>4

LEMMA VerdictFacts ==
    ASSUME NEW tests, Plain(tests), Verdict(tests) \in {"start", "undefined"}
    PROVE  Passed(tests)
<1>1. PICK failing : failing = {i \in DOMAIN tests : tests[i].fails}
  OBVIOUS
<1>2. SUFFICES failing = {}
  BY <1>1 DEF Passed
<1>3. SUFFICES ASSUME failing # {} PROVE FALSE
  OBVIOUS
<1>4. failing \subseteq Nat
  BY <1>1 DEF Plain
<1>5. \E i \in failing : \A j \in failing : i <= j
  BY <1>3, <1>4, Smallest
<1>6. PICK i : i = CHOOSE m \in failing : \A j \in failing : m <= j
  OBVIOUS
<1>7. i \in failing
  BY <1>5, <1>6
<1>8. Verdict(tests) = tests[i].leads
  BY <1>1, <1>3, <1>6 DEF Verdict
<1>9. tests[i].leads \in Leads
  BY <1>1, <1>7 DEF Plain
<1> QED
  BY <1>8, <1>9 DEF Leads

LEMMA CheckFacts ==
    ASSUME NEW fails \in BOOLEAN, NEW leads \in Leads
    PROVE  Plain(Check(fails, leads)) /\ (Passed(Check(fails, leads)) <=> ~ fails)
<1>1. PICK t : t = [fails |-> fails, leads |-> leads]
  OBVIOUS
<1>2. Check(fails, leads) = <<t>>
  BY <1>1 DEF Check
<1>3. t.fails = fails /\ t.leads = leads
  BY <1>1
<1>4. <<t>> \in Seq({t}) /\ DOMAIN <<t>> = {1} /\ <<t>>[1] = t
  OBVIOUS
<1> QED
  BY <1>2, <1>3, <1>4 DEF Plain, Passed

LEMMA AppendFacts ==
    ASSUME NEW a, NEW b, Plain(a), Plain(b)
    PROVE  Plain(a \o b) /\ (Passed(a \o b) <=> Passed(a) /\ Passed(b))
<1>1. PICK S, T : a \in Seq(S) /\ b \in Seq(T)
  BY DEF Plain
<1>2. a \in Seq(S \cup T) /\ b \in Seq(S \cup T)
  BY <1>1
<1>3. PICK s : s = a \o b
  OBVIOUS
<1>4. PICK m, n \in Nat : m = Len(a) /\ n = Len(b)
  BY <1>1
<1>5. DOMAIN a = 1 .. m /\ DOMAIN b = 1 .. n
  BY <1>1, <1>4
<1>6. s \in Seq(S \cup T) /\ DOMAIN s = 1 .. m + n
  BY <1>2, <1>3, <1>4
<1>7. \A i \in 1 .. m + n : s[i] = IF i <= m THEN a[i] ELSE b[i - m]
  BY <1>2, <1>3, <1>4
<1>8. \A i \in 1 .. m : i \in 1 .. m + n /\ s[i] = a[i]
  BY <1>7
<1>9. \A i \in 1 .. n : i + m \in 1 .. m + n /\ s[i + m] = b[i]
  BY <1>7
<1>10. ASSUME NEW i \in 1 .. m + n
       PROVE  (i \in 1 .. m /\ s[i] = a[i]) \/ (i - m \in 1 .. n /\ s[i] = b[i - m])
  BY <1>7
<1>11. Plain(s)
  BY <1>5, <1>6, <1>10 DEF Plain
<1>12. Passed(s) <=> Passed(a) /\ Passed(b)
  BY <1>5, <1>6, <1>8, <1>9, <1>10 DEF Passed
<1> QED
  BY <1>3, <1>11, <1>12

LEMMA EmptyFacts == Plain(<<>>) /\ Passed(<<>>)
BY DEF Plain, Passed

LEMMA TestFacts ==
    ASSUME NEW f0, NEW n
    PROVE  /\ Plain(Open(f0, n)) /\ (Passed(Open(f0, n)) <=> f0[n] # "missing")
           /\ Plain(Parse(f0, n)) /\ (Passed(Parse(f0, n)) <=> f0[n] # "malformed")
           /\ Plain(OpenLate(f0, n)) /\ (Passed(OpenLate(f0, n)) <=> f0[n] # "missing")
           /\ Plain(Given(f0, n)) /\ Plain(NotEmpty(f0, n)) /\ Plain(GivenNotEmpty(f0, n))
<1>1. ASSUME NEW v, NEW leads \in Leads
      PROVE  /\ Plain(Check(f0[n] = v, leads))
             /\ Passed(Check(f0[n] = v, leads)) <=> f0[n] # v
  BY CheckFacts
<1>2. /\ Plain(Open(f0, n)) /\ (Passed(Open(f0, n)) <=> f0[n] # "missing")
      /\ Plain(Given(f0, n)) /\ Plain(NotEmpty(f0, n))
  BY <1>1 DEF Open, Given, NotEmpty, Leads
<1>3. Plain(Parse(f0, n)) /\ (Passed(Parse(f0, n)) <=> f0[n] # "malformed")
  BY <1>1 DEF Parse, Leads
<1>4. Plain(OpenLate(f0, n)) /\ (Passed(OpenLate(f0, n)) <=> f0[n] # "missing")
  BY <1>1 DEF OpenLate, Leads
<1>5. Plain(GivenNotEmpty(f0, n))
  BY <1>2, AppendFacts DEF GivenNotEmpty
<1> QED
  BY <1>2, <1>3, <1>4, <1>5

LEMMA OutlineFacts == ASSUME NEW f0 PROVE Plain(Outline(f0)) /\ Plain(Config(f0))
<1>1. Plain(Config(f0))
  BY TestFacts, AppendFacts DEF Config
<1>2. Plain(Open(f0, "geometry-file") \o Parse(f0, "geometry-file"))
  BY TestFacts, AppendFacts
<1>3. Plain(Outline(f0))
  BY <1>2, EmptyFacts DEF Outline, If
<1> QED
  BY <1>1, <1>3

\* The tests refuse a token file that is missing or malformed.
RefuseBadToken(tests, f0) ==
    Plain(tests) /\ (Passed(tests) => f0["token-file"] \notin {"missing", "malformed"})

LEMMA TokenThenFacts ==
    ASSUME NEW f0, NEW tests, Plain(tests)
    PROVE  RefuseBadToken(TokenThen(f0, tests), f0)
<1>1. PICK a : a = Open(f0, "config-file") \o Open(f0, "token-file")
  OBVIOUS
<1>2. Plain(a) /\ (Passed(a) => f0["token-file"] # "missing")
  BY <1>1, TestFacts, AppendFacts
<1>3. PICK b : b = a \o Parse(f0, "token-file")
  OBVIOUS
<1>4. Plain(b) /\ (Passed(b) => f0["token-file"] \notin {"missing", "malformed"})
  BY <1>2, <1>3, TestFacts, AppendFacts
<1>5. PICK c : c = b \o tests
  OBVIOUS
<1>6. Plain(c) /\ (Passed(c) => f0["token-file"] \notin {"missing", "malformed"})
  BY <1>4, <1>5, AppendFacts
<1>7. TokenThen(f0, tests) = c \o Parse(f0, "config-file")
  BY <1>1, <1>3, <1>5 DEF TokenThen
<1> QED
  BY <1>6, <1>7, TestFacts, AppendFacts DEF RefuseBadToken

LEMMA CommandTests ==
    ASSUME NEW tests, NEW starts, NEW then
    PROVE  /\ Command(tests, starts, then).tests = tests
           /\ Command(tests, starts, then).then = then
           /\ Serving(tests, starts, then).tests = tests
           /\ Serving(tests, starts, then).then = then
<1>1. PICK d : d = Command(tests, starts, then)
  OBVIOUS
<1>2. d.tests = tests /\ d.then = then
  BY <1>1 DEF Command
<1>3. PICK e : e = Serving(tests, starts, then)
  OBVIOUS
<1>4. e.tests = tests /\ e.then = then
  BY <1>3 DEF Command, Serving
<1> QED
  BY <1>1, <1>2, <1>3, <1>4

LEMMA SingleTests ==
    ASSUME NEW tests, NEW op
    PROVE  Single(tests, op).tests = tests /\ DOMAIN Single(tests, op).then = {op}
<1>1. PICK t : t = [o \in {op} |-> {"success"}]
  OBVIOUS
<1>2. PICK s : s = Single(tests, op)
  OBVIOUS
<1>3. s.tests = tests /\ s.then = t
  BY <1>1, <1>2 DEF Command, Single
<1>4. DOMAIN t = {op}
  BY <1>1
<1> QED
  BY <1>2, <1>3, <1>4

\* The commands that send a token.
TokenCommands ==
    {"add-aircraft", "aircraft-models", "create-flight", "end-flight", "end-flight-comms",
     "start-flight-comms", "monitor-traffic", "pilot", "plan-flight", "render-briefing",
     "submit-flight", "test"}

LEMMA TokenTests ==
    ASSUME NEW c \in TokenCommands, NEW f0
    PROVE  RefuseBadToken(Table(c, f0).tests, f0)
<1>1. Plain(GivenNotEmpty(f0, "model-id") \o GivenNotEmpty(f0, "nick-name"))
  BY TestFacts, AppendFacts
<1>2. CASE c = "add-aircraft"
  <2>1. Table(c, f0) = AddAircraft(f0)
    BY <1>2 DEF Table
  <2>2. AddAircraft(f0).tests
            = TokenThen(f0, GivenNotEmpty(f0, "model-id") \o GivenNotEmpty(f0, "nick-name"))
    <3>1. PICK t : t = Chain(<<"pilots.authenticated", "pilots.add_aircraft">>)
      OBVIOUS
    <3>2. PICK tests : tests = TokenThen(f0, GivenNotEmpty(f0, "model-id")
                                             \o GivenNotEmpty(f0, "nick-name"))
      OBVIOUS
    <3>3. AddAircraft(f0) = Command(tests, {"pilots.authenticated"}, t)
      BY <3>1, <3>2 DEF AddAircraft
    <3> QED
      BY <3>2, <3>3, CommandTests
  <2> QED
    BY <1>1, <2>1, <2>2, TokenThenFacts
<1>3. CASE c = "aircraft-models"
  <2>1. Table(c, f0) = AircraftModels(f0)
    BY <1>3 DEF Table
  <2>2. AircraftModels(f0).tests = TokenThen(f0, <<>>)
    BY SingleTests DEF AircraftModels
  <2> QED
    BY <2>1, <2>2, TokenThenFacts, EmptyFacts
<1>4. CASE c = "pilot"
  <2>1. Table(c, f0) = Pilot(f0)
    BY <1>4 DEF Table
  <2>2. Pilot(f0).tests = TokenThen(f0, <<>>)
    <3>1. PICK profile : profile = IF f0["pilot-id"] = "unset" THEN "pilots.authenticated"
                                   ELSE "pilots.for_id"
      OBVIOUS
    <3>2. PICK t : t = Chain(<<profile, "pilots.aircrafts">>)
      OBVIOUS
    <3>3. PICK tests : tests = TokenThen(f0, <<>>)
      OBVIOUS
    <3>4. Pilot(f0) = Command(tests, {profile}, t)
      BY <3>1, <3>2, <3>3, Zenon DEF Pilot
    <3> QED
      BY <3>3, <3>4, CommandTests
  <2> QED
    BY <2>1, <2>2, TokenThenFacts, EmptyFacts
<1>5. CASE c \in {"end-flight", "end-flight-comms", "start-flight-comms", "monitor-traffic"}
  <2>1. Table(c, f0) \in {EndFlight(f0), EndFlightComms(f0), StartFlightComms(f0), MonitorTraffic(f0)}
    BY <1>5 DEF Table
  <2>2. PICK tests : tests = TokenThen(f0, GivenNotEmpty(f0, "flight-id"))
    OBVIOUS
  <2>3. EndFlight(f0).tests = tests
    BY <2>2, SingleTests DEF EndFlight
  <2>4. EndFlightComms(f0).tests = tests
    BY <2>2, SingleTests DEF EndFlightComms
  <2>5. StartFlightComms(f0).tests = tests
    BY <2>2, SingleTests DEF StartFlightComms
  <2>6. MonitorTraffic(f0).tests = tests
    <3>1. PICK t : t = [op \in {"traffic.monitor"} |-> {}]
      OBVIOUS
    <3>2. MonitorTraffic(f0) = Serving(tests, {"traffic.monitor"}, t)
      BY <2>2, <3>1 DEF MonitorTraffic
    <3> QED
      BY <3>2, CommandTests
  <2>7. RefuseBadToken(tests, f0)
    BY <2>2, TestFacts, TokenThenFacts
  <2> QED
    BY <2>1, <2>3, <2>4, <2>5, <2>6, <2>7
<1>6. ASSUME NEW a, Plain(a)
      PROVE  /\ Plain(a \o Open(f0, "token-file"))
             /\ Passed(a \o Open(f0, "token-file")) => f0["token-file"] # "missing"
  BY <1>6, TestFacts, AppendFacts
<1>7. ASSUME NEW a, Plain(a), Passed(a) => f0["token-file"] # "missing"
      PROVE  RefuseBadToken(a \o Parse(f0, "token-file"), f0)
  BY <1>7, TestFacts, AppendFacts DEF RefuseBadToken
<1>8. ASSUME NEW a, NEW b, Plain(b), RefuseBadToken(a, f0)
      PROVE  RefuseBadToken(a \o b, f0)
  BY <1>8, AppendFacts DEF RefuseBadToken
<1>9. CASE c = "create-flight"
  <2>1. Table(c, f0) = CreateFlight(f0)
    BY <1>9 DEF Table
  <2>2. PICK a : a = Config(f0) \o Open(f0, "token-file") \o Parse(f0, "token-file")
    OBVIOUS
  <2>3. RefuseBadToken(a, f0)
    BY <1>6, <1>7, <2>2, OutlineFacts
  <2>4. CreateFlight(f0).tests = a \o Outline(f0) \o Given(f0, "latitude") \o Given(f0, "longitude")
    BY <2>2, SingleTests DEF CreateFlight
  <2>5. RefuseBadToken(a \o Outline(f0) \o Given(f0, "latitude") \o Given(f0, "longitude"), f0)
    BY <1>8, <2>3, OutlineFacts, TestFacts
  <2> QED
    BY <2>1, <2>4, <2>5
<1>10. CASE c = "plan-flight"
  <2>1. Table(c, f0) = PlanFlight(f0)
    BY <1>10 DEF Table
  <2>2. PICK a : a = Config(f0) \o GivenNotEmpty(f0, "plan") \o OpenLate(f0, "token-file")
    OBVIOUS
  <2>3. Plain(a) /\ (Passed(a) => f0["token-file"] # "missing")
    BY <2>2, OutlineFacts, TestFacts, AppendFacts
  <2>4. PICK b : b = a \o OpenLate(f0, "plan") \o Parse(f0, "plan")
    OBVIOUS
  <2>5. Plain(b) /\ (Passed(b) => f0["token-file"] # "missing")
    BY <2>3, <2>4, TestFacts, AppendFacts
  <2>6. PlanFlight(f0).tests = b \o Parse(f0, "token-file")
    BY <2>2, <2>4, SingleTests DEF PlanFlight
  <2> QED
    BY <1>7, <2>1, <2>5, <2>6
<1>11. CASE c \in {"render-briefing", "submit-flight"}
  <2>1. PICK op : Table(c, f0) = OfFlightPlan(f0, op)
    BY <1>11 DEF Table, RenderBriefing, SubmitFlight
  <2>2. PICK a : a = Config(f0) \o Open(f0, "token-file") \o GivenNotEmpty(f0, "flight-plan-id")
    OBVIOUS
  <2>3. Plain(a) /\ (Passed(a) => f0["token-file"] # "missing")
    BY <1>6, <2>2, OutlineFacts, TestFacts, AppendFacts
  <2>4. OfFlightPlan(f0, op).tests = a \o Parse(f0, "token-file")
    BY <2>2, SingleTests DEF OfFlightPlan
  <2> QED
    BY <1>7, <2>1, <2>3, <2>4
<1>12. CASE c = "test"
  <2>1. Table(c, f0) = TestSuite(f0)
    BY <1>12 DEF Table
  <2>2. PICK a : a = GivenNotEmpty(f0, "test-suite")
                       \o Check(f0["test-suite"] = "malformed", "exit 1") \o Config(f0)
    OBVIOUS
  <2>3. Plain(Check(f0["test-suite"] = "malformed", "exit 1"))
    BY CheckFacts DEF Leads
  <2>4. Plain(a)
    <3>1. PICK b : b = Check(f0["test-suite"] = "malformed", "exit 1")
      OBVIOUS
    <3>2. PICK e : e = GivenNotEmpty(f0, "test-suite") \o b
      OBVIOUS
    <3>3. Plain(e)
      BY <2>3, <3>1, <3>2, TestFacts, AppendFacts
    <3>4. a = e \o Config(f0)
      BY <2>2, <3>1, <3>2, Zenon
    <3> QED
      BY <3>3, <3>4, OutlineFacts, AppendFacts
  <2>5. TestSuite(f0).tests = a \o Open(f0, "token-file") \o Parse(f0, "token-file")
    <3>1. PICK b : b = a \o Open(f0, "token-file") \o Parse(f0, "token-file")
      OBVIOUS
    <3>2. PICK st, t : st = {Suite[1]} /\ t = Chain(Suite)
      OBVIOUS
    <3>3. TestSuite(f0) = Command(b, st, t)
      BY <2>2, <3>1, <3>2, Zenon DEF TestSuite
    <3>4. TestSuite(f0).tests = b
      BY <3>3, CommandTests
    <3> QED
      BY <3>1, <3>4
  <2> QED
    BY <1>6, <1>7, <2>1, <2>4, <2>5
<1> QED
  BY <1>2, <1>3, <1>4, <1>5, <1>9, <1>10, <1>11, <1>12 DEF TokenCommands

\* A command that sends a token and gets as far as a call has one.
LEMMA TokenIsGood ==
    ASSUME NEW c \in TokenCommands, NEW f0 \in Inputs(c),
           Verdict(Table(c, f0).tests) \in {"start", "undefined"}
    PROVE  "token-file" \in DOMAIN f0 /\ f0["token-file"] = "ok"
<1>1. "token-file" \in Names(c)
  BY DEF TokenCommands, Names
<1>2. "token-file" \in DOMAIN f0 /\ f0["token-file"] \in Values("token-file")
  BY <1>1 DEF Inputs
<1>3. f0["token-file"] \in {"missing", "malformed", "ok"}
  BY <1>2 DEF Values
<1>4. f0["token-file"] \notin {"missing", "malformed"}
  BY TokenTests, VerdictFacts DEF RefuseBadToken
<1> QED
  BY <1>2, <1>3, <1>4

\* The methods that send no token, and what else is called without one.
Anonymous ==
    DOMAIN Advisory \cup DOMAIN Aircrafts \cup DOMAIN Airspaces \cup DOMAIN Authenticator
        \cup DOMAIN RuleSets \cup DOMAIN Status \cup {"broker.connect", "telemetry.submit_updates"}

LEMMA AnonymousCommands ==
    ASSUME NEW c \in CommandName \ (TokenCommands \cup {"simulate-scenario"}), NEW f0
    PROVE  DOMAIN Table(c, f0).then \subseteq Anonymous
<1>1. {"advisory.for_id", "advisory.search", "advisory.report_weather", "airspaces.search",
       "airspaces.for_ids", "authenticator.authenticate_with_password",
       "authenticator.authenticate_anonymously", "authenticator.renew_authentication",
       "rulesets.search", "rulesets.for_id", "rulesets.fetch_rules", "rulesets.evaluate_rulesets",
       "rulesets.evaluate_flight_plan", "status.get_status_by_point",
       "status.get_status_by_polygon", "broker.connect", "telemetry.submit_updates"}
          \subseteq Anonymous
  BY ServiceNames DEF Anonymous
<1>2. CASE c \in {"evaluate", "fetch-rules", "get-advisories", "get-status", "query-rulesets",
                  "search-airspace", "report-weather"}
  <2>1. SUFFICES \E tests : \E op \in Anonymous : Table(c, f0) = Single(tests, op)
    BY SingleTests
  <2>2. CASE c = "evaluate"
    BY <1>1, <2>2 DEF Table, Evaluate
  <2>3. CASE c = "fetch-rules"
    BY <1>1, <2>3 DEF Table, FetchRules
  <2>4. CASE c = "get-advisories"
    BY <1>1, <2>4 DEF Table, GetAdvisories
  <2>5. CASE c = "get-status"
    BY <1>1, <2>5 DEF Table, GetStatus
  <2>6. CASE c = "query-rulesets"
    BY <1>1, <2>6 DEF Table, QueryRuleSets, ByIdOrOutline
  <2>7. CASE c = "search-airspace"
    BY <1>1, <2>7 DEF Table, SearchAirspace, ByIdOrOutline
  <2>8. CASE c = "report-weather"
    BY <1>1, <2>8 DEF Table, ReportWeather
  <2> QED
    BY <1>2, <2>2, <2>3, <2>4, <2>5, <2>6, <2>7, <2>8
<1>3. CASE c \in {"init", "version", "daemon"}
  <2>1. \E tests : \/ Table(c, f0) = Command(tests, {}, <<>>)
                  \/ Table(c, f0) = Serving(tests, {}, <<>>)
    <3>1. CASE c = "init"
      BY <3>1 DEF Table, Initialize
    <3>2. CASE c = "version"
      BY <3>2 DEF Table, Version
    <3>3. CASE c = "daemon"
      BY <3>3 DEF Table, Daemon
    <3> QED
      BY <1>3, <3>1, <3>2, <3>3
  <2>2. Table(c, f0).then = <<>>
    BY <2>1, CommandTests
  <2> QED
    BY <2>2
<1>4. CASE c = "login"
  <2>1. PICK after : after = IF f0["new-token-file"] = "ok" THEN {"success"} ELSE {"error"}
    OBVIOUS
  <2>2. PICK t : t = [op \in {"authenticator.renew_authentication",
                              "authenticator.authenticate_with_password",
                              "authenticator.authenticate_anonymously"} |-> after]
    OBVIOUS
  <2>3. PICK d : d = Login(f0)
    OBVIOUS
  <2>4. d.then = t
    BY <2>1, <2>2, <2>3 DEF Login, Command
  <2>5. Table(c, f0) = d
    BY <1>4, <2>3 DEF Table
  <2> QED
    BY <1>1, <2>2, <2>4, <2>5
<1>5. CASE c = "monitor-mids"
  <2>1. PICK t : t = [o \in {"broker.connect"} |-> {}]
    OBVIOUS
  <2>2. \E tests, starts : Table(c, f0) = Serving(tests, starts, t)
    BY <1>5, <2>1 DEF Table, MonitorMids
  <2> QED
    BY <1>1, <2>1, <2>2, CommandTests
<1>6. CASE c = "simulate-telemetry"
  <2>1. PICK t : t = [o \in {"telemetry.submit_updates"} |->
                        IF f0["frequency"] = "empty" THEN {"abort"} ELSE {o}]
    OBVIOUS
  <2>2. PICK d : d = SimulateTelemetry(f0)
    OBVIOUS
  <2>3. d.then = t
    BY <2>1, <2>2 DEF SimulateTelemetry, Serving, Command
  <2>4. Table(c, f0) = d
    BY <1>6, <2>2 DEF Table
  <2> QED
    BY <1>1, <2>1, <2>3, <2>4
<1> QED
  BY <1>2, <1>3, <1>4, <1>5, <1>6 DEF CommandName, Registered, TokenCommands

LEMMA RequestFacts ==
    ASSUME NEW auth
    PROVE  /\ Get(auth).authorization = auth /\ Get(auth).at = "airmap"
           /\ Post(auth).authorization = auth /\ Post(auth).at = "airmap"
           /\ Patch(auth).authorization = auth /\ Patch(auth).at = "airmap"
           /\ Delete(auth).authorization = auth /\ Delete(auth).at = "airmap"
BY DEF Get, Post, Patch, Delete

\* No token goes to the services that need none, and two methods go to the
\* single sign-on host.
LEMMA MethodFacts ==
    ASSUME NEW op \in DOMAIN Methods
    PROVE  /\ op \in Anonymous => Methods[op].authorization = "none"
           /\ op \in {"authenticator.authenticate_with_password",
                     "authenticator.renew_authentication"} => Methods[op].at = "sso"
           /\ op \notin {"authenticator.authenticate_with_password",
                        "authenticator.renew_authentication"} => Methods[op].at = "airmap"
<1> DEFINE Plainly(m) == m.at = "airmap" /\ m.authorization = "none"
<1>1. CASE op \in DOMAIN Advisory
  BY <1>1, ServiceNames, RequestFacts DEF Methods, Advisory
<1>2. CASE op \in DOMAIN Aircrafts
  BY <1>2, ServiceNames, RequestFacts DEF Methods, Aircrafts
<1>3. CASE op \in DOMAIN Airspaces
  BY <1>3, ServiceNames, RequestFacts DEF Methods, Airspaces
<1>4. CASE op \in DOMAIN Authenticator
  <2>1. Methods[op] = Authenticator[op]
    BY <1>4, ServiceNames DEF Methods
  <2>2. PICK r : r = Post("none")
    OBVIOUS
  <2>3. r.authorization = "none" /\ r.at = "airmap" /\ DOMAIN r = {"verb", "authorization", "reply", "at"}
    BY <2>2 DEF Post, Get
  <2>4. PICK m : m = [r EXCEPT !.reply = IF op = "authenticator.authenticate_with_password"
                                          THEN "password" ELSE @,
                                !.at = IF op = "authenticator.authenticate_anonymously" THEN @
                                       ELSE "sso"]
    OBVIOUS
  <2>5. Authenticator[op] = m
    BY <1>4, <2>2, <2>4, ServiceNames DEF Authenticator
  <2>6. /\ m.authorization = "none"
        /\ m.at = IF op = "authenticator.authenticate_anonymously" THEN "airmap" ELSE "sso"
    BY <2>3, <2>4
  <2> QED
    BY <1>4, <2>1, <2>5, <2>6, ServiceNames
<1>5. CASE op \in DOMAIN FlightPlans
  BY <1>5, ServiceNames, RequestFacts DEF Methods, FlightPlans, Anonymous
<1>6. CASE op \in DOMAIN Flights
  BY <1>6, ServiceNames, RequestFacts DEF Methods, Flights, Anonymous
<1>7. CASE op \in DOMAIN Pilots
  BY <1>7, ServiceNames, RequestFacts DEF Methods, Pilots, Anonymous
<1>8. CASE op \in DOMAIN RuleSets
  BY <1>8, ServiceNames, RequestFacts DEF Methods, RuleSets
<1>9. CASE op \in DOMAIN Status
  BY <1>9, ServiceNames, RequestFacts DEF Methods, Status
<1> QED
  BY <1>1, <1>2, <1>3, <1>4, <1>5, <1>6, <1>7, <1>8, <1>9, MethodNames

\* The API key goes with every request but those to the single sign-on host.
LEMMA HeaderFacts ==
    ASSUME NEW op \in DOMAIN Methods, NEW token
    PROVE  "X-API-Key" \in Headers(op, token) <=>
              op \notin {"authenticator.authenticate_with_password",
                        "authenticator.renew_authentication"}
<1>1. PICK r : r = Requesters(op)
  OBVIOUS
<1>2. "X-API-Key" \in Headers(op, token) <=> "api_key" \in {r[i] : i \in DOMAIN r}
  BY <1>1 DEF Headers
<1>3. CASE op \in {"authenticator.authenticate_with_password",
                   "authenticator.renew_authentication"}
  <2>1. r = <<"logging", "boost">>
    BY <1>1, <1>3, MethodFacts DEF Requesters
  <2>2. DOMAIN r = 1 .. 2 /\ r[1] = "logging" /\ r[2] = "boost"
    BY <2>1
  <2>3. \A i \in 1 .. 2 : i = 1 \/ i = 2
    OBVIOUS
  <2> QED
    BY <1>2, <1>3, <2>2, <2>3
<1>4. CASE op \notin {"authenticator.authenticate_with_password",
                      "authenticator.renew_authentication"}
  <2>1. r = <<"api_key", "routing", "logging", "boost">>
    BY <1>1, <1>4, MethodFacts DEF Requesters
  <2>2. 1 \in DOMAIN r /\ r[1] = "api_key"
    BY <2>1
  <2> QED
    BY <1>2, <1>4, <2>2
<1> QED
  BY <1>3, <1>4

\* A command calls nothing before its tests have passed.
Cleared == Seen # {} => Verdict(Does.tests) \in {"start", "undefined"}

LEMMA ClearedHolds == Spec => []Cleared
<1>1. Init => Cleared
  BY DEF Init, Cleared, Seen
<1>2. Cleared /\ CInv /\ [Next]_vars => Cleared'
  <2> SUFFICES ASSUME Cleared, CInv, [Next]_vars, Seen' # {}
               PROVE  Verdict(Does'.tests) \in {"start", "undefined"}
    BY DEF Cleared
  <2>1. Does' = Does
    BY DEF Does, Next, Run, Answered, Reply, Stall, Interrupt, Return, vars
  <2>2. CASE Run
    <3>1. Seen = {}
      BY <2>2 DEF CInv, Unstarted, Run
    <3>2. calls' # {}
      BY <2>2, <3>1 DEF Run, Seen
    <3>3. Verdict(Does.tests) \in {"start", "undefined"}
      BY <2>2, <3>1, <3>2 DEF Run, Act, Enter, Seen
    <3> QED
      BY <2>1, <3>3
  <2>3. CASE Answered \/ \E c \in calls : Stall(c[1], c[2])
    BY <2>1, <2>3 DEF Cleared, Seen, Answered
  <2>4. CASE Interrupt \/ Return \/ UNCHANGED vars
    <3>1. Seen' = Seen
      BY <2>4 DEF Interrupt, Return, vars, Seen
    <3> QED
      BY <2>1, <3>1 DEF Cleared
  <2> QED
    BY <2>2, <2>3, <2>4 DEF Next
<1> QED
  BY <1>1, <1>2, CallsFollowTheirTables, PTL DEF Spec

\* Whoever takes part in a scenario logs in first.
LEMMA ScenarioLogins ==
    ASSUME CInv, command = "simulate-scenario", NEW c \in Seen, c[2] \notin Logins
    PROVE  \E op \in Logins : <<c[1], op>> \in done
<1>1. PICK login \in Logins : IsScenario(Does, login)
  BY ScenarioTable DEF Does
<1>2. done \subseteq Seen
  BY DEF Seen
<1>3. ASSUME NEW x \in Seen, x[2] \notin Logins
      PROVE  \E o \in ScenarioOps : x[2] \in Does.then[o] /\ <<x[1], o>> \in done
  <2>1. x \notin Does.starts
    BY <1>1, <1>3 DEF IsScenario
  <2>2. PICK o \in Ops : Follows(x, o)
    BY <2>1 DEF CInv, Origin
  <2> QED
    BY <1>1, <2>2 DEF Follows, IsScenario
<1>4. ASSUME NEW o \in ScenarioOps, NEW n \in Does.then[o], n \in ScenarioOps
      PROVE  \/ o \in Logins /\ n \in {"status.get_status_by_polygon", "flights.create_flight_by_polygon"}
             \/ o = "flights.create_flight_by_polygon"
                  /\ n \in {"traffic.monitor", "flights.start_flight_communications", "timer"}
             \/ o = "timer" /\ n = "flights.end_flight_communications"
             \/ o = "flights.end_flight_communications" /\ n = "flights.end_flight"
  BY <1>1, <1>4 DEF IsScenario, ScenarioOps, Logins
<1>5. \A x \in Seen : x[2] \in ScenarioOps
  BY <1>1, DoesFacts DEF Called, IsScenario
<1>6. ASSUME NEW x \in Seen,
             x[2] \in {"status.get_status_by_polygon", "flights.create_flight_by_polygon"}
      PROVE  \E op \in Logins : <<x[1], op>> \in done
  <2>1. PICK o \in ScenarioOps : x[2] \in Does.then[o] /\ <<x[1], o>> \in done
    BY <1>3, <1>6 DEF Logins
  <2>2. o \in Logins
    BY <1>4, <1>5, <1>6, <2>1
  <2> QED
    BY <2>1, <2>2
<1>7. ASSUME NEW x \in Seen,
             x[2] \in {"traffic.monitor", "flights.start_flight_communications", "timer"}
      PROVE  \E op \in Logins : <<x[1], op>> \in done
  <2>1. PICK o \in ScenarioOps : x[2] \in Does.then[o] /\ <<x[1], o>> \in done
    BY <1>3, <1>7 DEF Logins
  <2>2. o = "flights.create_flight_by_polygon"
    BY <1>4, <1>5, <1>7, <2>1
  <2>3. PICK y \in Seen : y = <<x[1], o>>
    BY <1>2, <2>1
  <2>4. \E op \in Logins : <<y[1], op>> \in done
    BY <1>6, <2>2, <2>3
  <2> QED
    BY <2>3, <2>4
<1>8. ASSUME NEW x \in Seen, x[2] = "flights.end_flight_communications"
      PROVE  \E op \in Logins : <<x[1], op>> \in done
  <2>1. PICK o \in ScenarioOps : x[2] \in Does.then[o] /\ <<x[1], o>> \in done
    BY <1>3, <1>8 DEF Logins
  <2>2. o = "timer"
    BY <1>4, <1>5, <1>8, <2>1
  <2>3. PICK y \in Seen : y = <<x[1], o>>
    BY <1>2, <2>1
  <2>4. \E op \in Logins : <<y[1], op>> \in done
    BY <1>7, <2>2, <2>3
  <2> QED
    BY <2>3, <2>4
<1>9. ASSUME NEW x \in Seen, x[2] = "flights.end_flight"
      PROVE  \E op \in Logins : <<x[1], op>> \in done
  <2>1. PICK o \in ScenarioOps : x[2] \in Does.then[o] /\ <<x[1], o>> \in done
    BY <1>3, <1>9 DEF Logins
  <2>2. o = "flights.end_flight_communications"
    BY <1>4, <1>5, <1>9, <2>1
  <2>3. PICK y \in Seen : y = <<x[1], o>>
    BY <1>2, <2>1
  <2>4. \E op \in Logins : <<y[1], op>> \in done
    BY <1>8, <2>2, <2>3
  <2> QED
    BY <2>3, <2>4
<1> QED
  BY <1>5, <1>6, <1>7, <1>8, <1>9 DEF ScenarioOps

LEMMA AnonymousMethods == \A op \in Anonymous : Method(op) = op
BY ServiceNames DEF Anonymous, Method

\* Every command, whatever it finds in its files and flags and in whatever order
\* its calls are answered, has a token when it calls a method that sends one; and
\* the API key goes to every host but the single sign-on one (the token handling
\* of each command, and the requesters of boost/context.cpp and rest/client.cpp).
THEOREM CredentialsGoWithRequests == Spec => []RequestsCarryTheirCredentials
<1>1. CInv /\ Cleared => RequestsCarryTheirCredentials
  <2> SUFFICES ASSUME CInv, Cleared, NEW c \in calls, NEW op \in DOMAIN Methods, op = Method(c[2])
               PROVE  Methods[op].authorization # "none" => HasToken(c[1])
    BY HeaderFacts DEF RequestsCarryTheirCredentials
  <2>1. c \in Seen /\ command \in CommandName /\ f \in Inputs(command) /\ Does = Table(command, f)
    BY DEF Seen, CInv, Typed, Does
  <2>2. CASE command \in TokenCommands
    BY <2>1, <2>2, TokenIsGood DEF Cleared, HasToken
  <2>3. CASE command = "simulate-scenario"
    <3>1. CASE c[2] \in Logins
      <4>1. c[2] \in Anonymous /\ op = c[2]
        BY <3>1, ServiceNames, AnonymousMethods DEF Anonymous, Logins
      <4> QED
        BY <4>1, MethodFacts
    <3>2. CASE c[2] \notin Logins
      BY <2>1, <2>3, <3>2, ScenarioLogins DEF HasToken
    <3> QED
      BY <3>1, <3>2
  <2>4. CASE command \notin TokenCommands \cup {"simulate-scenario"}
    <3>1. c[2] \in DOMAIN Does.then
      BY <2>1, DoesFacts DEF Called
    <3>2. c[2] \in Anonymous
      BY <2>1, <2>4, <3>1, AnonymousCommands
    <3> QED
      BY <3>2, AnonymousMethods, MethodFacts
  <2> QED
    BY <2>2, <2>3, <2>4
<1> QED
  BY <1>1, CallsFollowTheirTables, ClearedHolds, PTL
=============================================================================
