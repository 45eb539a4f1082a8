---------------------------- MODULE CommandTable ----------------------------
(***************************************************************************)
(* The commands of the airmap program (cmds/airmap/cmd): for each, what it *)
(* checks before it has a client, what it does when it gets one, the calls *)
(* it starts and what the answer to each leads to.                         *)
(*                                                                         *)
(* f holds what the command finds in its flags and in the files they name, *)
(* as far as the command tells it apart:                                   *)
(*   a flag  "unset", "empty" (or zero), "ok";                             *)
(*   a file  "unset", "missing" (or an empty name), "malformed", "ok".     *)
(* The configuration and token files have default names.                   *)
(***************************************************************************)
EXTENDS Naturals, Sequences, FiniteSets

CONSTANT MaxParticipants    \* bound: participants of a simulated scenario

\* A scenario has participants; the other commands have one, the user.
ASSUME ParticipantsAssumption == MaxParticipants \in Nat \ {0}

Value == {"unset", "empty", "missing", "malformed", "ok"}

(***************************************************************************)
(* What a failing test does to the command: "exit 1"; "abort", an          *)
(* exception nothing catches; "wait", it goes on to exec() without a call  *)
(* pending that could stop it.  The first test that fails decides.         *)
(***************************************************************************)
Check(fails, leads) == <<[fails |-> fails, leads |-> leads]>>

Open(f, n) == Check(f[n] = "missing", "exit 1")

Parse(f, n) == Check(f[n] = "malformed", "abort")

Given(f, n) == Check(f[n] = "unset", "exit 1")

NotEmpty(f, n) == Check(f[n] = "empty", "exit 1")

GivenNotEmpty(f, n) == Given(f, n) \o NotEmpty(f, n)

\* A file that is read once there is a client: return leaves the callback of
\* create_client_with_configuration, not the command.
OpenLate(f, n) == Check(f[n] = "missing", "wait")

If(c, tests) == IF c THEN tests ELSE <<>>

\* The optional outline, parsed before there is a client.
Outline(f) == If(f["geometry-file"] # "unset", Open(f, "geometry-file") \o Parse(f, "geometry-file"))

(***************************************************************************)
(* What a command is: its tests, the calls it starts, for each call what a *)
(* value leads to (other calls, or the argument of stop()), the calls      *)
(* whose error it only logs, and whether it serves until it is stopped.    *)
(***************************************************************************)
Command(tests, starts, then) ==
    [tests |-> tests, starts |-> {<<1, op>> : op \in starts}, then |-> then,
     tolerates |-> {}, serves |-> FALSE]

\* Mutant: the handler forgets to stop the context.
SingleWithoutStop(tests, op) == Command(tests, {op}, [o \in {op} |-> {}])

\* One call, whose value ends the command.
Single(tests, op) == Command(tests, {op}, [o \in {op} |-> {"success"}])

\* Mutant: leaves the flight behind.
ChainWithoutDelete(steps) ==
    [op \in {steps[i] : i \in DOMAIN steps} |->
        LET i == CHOOSE j \in DOMAIN steps : steps[j] = op
        IN  IF i + 1 >= Len(steps) THEN {"success"} ELSE {steps[i + 1]}]

\* One call after the other, up to the end of the command.
Chain(steps) ==
    [op \in {steps[i] : i \in DOMAIN steps} |->
        LET i == CHOOSE j \in DOMAIN steps : steps[j] = op
        IN  IF i = Len(steps) THEN {"success"} ELSE {steps[i + 1]}]

Config(f) == Open(f, "config-file") \o Parse(f, "config-file")

\* Both files are opened before either is read.
TokenThen(f, tests) ==
    Open(f, "config-file") \o Open(f, "token-file") \o Parse(f, "token-file") \o tests
        \o Parse(f, "config-file")

AddAircraft(f) ==
    Command(TokenThen(f, GivenNotEmpty(f, "model-id") \o GivenNotEmpty(f, "nick-name")),
            {"pilots.authenticated"}, Chain(<<"pilots.authenticated", "pilots.add_aircraft">>))

AircraftModels(f) == Single(TokenThen(f, <<>>), "aircrafts.models")

CreateFlight(f) ==
    Single(Config(f) \o Open(f, "token-file") \o Parse(f, "token-file") \o Outline(f)
               \o Given(f, "latitude") \o Given(f, "longitude"),
           IF f["geometry-file"] = "unset" THEN "flights.create_flight_by_point"
           ELSE "flights.create_flight_by_polygon")

EndFlight(f) == Single(TokenThen(f, GivenNotEmpty(f, "flight-id")), "flights.end_flight")

EndFlightComms(f) ==
    Single(TokenThen(f, GivenNotEmpty(f, "flight-id")), "flights.end_flight_communications")

StartFlightComms(f) ==
    Single(TokenThen(f, GivenNotEmpty(f, "flight-id")), "flights.start_flight_communications")

Evaluate(f) ==
    LET byPlan == f["flight-plan-id"] # "unset"
    IN  Single(Open(f, "config-file")
                   \o If(~ byPlan, GivenNotEmpty(f, "evaluation-file"))
                   \o Parse(f, "config-file")
                   \o If(~ byPlan, OpenLate(f, "evaluation-file") \o Parse(f, "evaluation-file")),
               IF byPlan THEN "rulesets.evaluate_flight_plan" ELSE "rulesets.evaluate_rulesets")

FetchRules(f) ==
    Single(Open(f, "config-file") \o Given(f, "rulesets") \o Parse(f, "config-file"),
           "rulesets.fetch_rules")

GetAdvisories(f) ==
    LET byPlan == f["flight-plan-id"] # "unset"
    IN  Single(Open(f, "config-file")
                   \o If(~ byPlan, Given(f, "geometry-file") \o Given(f, "rulesets"))
                   \o Parse(f, "config-file")
                   \o If(~ byPlan, OpenLate(f, "geometry-file") \o Parse(f, "geometry-file"))
                   \o Parse(f, "start-and-end"),
               IF byPlan THEN "advisory.for_id" ELSE "advisory.search")

GetStatus(f) ==
    Single(Open(f, "config-file") \o Outline(f) \o Given(f, "latitude") \o Given(f, "longitude")
               \o Parse(f, "config-file"),
           IF f["geometry-file"] = "unset" THEN "status.get_status_by_point"
           ELSE "status.get_status_by_polygon")

\* Writes the default configuration; never asks for a client.
Initialize(f) == Command(Check(f["config-file"] = "missing", "exit 1") \o Check(TRUE, "exit 0"), {}, <<>>)

Version == Command(Check(TRUE, "exit 0"), {}, <<>>)

(***************************************************************************)
(* A renewal wants the token file, tested after the Optional that names    *)
(* it, which is always set: a missing file fails to parse.  stop() comes   *)
(* before exec() here and is ignored.  "undefined": reads an unset         *)
(* Optional.                                                               *)
(***************************************************************************)
Login(f) ==
    LET renew == f["renew"] = "ok"
        after == IF f["new-token-file"] = "ok" THEN {"success"} ELSE {"error"}
    IN  Command(Config(f)
                    \o If(renew, Check(f["token-file"] \in {"missing", "malformed"}, "abort")
                                    \o Check(f["renewable"] = "unset", "wait")
                                    \o Check(f["oauth"] = "unset", "undefined")),
                CASE renew                -> {"authenticator.renew_authentication"}
                  [] f["oauth"] = "ok"    -> {"authenticator.authenticate_with_password"}
                  [] f["anonymous"] = "ok" -> {"authenticator.authenticate_anonymously"}
                  [] OTHER                -> {},
                [op \in {"authenticator.renew_authentication",
                         "authenticator.authenticate_with_password",
                         "authenticator.authenticate_anonymously"} |-> after])

\* A command that goes on until a signal stops it.
Serving(tests, starts, then) == [Command(tests, starts, then) EXCEPT !.serves = TRUE]

MonitorMids(f) ==
    Serving(GivenNotEmpty(f, "mqtt-host") \o Given(f, "mqtt-port")
                \o GivenNotEmpty(f, "mqtt-username") \o GivenNotEmpty(f, "mqtt-password")
                \o Check(f["mids"] = "unset", "undefined"),
            {"broker.connect"}, [op \in {"broker.connect"} |-> {}])

MonitorTraffic(f) ==
    Serving(TokenThen(f, GivenNotEmpty(f, "flight-id")), {"traffic.monitor"},
            [op \in {"traffic.monitor"} |-> {}])

\* An empty pilot id is only logged.
Pilot(f) ==
    LET profile == IF f["pilot-id"] = "unset" THEN "pilots.authenticated" ELSE "pilots.for_id"
    IN  Command(TokenThen(f, <<>>), {profile}, Chain(<<profile, "pilots.aircrafts">>))

PlanFlight(f) ==
    Single(Config(f) \o GivenNotEmpty(f, "plan")
               \o OpenLate(f, "token-file") \o OpenLate(f, "plan")
               \o Parse(f, "plan") \o Parse(f, "token-file"),
           IF f["update"] = "ok" THEN "flight_plans.update" ELSE "flight_plans.create_by_polygon")

\* Asks by id, or else by the outline in a file read once there is a client.
ByIdOrOutline(f, id, forId, search) ==
    LET byId == f[id] # "unset"
    IN  Single(Open(f, "config-file") \o If(~ byId, Given(f, "geometry-file"))
                   \o Parse(f, "config-file")
                   \o If(~ byId, OpenLate(f, "geometry-file") \o Parse(f, "geometry-file")),
               IF byId THEN forId ELSE search)

QueryRuleSets(f) == ByIdOrOutline(f, "ruleset-id", "rulesets.for_id", "rulesets.search")

SearchAirspace(f) == ByIdOrOutline(f, "airspace-id", "airspaces.for_ids", "airspaces.search")

\* The flight plan is named before the token is parsed.
OfFlightPlan(f, op) ==
    Single(Config(f) \o Open(f, "token-file") \o GivenNotEmpty(f, "flight-plan-id")
               \o Parse(f, "token-file"), op)

RenderBriefing(f) == OfFlightPlan(f, "flight_plans.render_briefing")

SubmitFlight(f) == OfFlightPlan(f, "flight_plans.submit")

ReportWeather(f) ==
    Single(Open(f, "config-file") \o Given(f, "latitude") \o Given(f, "longitude")
               \o Parse(f, "config-file"), "advisory.report_weather")

\* Flags that name an endpoint: at least one, and not all three.
Daemon(f) ==
    LET endpoints == {f["serial-device"] = "ok",
                      f["tcp-endpoint-ip"] = "ok" /\ f["tcp-endpoint-port"] = "ok",
                      f["udp-endpoint-port"] = "ok"}
    IN  Serving(Open(f, "config-file") \o NotEmpty(f, "telemetry-host")
                    \o Check(endpoints = {FALSE}, "exit 1") \o Check(endpoints = {TRUE}, "exit 1")
                    \o Parse(f, "config-file"),
                {}, <<>>)

\* A detached thread submits for ever; between two updates it divides by the
\* frequency.
SimulateTelemetry(f) ==
    Serving(Open(f, "config-file") \o NotEmpty(f, "telemetry-host")
                \o GivenNotEmpty(f, "encryption-key") \o GivenNotEmpty(f, "flight-id")
                \o Parse(f, "config-file") \o Outline(f),
            {"telemetry.submit_updates"},
            [op \in {"telemetry.submit_updates"} |->
                IF f["frequency"] = "empty" THEN {"abort"} ELSE {op}])

-----------------------------------------------------------------------------
(***************************************************************************)
(* The LAANC suites (cmds/airmap/cmd/test): one flight from its plan to    *)
(* its deletion.  An answer a suite rejects counts as an error.  The       *)
(* briefing is asked for three times, the last time after a while.         *)
(***************************************************************************)
Suite ==
    <<"pilots.authenticated", "pilots.aircrafts", "flight_plans.create_by_polygon",
      "render_briefing", "flight_plans.submit", "rerender_briefing", "timer",
      "render_final_briefing", "flight_plans.delete_", "flights.end_flight",
      "flights.delete_flight">>

\* The method a step of a suite calls.
Method(op) ==
    IF op \in {"render_briefing", "rerender_briefing", "render_final_briefing"}
    THEN "flight_plans.render_briefing" ELSE op

TestSuite(f) ==
    Command(GivenNotEmpty(f, "test-suite") \o Check(f["test-suite"] = "malformed", "exit 1")
                \o Config(f) \o Open(f, "token-file") \o Parse(f, "token-file"),
            {Suite[1]}, Chain(Suite))

(***************************************************************************)
(* A scenario: every participant logs in, asks for the status of its       *)
(* outline and creates a flight, and then, at once, watches traffic,       *)
(* starts communications and sets the timer that ends the flight.          *)
(***************************************************************************)
SimulateScenario(f) ==
    LET log_in == {"authenticator.authenticate_with_password",
                   "authenticator.authenticate_anonymously"}
    IN  [tests  |-> NotEmpty(f, "telemetry-host") \o Given(f, "scenario-file")
                        \o Open(f, "scenario-file") \o Parse(f, "scenario-file") \o Config(f),
         starts |-> {<<p, IF f["user"] = "ok" THEN "authenticator.authenticate_with_password"
                          ELSE "authenticator.authenticate_anonymously">> :
                        p \in 1 .. MaxParticipants},
         then   |-> [op \in log_in \cup
                        {"status.get_status_by_polygon", "flights.create_flight_by_polygon",
                         "traffic.monitor", "flights.start_flight_communications", "timer",
                         "flights.end_flight_communications", "flights.end_flight"} |->
                        CASE op \in log_in ->
                               {"status.get_status_by_polygon", "flights.create_flight_by_polygon"}
                          [] op = "flights.create_flight_by_polygon" ->
                               {"traffic.monitor", "flights.start_flight_communications", "timer"}
                          [] op = "timer" -> {"flights.end_flight_communications"}
                          [] op = "flights.end_flight_communications" -> {"flights.end_flight"}
                          [] op = "flights.end_flight" -> {"success"}
                          [] OTHER -> {}],
         tolerates |-> {"status.get_status_by_polygon"},
         serves |-> FALSE]

-----------------------------------------------------------------------------
\* The commands main() registers; end-flight-comms is not one of them.
Registered ==
    {"add-aircraft", "aircraft-models", "create-flight", "end-flight", "fetch-rules",
     "get-advisories", "get-status", "evaluate", "init", "login", "monitor-mids",
     "monitor-traffic", "pilot", "plan-flight", "query-rulesets", "render-briefing",
     "report-weather", "search-airspace", "start-flight-comms", "simulate-scenario",
     "simulate-telemetry", "submit-flight", "test", "version", "daemon"}

CommandName == Registered \cup {"end-flight-comms"}

\* What a command does with what it finds.
Table(c, f) ==
    CASE c = "add-aircraft"       -> AddAircraft(f)
      [] c = "aircraft-models"    -> AircraftModels(f)
      [] c = "create-flight"      -> CreateFlight(f)
      [] c = "daemon"             -> Daemon(f)
      [] c = "end-flight"         -> EndFlight(f)
      [] c = "end-flight-comms"   -> EndFlightComms(f)
      [] c = "evaluate"           -> Evaluate(f)
      [] c = "fetch-rules"        -> FetchRules(f)
      [] c = "get-advisories"     -> GetAdvisories(f)
      [] c = "get-status"         -> GetStatus(f)
      [] c = "init"               -> Initialize(f)
      [] c = "login"              -> Login(f)
      [] c = "monitor-mids"       -> MonitorMids(f)
      [] c = "monitor-traffic"    -> MonitorTraffic(f)
      [] c = "pilot"              -> Pilot(f)
      [] c = "plan-flight"        -> PlanFlight(f)
      [] c = "query-rulesets"     -> QueryRuleSets(f)
      [] c = "render-briefing"    -> RenderBriefing(f)
      [] c = "report-weather"     -> ReportWeather(f)
      [] c = "search-airspace"    -> SearchAirspace(f)
      [] c = "simulate-scenario"  -> SimulateScenario(f)
      [] c = "simulate-telemetry" -> SimulateTelemetry(f)
      [] c = "start-flight-comms" -> StartFlightComms(f)
      [] c = "submit-flight"      -> SubmitFlight(f)
      [] c = "test"               -> TestSuite(f)
      [] c = "version"            -> Version

\* What a command looks at, beside its configuration file.
Names(c) ==
    CASE c = "add-aircraft"       -> {"token-file", "model-id", "nick-name"}
      [] c = "aircraft-models"    -> {"token-file"}
      [] c = "create-flight"      -> {"token-file", "geometry-file", "latitude", "longitude"}
      [] c = "daemon"             -> {"telemetry-host", "serial-device", "tcp-endpoint-ip",
                                      "tcp-endpoint-port", "udp-endpoint-port"}
      [] c \in {"end-flight", "end-flight-comms", "start-flight-comms", "monitor-traffic"} ->
            {"token-file", "flight-id"}
      [] c = "evaluate"           -> {"flight-plan-id", "evaluation-file"}
      [] c = "fetch-rules"        -> {"rulesets"}
      [] c = "get-advisories"     -> {"flight-plan-id", "geometry-file", "rulesets",
                                      "start-and-end"}
      [] c = "get-status"         -> {"geometry-file", "latitude", "longitude"}
      [] c \in {"init", "version"} -> {}
      [] c = "login"              -> {"token-file", "renew", "renewable", "oauth", "anonymous",
                                      "new-token-file"}
      [] c = "monitor-mids"       -> {"mids", "mqtt-host", "mqtt-port", "mqtt-username",
                                      "mqtt-password"}
      [] c = "pilot"              -> {"token-file", "pilot-id"}
      [] c = "plan-flight"        -> {"token-file", "plan", "update"}
      [] c = "query-rulesets"     -> {"ruleset-id", "geometry-file"}
      [] c \in {"render-briefing", "submit-flight"} -> {"token-file", "flight-plan-id"}
      [] c = "report-weather"     -> {"latitude", "longitude"}
      [] c = "search-airspace"    -> {"airspace-id", "geometry-file"}
      [] c = "simulate-scenario"  -> {"telemetry-host", "scenario-file", "user"}
      [] c = "simulate-telemetry" -> {"telemetry-host", "encryption-key", "flight-id",
                                      "geometry-file", "frequency"}
      [] c = "test"               -> {"token-file", "test-suite"}

\* The values a name takes.
Values(n) ==
    CASE n \in {"config-file", "token-file"} -> {"missing", "malformed", "ok"}
      [] n \in {"geometry-file", "scenario-file"} -> {"unset", "missing", "malformed", "ok"}
      [] n \in {"plan", "evaluation-file"} -> {"unset", "empty", "missing", "malformed", "ok"}
      [] n = "start-and-end" -> {"unset", "malformed", "ok"}
      [] n = "test-suite" -> {"unset", "empty", "malformed", "ok"}
      [] n \in {"model-id", "nick-name", "flight-id", "flight-plan-id", "encryption-key", "mqtt-host", "mqtt-username", "mqtt-password",
                "serial-device", "tcp-endpoint-ip"} -> {"unset", "empty", "ok"}
      [] n \in {"frequency", "telemetry-host"} -> {"empty", "ok"}  \* both have a default
      [] n \in {"latitude", "longitude", "rulesets", "ruleset-id", "airspace-id", "pilot-id",
                "renew", "renewable", "oauth", "anonymous", "new-token-file", "update",
                "mids", "mqtt-port", "tcp-endpoint-port", "udp-endpoint-port", "user"} ->
            {"unset", "ok"}

\* Everything a command may find.
Inputs(c) ==
    LET ns == Names(c) \cup {"config-file"}
    IN  {f \in [ns -> Value] : \A n \in ns : f[n] \in Values(n)}

=============================================================================
