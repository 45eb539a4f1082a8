------------------------------- MODULE Rest -------------------------------
(***************************************************************************)
(* The calls of airmap::rest::Client (src/airmap/rest) and what becomes of *)
(* one: the request each method makes, the requesters it passes through,   *)
(* and what the caller's callback is told of the answer (net/http).        *)
(*                                                                         *)
(* A call is known by the name of the service and of the method.  Paths,   *)
(* hosts and bodies are left out, but for whether a body holds a value.    *)
(***************************************************************************)
EXTENDS Integers, Sequences

Get(auth) == [verb |-> "GET", authorization |-> auth, reply |-> "jsend", at |-> "airmap"]

Post(auth) == [Get(auth) EXCEPT !.verb = "POST"]

Patch(auth) == [Get(auth) EXCEPT !.verb = "PATCH"]

Delete(auth) == [Get(auth) EXCEPT !.verb = "DELETE"]

(***************************************************************************)
(* The methods, by service.  "required": the header is always sent;        *)
(* "optional": when the parameters hold a token; "none": never.            *)
(***************************************************************************)
Advisory ==
    [op \in {"advisory.for_id", "advisory.search", "advisory.report_weather"} |->
        IF op = "advisory.search" THEN Post("none") ELSE Get("none")]

Aircrafts ==
    [op \in {"aircrafts.manufacturers", "aircrafts.models", "aircrafts.model_for_id"} |-> Get("none")]

Airspaces == [op \in {"airspaces.search", "airspaces.for_ids"} |-> Get("none")]

\* Only the password flow reads the answer itself; two of the three go to
\* the single sign-on host.
Authenticator ==
    [op \in {"authenticator.authenticate_with_password", "authenticator.authenticate_anonymously",
             "authenticator.renew_authentication"} |->
        [Post("none") EXCEPT
            !.reply = IF op = "authenticator.authenticate_with_password" THEN "password" ELSE @,
            !.at    = IF op = "authenticator.authenticate_anonymously" THEN @ ELSE "sso"]]

FlightPlans ==
    [op \in {"flight_plans.for_id", "flight_plans.create_by_polygon", "flight_plans.update",
             "flight_plans.delete_", "flight_plans.render_briefing", "flight_plans.submit"} |->
        CASE op \in {"flight_plans.for_id", "flight_plans.render_briefing"} -> Get("optional")
          [] op = "flight_plans.create_by_polygon" -> Post("required")
          [] op = "flight_plans.submit"            -> Post("optional")
          [] op = "flight_plans.update"            -> Patch("optional")
          [] op = "flight_plans.delete_"           -> Delete("optional")]

Flights ==
    [op \in {"flights.search", "flights.for_id", "flights.create_flight_by_point",
             "flights.create_flight_by_path", "flights.create_flight_by_polygon",
             "flights.end_flight", "flights.delete_flight",
             "flights.start_flight_communications", "flights.end_flight_communications"} |->
        IF op \in {"flights.search", "flights.for_id"} THEN Get("optional") ELSE Post("required")]

\* finish_verify_pilot_phone_for_id throws instead of making a request: its
\* path has no place for the id it is formatted with.
Pilots ==
    [op \in {"pilots.authenticated", "pilots.for_id", "pilots.aircrafts", "pilots.update_for_id",
             "pilots.update_aircraft", "pilots.start_verify_pilot_phone_for_id",
             "pilots.add_aircraft", "pilots.delete_aircraft"} |->
        CASE op \in {"pilots.authenticated", "pilots.for_id", "pilots.aircrafts"} -> Get("required")
          [] op \in {"pilots.update_for_id", "pilots.update_aircraft"} -> Patch("required")
          [] op \in {"pilots.start_verify_pilot_phone_for_id", "pilots.add_aircraft"} -> Post("required")
          [] op = "pilots.delete_aircraft" -> Delete("required")]

RuleSets ==
    [op \in {"rulesets.search", "rulesets.for_id", "rulesets.fetch_rules",
             "rulesets.evaluate_rulesets", "rulesets.evaluate_flight_plan"} |->
        IF op \in {"rulesets.search", "rulesets.evaluate_rulesets"} THEN Post("none") ELSE Get("none")]

Status ==
    [op \in {"status.get_status_by_point", "status.get_status_by_path",
             "status.get_status_by_polygon"} |-> Get("none")]

Methods ==
    [op \in DOMAIN Advisory \cup DOMAIN Aircrafts \cup DOMAIN Airspaces \cup DOMAIN Authenticator
            \cup DOMAIN FlightPlans \cup DOMAIN Flights \cup DOMAIN Pilots \cup DOMAIN RuleSets
            \cup DOMAIN Status |->
        CASE op \in DOMAIN Advisory      -> Advisory[op]
          [] op \in DOMAIN Aircrafts     -> Aircrafts[op]
          [] op \in DOMAIN Airspaces     -> Airspaces[op]
          [] op \in DOMAIN Authenticator -> Authenticator[op]
          [] op \in DOMAIN FlightPlans   -> FlightPlans[op]
          [] op \in DOMAIN Flights       -> Flights[op]
          [] op \in DOMAIN Pilots        -> Pilots[op]
          [] op \in DOMAIN RuleSets      -> RuleSets[op]
          [] op \in DOMAIN Status        -> Status[op]]

-----------------------------------------------------------------------------
\* Mutant: the two requesters of the authenticator are swapped.
RequestersSwapped(op) ==
    CASE op = "authenticator.authenticate_with_password" -> <<"api_key", "routing", "logging", "boost">>
      [] op = "authenticator.authenticate_anonymously" -> <<"logging", "boost">>
      [] OTHER -> <<"api_key", "routing", "logging", "boost">>

\* The requesters a service's requests pass through, outermost first.
Requesters(op) ==
    IF Methods[op].at = "sso" THEN <<"logging", "boost">>
    ELSE <<"api_key", "routing", "logging", "boost">>

\* The headers of a request: tokens are those its parameters hold.
Headers(op, token) ==
    {h \in {"Authorization", "X-API-Key"} :
        \/ h = "X-API-Key" /\ "api_key" \in {Requesters(op)[i] : i \in DOMAIN Requesters(op)}
        \/ h = "Authorization" /\ Methods[op].authorization = "required"
        \/ h = "Authorization" /\ Methods[op].authorization = "optional" /\ token}

\* The asynchronous operations of one request; any of them may fail.
Stages(protocol) ==
    CASE protocol = "http"  -> <<"resolve", "connect", "write", "read">>
      [] protocol = "https" -> <<"resolve", "connect", "handshake", "write", "read">>

\* What may come of a request: a stage that failed, or a response.
Classification ==
    {"informational", "success", "redirection", "client_error", "server_error", "unclassified"}

\* A body that holds a value, alone or under jsend's "success"; or a jsend
\* "fail" or "error", an "error", "msg" or "message", an unknown status,
\* something that is not JSON or does not decode.
Body == {"value", "other"}

Answer == [class : Classification \cup {Stages("https")[i] : i \in 1 .. 5}, body : Body]

Ignored == {"informational", "redirection"}

Parsed == {"success", "client_error", "server_error"}

\* What the callback is called with; "nothing": it is never called.
JsendParsingRequestCallback(answer) ==
    CASE answer.class \in Ignored -> "nothing"
      [] answer.class \in Parsed /\ answer.body = "value" -> "value"
      [] OTHER -> "error"

\* A client error is described by the body, or is a generic one.
AuthenticateWithPasswordCallback(answer) ==
    IF answer.class = "client_error" THEN "error" ELSE JsendParsingRequestCallback(answer)

Told(op, answer) ==
    IF op \in DOMAIN Methods /\ Methods[op].reply = "password"
    THEN AuthenticateWithPasswordCallback(answer)
    ELSE JsendParsingRequestCallback(answer)

=============================================================================
