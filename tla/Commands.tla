------------------------------ MODULE Commands ------------------------------
(***************************************************************************)
(* A run of the airmap program: it picks a command (util/cli.cpp), tests   *)
(* what it was given, gets a client and runs the event loop, where answers *)
(* to its calls and at most one signal arrive in any order, until stop()   *)
(* gives it its exit code.  CommandTable says what each command does, Rest *)
(* what is told of an answer.                                              *)
(*                                                                         *)
(* create_client_with_configuration (boost/context.cpp) calls back before  *)
(* it returns, so its callback runs before exec(): an exception there ends *)
(* the process, and stop() there finds nothing to stop.  In the loop one   *)
(* thread runs one handler at a time; module Context has the rest.         *)
(***************************************************************************)
EXTENDS CommandTable, Rest

VARIABLES
    command,        \* the command asked for
    f,              \* what it finds
    phase,          \* "start", "loop", inside exec(), "over"
    calls,          \* calls under way: who makes it and which it is
    silent,         \* calls whose callback will never be called
    done, failed,   \* calls that reported a value, an error
    key_counter,    \* Collector::key_counter_
    simulating,     \* the Runner of a scenario was started
    stop,           \* the argument of the first stop()
    interrupted,    \* SIGINT or SIGQUIT came
    exit            \* the exit code

vars == <<command, f, phase, calls, silent, done, failed, key_counter, simulating, stop,
          interrupted, exit>>

Does == Table(command, f)

Call == (1 .. MaxParticipants) \X (DOMAIN Methods \cup
            {"render_briefing", "rerender_briefing", "render_final_briefing", "timer",
             "broker.connect", "traffic.monitor", "telemetry.submit_updates"})

TypeOK ==
    /\ command \in CommandName
    /\ f \in Inputs(command)
    /\ phase \in {"start", "loop", "over"}
    /\ calls \subseteq Call /\ silent \subseteq Call
    /\ done \subseteq Call /\ failed \subseteq Call
    /\ key_counter \in 0 .. MaxParticipants
    /\ simulating \in BOOLEAN
    /\ stop \in {"none", "success", "error"}
    /\ interrupted \in BOOLEAN
    /\ exit \in {"none", "0", "1", "abort"}
    /\ phase = "over" <=> exit # "none"

Init ==
    /\ command \in CommandName
    /\ f \in Inputs(command)
    /\ phase = "start"
    /\ calls = {} /\ silent = {} /\ done = {} /\ failed = {}
    /\ key_counter = 0
    /\ simulating = FALSE
    /\ stop = "none"
    /\ interrupted = FALSE
    /\ exit = "none"

\* Mutant: logs the error and goes on.
ExitWithoutReturn(code) == phase' = "loop" /\ exit' = code

Exit(code) == phase' = "over" /\ exit' = code

\* What the first test that fails leads to, or "start".
Verdict(tests) ==
    LET failing == {i \in DOMAIN tests : tests[i].fails}
    IN  IF failing = {} THEN "start"
        ELSE tests[CHOOSE i \in failing : \A j \in failing : i <= j].leads

\* Enters exec(), with the calls the callback made.
Enter(cs) == phase' = "loop" /\ calls' = cs /\ UNCHANGED exit

\* The action of the command.
Act ==
    LET verdict == Verdict(Does.tests)
    IN  \/ verdict = "exit 1" /\ Exit("1") /\ UNCHANGED calls
        \/ verdict = "exit 0" /\ Exit("0") /\ UNCHANGED calls
        \/ verdict \in {"abort", "undefined"} /\ Exit("abort") /\ UNCHANGED calls
        \/ verdict = "wait" /\ Enter({})
        \/ verdict \in {"start", "undefined"} /\ Enter(Does.starts)

\* CommandWithSubcommands::run and CommandWithFlagsAndAction::run.
Run ==
    /\ phase = "start"
    /\ \/ command \notin Registered /\ Exit("1") /\ UNCHANGED calls
       \/ command \in Registered /\ Exit("1") /\ UNCHANGED calls  \* a flag's value is no good
       \/ command \in Registered /\ Exit("0") /\ UNCHANGED calls  \* --help
       \/ command \in Registered /\ Act
    /\ UNCHANGED <<command, f, silent, done, failed, key_counter, simulating, stop, interrupted>>

-----------------------------------------------------------------------------
\* What the callback of a call may be told.
Reports(op) ==
    CASE Method(op) \in DOMAIN Methods -> {Told(Method(op), answer) : answer \in Answer}
      [] op \in {"timer", "telemetry.submit_updates"} -> {"value"}
      [] OTHER -> {"value", "error"}

\* Mutant: the runner starts with the first key.
CollectFirstKey(op) ==
    /\ key_counter' = IF op = "flights.start_flight_communications" /\ command = "simulate-scenario"
                      THEN key_counter + 1 ELSE key_counter
    /\ simulating' = (simulating \/ key_counter' > 0)

\* Collector::collect_key_for, and the start of the runner.
CollectKey(op) ==
    /\ key_counter' = IF op = "flights.start_flight_communications" /\ command = "simulate-scenario"
                      THEN key_counter + 1 ELSE key_counter
    /\ simulating' = (simulating \/ (command = "simulate-scenario" /\ key_counter' = MaxParticipants))

\* The handler of a value: makes the next calls or stops the context.
Succeed(p, op) ==
    LET next == Does.then[op]
    IN  /\ done' = done \cup {<<p, op>>}
        /\ calls' = (calls \ {<<p, op>>}) \cup
                        {<<p, n>> : n \in next \ {"success", "error", "abort"}}
        /\ stop' = CASE "success" \in next -> "success"
                     [] "error" \in next   -> "error"
                     [] OTHER              -> stop
        /\ IF "abort" \in next THEN Exit("abort") ELSE UNCHANGED <<phase, exit>>
        /\ CollectKey(op)
        /\ UNCHANGED <<silent, failed>>

\* Mutant: stop(), whose argument is success unless given.
FailWithDefault(p, op) ==
    /\ failed' = failed \cup {<<p, op>>}
    /\ calls' = calls \ {<<p, op>>}
    /\ stop' = IF op \in Does.tolerates THEN stop ELSE "success"
    /\ UNCHANGED <<silent, done, key_counter, simulating, phase, exit>>

\* The handler of an error.
Fail(p, op) ==
    /\ failed' = failed \cup {<<p, op>>}
    /\ calls' = calls \ {<<p, op>>}
    /\ stop' = IF op \in Does.tolerates THEN stop ELSE "error"
    /\ UNCHANGED <<silent, done, key_counter, simulating, phase, exit>>

\* The callback is dropped.
Drop(p, op) ==
    /\ silent' = silent \cup {<<p, op>>}
    /\ calls' = calls \ {<<p, op>>}
    /\ UNCHANGED <<done, failed, key_counter, simulating, stop, phase, exit>>

\* An answer to a call, or the failure of a stage of its request.
Reply(p, op) ==
    /\ phase = "loop" /\ stop = "none"
    /\ <<p, op>> \in calls
    /\ \/ "value" \in Reports(op) /\ Succeed(p, op)
       \/ "error" \in Reports(op) /\ Fail(p, op)
       \/ "nothing" \in Reports(op) /\ Drop(p, op)
    /\ UNCHANGED <<command, f, interrupted>>

\* A connection that stalls: no request has a deadline.
Stall(p, op) ==
    /\ phase = "loop" /\ stop = "none"
    /\ <<p, op>> \in calls
    /\ op \notin {"timer", "telemetry.submit_updates"}
    /\ Drop(p, op)
    /\ UNCHANGED <<command, f, interrupted>>

\* The first SIGINT or SIGQUIT.
Interrupt ==
    /\ phase = "loop" /\ stop = "none"
    /\ interrupted' = TRUE /\ stop' = "success"
    /\ UNCHANGED <<command, f, phase, calls, silent, done, failed, key_counter, simulating, exit>>

\* exec() returns what stop() was given.
Return ==
    /\ phase = "loop" /\ stop # "none"
    /\ Exit(IF stop = "success" THEN "0" ELSE "1")
    /\ UNCHANGED <<command, f, calls, silent, done, failed, key_counter, simulating, stop,
                   interrupted>>

Answered == \E c \in calls : Reply(c[1], c[2])

Next ==
    \/ Run
    \/ Answered
    \/ \E c \in calls : Stall(c[1], c[2])
    \/ Interrupt
    \/ Return

\* The program runs, and a call that does not stall is answered.
Spec == Init /\ [][Next]_vars /\ WF_vars(Run) /\ WF_vars(Answered) /\ WF_vars(Return)

-----------------------------------------------------------------------------
\* exec() returned, and no signal made it.
Finished == exit \in {"0", "1"} /\ stop # "none" /\ ~ interrupted

(***************************************************************************)
(* A command that returns 0 of its own accord reached the end of its chain *)
(* of calls for someone, and none of its calls failed but the status a     *)
(* scenario only logs.  (The handlers of every command: stop() defaults to *)
(* success, so a handler that forgets the argument, or stops too early,    *)
(* would turn a failure into a 0.)                                         *)
(***************************************************************************)
ZeroMeansDone ==
    Finished /\ exit = "0" =>
        /\ \E c \in done : "success" \in Does.then[c[2]]
        /\ \A c \in failed : c[2] = "status.get_status_by_polygon"

(***************************************************************************)
(* `airmap test` takes back what it did, if it returns 0: the flight plan  *)
(* it created is deleted, and the flight it submitted ended and deleted.   *)
(* (test/laanc.phoenix.cpp, a chain of eleven handlers.)                   *)
(***************************************************************************)
TestCleansUp ==
    Finished /\ exit = "0" /\ command = "test" =>
        {<<1, "flight_plans.delete_">>, <<1, "flights.end_flight">>, <<1, "flights.delete_flight">>}
            \subseteq done

Logins == {"authenticator.authenticate_with_password", "authenticator.authenticate_anonymously"}

\* A token to send for participant p.
HasToken(p) ==
    \/ "token-file" \in DOMAIN f /\ f["token-file"] = "ok"
    \/ \E op \in Logins : <<p, op>> \in done

(***************************************************************************)
(* A call to a method that sends a token is made when there is one to      *)
(* send, and the API key goes with every request but those to the single   *)
(* sign-on host.  (Tokens are loaded by each command for itself, or        *)
(* collected per participant; the requesters are put together in           *)
(* boost/context.cpp and rest/client.cpp.)                                 *)
(***************************************************************************)
RequestsCarryTheirCredentials ==
    \A c \in calls : Method(c[2]) \in DOMAIN Methods =>
        LET op == Method(c[2])
        IN  /\ Methods[op].authorization # "none" => HasToken(c[1])
            /\ "X-API-Key" \in Headers(op, HasToken(c[1])) <=>
                   op \notin {"authenticator.authenticate_with_password",
                              "authenticator.renew_authentication"}

(***************************************************************************)
(* The simulator copies the scenario when it starts, so what a participant *)
(* lacks then it lacks for ever: it starts when every participant has a    *)
(* flight and the key to its telemetry.  (Collector::collect_key_for       *)
(* counts answers that arrive in any order.)                               *)
(***************************************************************************)
SimulationHasEveryKey ==
    simulating =>
        \A p \in 1 .. MaxParticipants :
            {<<p, "flights.create_flight_by_polygon">>, <<p, "flights.start_flight_communications">>}
                \subseteq done

(***************************************************************************)
(* What a command can be given that makes it wait for a signal although it *)
(* is not meant to: a file it opens once it has a client is missing, or    *)
(* login has nothing to log in with.                                       *)
(***************************************************************************)
WaitsInVain ==
    \/ command = "evaluate" /\ f["evaluation-file"] = "missing"
    \/ command \in {"get-advisories", "query-rulesets", "search-airspace"}
           /\ f["geometry-file"] = "missing"
    \/ command = "plan-flight" /\ "missing" \in {f["token-file"], f["plan"]}
    \/ command = "login" /\ f["renew"] = "ok" /\ f["renewable"] = "unset"
    \/ command = "login" /\ f["renew"] = "unset" /\ {f["oauth"], f["anonymous"]} = {"unset"}

Serves == command \in {"daemon", "monitor-mids", "monitor-traffic", "simulate-telemetry"}

(***************************************************************************)
(* Every other command ends, with no help from a signal, unless one of its *)
(* calls is never reported.  (An early return from a callback, a missing   *)
(* stop(), or a stop() made before exec() would leave it waiting; the five *)
(* commands of WaitsInVain do exactly that.)                               *)
(***************************************************************************)
EveryCommandEnds ==
    (phase = "start" /\ ~ Serves /\ ~ WaitsInVain) ~> (phase = "over" \/ silent # {})
=============================================================================
