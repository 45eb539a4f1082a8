# A TLA+ verification project for the AirMap Platform SDK

The AirMap Platform SDK connects drones and applications to the AirMap
services: it authenticates pilots, creates and ends flights, reports telemetry
and receives traffic. This directory models its core in TLA+, model-checks the
models with TLC and proves the main results with TLAPS. `PROJECT.json` maps every
definition to the lines it models and lists runs, mutants, hazards, findings and
theorems; this file explains them. Paths are relative to `src/src/airmap/`
unless they start with `src/`.

## 1. The system

| Component | State it keeps | Operations | Talks to |
|---|---|---|---|
| Telemetry submitter (`monitor/telemetry_submitter`) | active/inactive, eight request flags, the values of a flight session (authorization, pilot, active flights, plan, flight, traffic monitor, key), position, mission | `activate`, `deactivate`, `submit`, `set_mission_geometry`, one callback per service call | the services through `Client`; called by the vehicle monitor |
| Vehicle, mission, tracker (`mavlink/vehicle`, `mission`, `vehicle_tracker`) | vehicles by system id, their status, position, the mission being assembled | `update(msg)` for heartbeat, position, mission clear/count/item | monitors registered per vehicle |
| Monitor daemon (`monitor/daemon`, `submitting_vehicle_monitor`) | one submitter per vehicle, the gRPC executor thread | `on_vehicle_added`, `handle_mavlink_message`, `start`, destructor | channel, tracker, submitters, gRPC |
| Context (`boost/context`) | `state_`, `return_code_`, the io_service | `run`, `exec`, `stop`, `dispatch`, `schedule_in` | everything runs on it |
| gRPC service, executors, fan-out (`monitor/grpc`, `grpc`, `monitor/fan_out_traffic_monitor`) | streaming invocations, subscribers | listen, write, proceed, finish | gRPC runtime, traffic monitors |
| MQTT client and broker, traffic (`net/mqtt`, `rest/traffic`) | topics, subscriptions, connection | connect, subscribe, publish, unsubscribe | traffic subscribers |
| MAVLink channels, router, routes (`mavlink/channel`, `mavlink/boost`, `mavlink/router`) | subscribers, counters, write queues | start, stop, read, route, write | daemon, simulators |
| HTTP requests, UDP sender (`net/http`, `net/udp`) | one request in progress; one queue | resolve, connect, handshake, write, read | REST client |
| REST client (`rest`) | none of its own | one function per service call | HTTP, codecs |
| Qt client (`qt`) | a context on its own thread, a dispatcher between two event loops | the same calls, forwarded | Context |
| Commands (`cmds`) | parameters, a context, a client; a scenario with participants | validate, create client, call, stop | all of the above |
| Value types, codecs (`include/airmap`, `codec`) | tagged unions with manual lifetimes, records | construct, copy, assign, set, compare, encode, decode | everything |
| Platform, logging | none | lookup, output | - |

What is hard in it:

* **Late replies.** Every call is asynchronous and its callback holds the object
  and no session. A vehicle that lands and starts again while calls are pending
  meets the replies of its former flight.
* **Retries without a timer.** The submitter is driven only by positions: a flag
  that is set and never reset stops it for the rest of the flight.
* **Lost replies.** The services may have acted although the call failed.
* **Shared credentials.** All vehicles of a daemon act for one pilot.
* **Atomics without locks.** `run()` and `stop()` of the context race on two
  atomics and the io_service.
* **Two processes, four threads.** A traffic update passes the daemon's context,
  the gRPC runtime, the client's executor and the client's context; a simulated
  position passes the runner's thread, three queues of one route and a socket.
  Each hand-over may reorder, and either side may go away at any of them.
* **Handlers that must stop the context.** A command ends because some callback,
  on whatever path, calls `stop()` with the right argument.
* **Manual lifetimes.** Seven classes construct and destroy alternatives in raw
  storage by hand.
* **Unreliable MAVLink.** Messages are repeated, lost, and sent by anyone who
  uses a vehicle's system id.

## 2. The modules

| Module | Models | Used by |
|---|---|---|
| `SubmitterChain` | the telemetry submitter as a record and its chain of requests as operators | `TelemetrySubmitter`, `MonitorDaemon` |
| `TelemetrySubmitter` | one submitter, its vehicle and the services | `MCTelemetrySubmitter` |
| `FlightSession` | what a submitter promises, abstractly | `TelemetrySubmitter` (refinement) |
| `Vehicle` | mission assembly, vehicle state, (de)activation rule | `MonitorDaemon`, `MavlinkRoute` |
| `MonitorDaemon` | vehicles, submitters and services together | `MCMonitorDaemon` |
| `Context` | `run`, `exec`, `stop` and the io_service, by atomic access | - |
| `Rest` | the calls of the client, their requests and answers | `Commands` |
| `CommandTable`, `Commands` | every command of `airmap`, and a run of one | - |
| `MonitorService` | traffic fan-out, gRPC service and client | `MCStreams` |
| `MavlinkRoute` | scenario simulator, TCP route, TCP channel, daemons | `MCStreams` |
| `Values` | the tagged unions of the library | `MCValues` |
| `SubmitterChainProofs`, `TelemetrySubmitterProofs`, `MonitorDaemonProofs`, `ContextProofs`, `CommandsProofs`, `MavlinkRouteProofs`, `MonitorServiceProofs`, `ValuesProofs` | theorems (section 5) | - |

`MCTelemetrySubmitter`, `MCMonitorDaemon` and `MCValues` only add symmetry sets,
which are used in runs without liveness properties. `MCStreams` is two independent
systems in one module: a constant variable `part` says which of them moves, so
its states are the sum of theirs, not the product.

### `SubmitterChain`, `TelemetrySubmitter`

`SubmitterChain` has the submitter as a record with one field per member of the
class and one operator per `request_X` and `handle_request_X_finished`, from the
submitter before the call to the submitter after it. The functions call each
other within one callback, so an operator contains all it triggers: a reply is
one step that runs down the chain until a call is issued or a flag stops it.

Abstractions: an authorization, a pilot id and a flight plan are tested for
presence only, so they are booleans; a traffic monitor and an encryption key are
the flight they were requested for; a geometry is `"points"` or `"empty"`,
by what `max_element` makes of its coordinates. `calls` is the bag of callbacks
that have not run.

History variables, not in the code: `stale` marks calls issued before the last
`deactivate()`, `late` says that such a call's reply was applied since,
`undefined` collects what was read from an empty `Optional` or range. Undefined
behaviour is modelled as "execution goes on with an arbitrary value", which the
model need not distinguish; a crash is a behaviour that stops there.

`TelemetrySubmitter` adds the environment: the vehicle may activate, deactivate,
move or announce a mission at any time; any pending call may succeed, fail, or
fail after the services did the work; `open` is the set of flights that exist at
the services (external). A search returns any set of flights, because the list
may be out of date when it is applied.

### `FlightSession`

The promise behind `telemetry_submitter.h`: in a session the submitter learns
which flights are active, waits for the end of each of them, takes one flight
and then the key of that flight; the end of the session gives both up and asks
for the end of the flight. This is `Spec`, the part of the promise that is about
the flight. The header says one thing more, that `deactivate()` ends the
communications too (`EndsComms`). That is stated apart, because the submitter
keeps the one and not the other: it implements `Spec`, and `EndsComms` is refuted
(section 4). The refinement mapping (`Promise` in `TelemetrySubmitter`) forgets
flags, authorization, plan and calls, but for the pending ones that end
something, and maps `late` to `disturbed`: a session that a late reply has reached
promises only that it is over when `deactivate()` says so.

### `Vehicle`, `MonitorDaemon`

`Vehicle` has the mission assembly, the vehicle's state and the rules by which
`SubmittingVehicleMonitor` activates and deactivates. A mission item is known by
its sequence number; its `mission_type` is `"16"` (the value of
`MAV_CMD_NAV_WAYPOINT`, which the code compares it with) or another.
`MonitorDaemon` composes vehicles, one `SubmitterChain` submitter each, and the
services. A message creates vehicle and submitter if the system id is new and
then runs through every monitor: one step. Here a search finds exactly the open
flights, since all submitters share the pilot.

### `Context`

One step is one access to `state_` or `return_code_` or one call of the
io_service. Threads may call `run`, `exec` and `stop` at any time; a signal
handler calls `stop` from inside the run. The io_service is external: a FIFO of
handlers that is stopped once and never reset. `hist` records, per thread, which
stops were accepted for its run and whether one of the two known windows was hit.

### `Rest`, `CommandTable`, `Commands`

`Rest` says, for each of the 42 methods the client implements by a request, its
verb and whether it sends a token; which requesters the requests of a service
pass through (API key, routing, logging, transport); the asynchronous stages of
a request, any of which may fail; and what the callback is told of each class of
answer. Paths and bodies are left out.

`CommandTable` gives every command as data: the checks it makes, in order, before
it has a client (and whether a failing check exits, throws, or returns from the
callback only and leaves the command waiting), the calls it starts, what the
value of each leads to, and which errors it tolerates. `Commands` runs one:
`Run` is `CommandWithFlagsAndAction::run` with the command's action, `Reply` an
answer, `Stall` a connection without a deadline, `Interrupt` the signal handler
of `boost/context.cpp`, `Return` the end of `exec()`. What a command finds in its
flags and files is part of the initial state, every combination it tells apart.

Abstractions: the authenticated participants of a scenario all have a user, or
none has; an answer a LAANC suite rejects counts as an error; `telemetry-host`
being `"ok"` includes the default.

### `MonitorService`

`HandleUpdate` is `FanOutTrafficMonitor::handle_update` with one `write` per
subscriber; `Dequeued` is one round of the executor's loop; `Proceed` is
`ConnectToUpdates::proceed` on the context; `ClientProceed` and `ClientTask` are
the two halves of the client. The gRPC runtime is external: it completes the
operations it was given, in any order, and a second `Write` while one is
outstanding ends the daemon (`aborted`). Once a call ends, its wire is lost.
`FinishDone` completes the `Finish` operations, but nothing dequeues them: the
failure that led to `Finish` ended the loop.

Left out: `stop()` and the destructors of service and executors (no program
reaches them: the daemon's subscriptions keep it alive until the process ends).

### `MavlinkRoute`

`RoutePosition` is the runner's thread, which routes the next position;
`AcceptStarts`, `AnnounceNext`, `AcceptEnds` are the accept handler of the TCP
route, which announces every simulated vehicle to a new session message by
message; `RunPosted` is the next handler posted to the io_service, either the
route's, which posts to every session, or a session's, which queues a buffer;
`SessionWritten` completes an `async_write`. `DaemonConnects`, `Receive` and `Reset` are the
daemon's side. `remote_endpoint()` throws for a session whose peer is gone: then
the handler ends where it is. The order of `sessions_` is that of addresses and
therefore arbitrary; a connection that is lost loses its wire and ends reading in
one step. `joined` is a history variable: the last position routed before the
session existed. What a daemon makes of a message is `Vehicle`'s, the same
operators as in `MonitorDaemon`.

### `Values`

A behaviour has objects of one class of tagged unions (`Geometry`, `Token`,
`Error::Value`, `RuleSet::Feature::Value`, `Airspace`, `Optional`, `Outcome`),
and makes, copies, assigns, sets, decodes and deletes them. An object is its tag,
what its storage holds, and, for an `Airspace`, its members outside the union;
`faults` collects leaks, undefined reads and values lost. A behaviour ends at the
first undefined operation. Moving is copying, as in the code.

A constructor starts from `Raw` storage, which is empty except in an `Outcome`:
its union constructs a `Value` first (`Data() : value{}`), over which the
constructor constructs again. That counts as a leak; whether memory goes with it
depends on what a default-constructed `Value` owns.

Abstractions: a content is what the default constructor makes or another.
Coordinates are what equality and JSON tell apart: without altitude, with elevation
only, with an altitude, with more digits than a float has, and misread. The
members of an `Airspace` are `"plain"` (equal to a copy, and read as they were
written), `"flat"` (with a coordinate without altitude somewhere, which makes
`operator==` of the airspaces false) or `"lossy"` (with a rule, whose type the
decoder does not set, or with more digits than a float has); members that decoding
made different are `"plain"`. An enumerator that decoding leaves unset is
arbitrary, and so is a member it never reads or looks for under a name the
services do not use (`Unset`); of `"emergency"`, which has no name in the decoder,
type and details are.

## 3. What the runs check

| Run | Bounds | Result |
|---|---|---|
| `submitter` | 2 flights, 1 call pending before a new trigger | 11 properties hold, 341 000 states |
| `submitter_liveness` | 1 flight, no call pending before a new trigger | `GetsReady` holds, 5 400 states |
| `submitter_position` | 1 flight | `FlightOncePositionKnown` violated |
| `submitter_inactive` | 1 flight | `InactiveHoldsNoFlight` violated |
| `submitter_comms` | 1 flight | `EndsFlightComms` violated |
| `daemon` | 1 vehicle, 4 status values (one per group, two that fly), missions of up to 2 items | 5 properties hold, 490 000 states |
| `daemon_two_vehicles` | 2 vehicles, 1 flight | `FlightLastsWhileActive` violated |
| `context` | 3 threads, 2 tasks of which one throws, 2 runs, 1 stop besides the signals | 6 properties hold, 195 000 states |
| `context_stop` | 2 threads, 1 run, 1 stop | `StopEndsEveryRun` violated |
| `commands` | every command, every input it tells apart, 2 participants | 6 properties hold, 579 000 states |
| `streams` | service: 2 clients, 1 of them followed to its receiver, 2 updates; route: 2 daemons, 1 of them behind a filter, 1 vehicle, 1 waypoint, 2 positions, 1 message per connection | 9 properties hold, 287 000 states |
| `values` | 3 objects of each class | 2 properties hold, 948 000 states |

**Submitter.** `NoLostRequest` and `NoLostEnd`: a flag never stays set without
its value or a pending call, so the early returns never swallow a retry that was
needed. `OneCallPerStage`, `KeyBelongsToFlight`, `EndsBeforeCreating`,
`InactiveIsBlank`: within a session calls are not doubled, key and traffic are
those of the flight, old flights end before a new one is made, an inactive
submitter is quiet. These four and `NoLostEnd` carry the condition `~late`, and
TLC refutes each of them without it: a reply of an ended session breaks them. `EmptyReadNeedsLateReply`
says the same of reads of an empty `Optional`. `StopsOnlyAtDeadEnds` names the
two states from which no position gets an active submitter any further.
`NoSilentLeak`: an open flight is forgotten only when a call failed or a late
reply came. `ImplementsFlightSession` is the refinement: what a session promises of
its flight. `EndsFlightComms`, what it promises of communications, is refuted.

**Daemon.** `MissionInOrder`, `CompleteMissionIsHandedOver`: a transfer with
repeated, missing or restarted items yields increasing distinct coordinates, and
a complete mission is the one the submitter plans with. `AgreeUnlessDetour`:
status and submitter disagree only after a detour through states the switch
ignores. `FlightLastsWhileActive`: a flight ends with its `end_time` or because
its vehicle landed; true of one vehicle.

**Context.** `OneRunner` is what makes every callback of the SDK single
threaded. `OneStopper`, `FirstRunReturnsItsStop`: accepted stops do not overlap,
and the first run returns the code of the stop that ended it except in two
windows of a few instructions. `StopEndsRunning` and `TaskRuns` are liveness: an
accepted stop ends its run, and a task that throws loses no other.

**Commands.** `ZeroMeansDone`: a command that returns 0 of its own accord reached
the end of its chain of calls, and no call failed but the one a scenario only
logs. `TestCleansUp`: `airmap test` returns 0 only after it deleted its plan and
ended and deleted its flight. `RequestsCarryTheirCredentials`: a method that sends
a token is called when there is one, and the API key goes with every request but
those to the single sign-on host. `SimulationHasEveryKey`: a scenario starts with
every participant's key, in whatever order they come. `EveryCommandEnds`: a
command that is not meant to serve ends without a signal unless one of its calls
is never answered, or it is one of the cases `WaitsInVain` lists: in those a
`return` leaves a callback but not the command.

**Streams, service.** `NoCallIsDeleted`: neither a completion nor an update is on
its way to an invocation that has deleted itself. `ReceivedInOrder`: a receiver
gets the updates that followed its subscription, each once and in order, up to
the loss of the call; it is what a coalescing or doubled write would break.
`EveryClientIsServed`: whoever connects is served, until the first event that
failed has ended the executor's loop (`grpc/server/executor.cpp:52`).
`EveryUpdateArrives`: an update on the wire reaches the receiver.

**Streams, route.** `AnnouncedBeforeFlown`: positions and heartbeat reach a daemon
only behind the vehicle's whole mission. `GapsOnlyBehindDeadSessions`: a daemon
gets the positions routed since it became a session, in order, and misses one
only if a session before its own in the set has lost its connection.
`EveryDaemonIsAccepted`: who connects becomes a session unless a connection broke
while it was being accepted, after which nobody ever is. `EveryPositionArrives`:
what is routed to a live session arrives, except at a daemon with `--system-id`,
whose filter never starts the channel it filters.

**Values.** `FaultsAreKnown`: every alternative is constructed and destroyed once
and read in between only, with the exceptions the property lists (self-assignment
in all classes, the leak in `Error::Value`, comparing airspaces of
different types, `set_details` over other details, the `Value` that each constructor of an
`Outcome` constructs over). `CopiesAreEqual`: a copy has the content of its
original, and `==` finds them equal exactly where it can: never an `Optional` or
`Error::Value` without a value, nor a geometry, or an airspace around one, with a
coordinate that has no altitude. What went through JSON is equal unless its type, its
coordinates or some of its members do not survive it: decoded airports, special use
airspaces, temporary flight restrictions, heliports and emergencies need not
equal what was encoded. A decoded controlled airspace is equal only because
`operator==` looks at nothing (`airspace.cpp:480`).

**Bounds.** Two flights are needed so that one end call can fail while the other
is pending and so that a new flight can differ from the one found. One
outstanding call before a new trigger lets a call of a former session (or two,
since a reply may issue two) coexist with those of the next. Two items make a
repetition, a gap, and an end before the last. Three threads give a runner, a second
runner and a stopper. Two participants make an order of the keys, and let one finish
before the other. Two updates let the second be written while the first
is in progress; the second client makes the loop end while the first
streams. Two daemons are needed for a session behind a dead one, and one message per
connection makes the session's queue fill up. Three objects let a copy outlive a change
of its original. The `context` run was also tried with two stops, and its
safety part with three runs and three stops, with the same result. The theorems
below remove the bounds for every safety property.

**Fairness.** `TelemetrySubmitter!Fairness` assumes that positions keep arriving
(autopilots send them periodically), that every call is answered (each path
through `net/http/boost/request.cpp` ends in the callback; there is no timeout,
so a connection that stalls for ever is excluded by assumption), that a call that
is repeated for ever succeeds some time, and that abandoned flights expire
(`end_time` is one hour after the start). `Context!FairSpec` assumes only that a
thread that can take a step of `run()` or `stop()` takes it: threads are
scheduled. `Commands` assumes that the program runs and that a call that does
not stall is answered; stalling is allowed. `MonitorService` and `MavlinkRoute`
assume that a thread with a handler to run runs it and that an operation given to
gRPC or to a socket completes, with success or not. Nothing is assumed of
callers, connections, timers or signals.

`CHECK_DEADLOCK FALSE`: a context that was stopped with all calls used up
(`context`, `context_stop`), a command that is over (`commands`), streams whose
bounded updates have all arrived or whose peers are gone (`streams`) and
an execution in which an undefined operation was reached (`values`) really are at
rest.

## 4. Disagreements with the documentation

Each violation run shows one; `PROJECT.json` quotes the line.

1. A vehicle that becomes active before its first position may never get a
   flight: the creation flag is set before the position is looked at
   (`monitor/telemetry_submitter.cpp:266`).
2. A creation reply after `deactivate()` leaves a flight in an inactive submitter
   (`:303`, `:350`). The same late replies call `authorization_.get()` on an empty
   `Optional` (`:334` and others).
3. With two vehicles, activating one ends the other's flight (`:193`).
4. `stop()` is lost when it comes before `run()` has claimed the context
   (`boost/context.cpp:125`); `ContextRunner` in `qt/client.cpp` then joins for ever.
5. `deactivate()` ends the flight but not its communications
   (`monitor/telemetry_submitter.cpp:53-88`), which the header (`:72-74`) and
   `src/include/airmap/monitor/README.md:11-13` say it ends first. The scenario
   simulator does (`cmds/airmap/cmd/simulate_scenario.cpp:402`).

Others are named as exceptions in the properties that hold, or were met while
reading and have no run:

* "TcpRoute forwards all incoming messages to connected TCP clients"
  (`mavlink/boost/tcp_route.h:33`): not to those behind a session that lost its
  connection (`GapsOnlyBehindDeadSessions`).
* `~Value` "cleans up all resources" (`src/include/airmap/error.h:68`): `Error::Value`
  frees nothing (`FaultsAreKnown`).
* A copied geometry with a coordinate that has no altitude differs from its original
  and from itself, because two empty `Optional`s are unequal
  (`src/include/airmap/optional.h:87`), and so does an airspace with one;
  `src/test/geometry_test.cpp:47` tests a geometry with an altitude (`CopiesAreEqual`).
* Every constructor of an `Outcome` constructs over the `Value` its union has made, which
  nothing destroys (`src/include/airmap/outcome.h:171`, `FaultsAreKnown`).
* The JSON decoders leave enumerators unset and never read
  `instrument_approach_procedure` (`codec/json/airspace.cpp:134-209`, `CopiesAreEqual`).
* The server's executor ends at the first failed event
  (`grpc/server/executor.cpp:52`, `EveryClientIsServed`).
* 1xx and 3xx answers reach no callback (`net/http/middleware.h:35`,
  `EveryCommandEnds`).
* `FilteringChannel` never starts the channel it filters, and lacks a semicolon
  after `return` (`mavlink/channel.cpp:103`, `EveryPositionArrives`).
* `RuleSet::Feature::value(const std::string&)` tests for `Type::boolean`
  (`ruleset.cpp:161`), and `finish_verify_pilot_phone_for_id` formats an id into a
  path without a place for it: read, not modelled.

## 5. What is proved

**Submitter** (`SubmitterChainProofs`, `TelemetrySubmitterProofs`), for every
finite set of flights, every set of
geometries and any number of pending calls. None of the properties is inductive:
that a flag has its pending call depends on how all other flags, values and
calls fit together. The invariant `IInv` therefore says, of every submitter,
`ListKept` (the list of active flights is never reset), `Backed` (a flag stands
for a value or a fresh call), and, until a late reply is applied, `Session`:
`Single` (one fresh call per flag), `Ordered` (each call was issued with the
values before it in the chain), `Ending` (every listed flight is being ended) and
`Blank`. The proof follows the chain from its last function to its first: one
lemma per `request_X` states what it keeps and what it may issue, one per reply
what the invariant is afterwards, and the theorem combines them action by action.
Consequences: `TypeCorrect`, `RequestsAreNeverLost`, `EndsAreNeverLost`,
`KeysMatchFlights`, `CallsAreSingle`, `EmptyReadsNeedLateReplies`,
`InactiveStaysBlank`, `CreatesAfterEnding`, `StopsAtDeadEndsOnly`.
`NothingLeaksSilently` needs one thing more: what a run of the chain leaves alone
(`Held`) includes the pending calls, so a flight that is being ended stays
accounted for until the answer; and `deactivate()`, which alone gives a flight
up, ends it, because by `Ordered` who has a flight has an authorization.

**Refinement** (`TelemetrySubmitterProofs`): `SubmitterImplementsSession`, of the part
of the promise that is about the flight (`FlightSession!Spec`). The request
functions only move the chain on and leave what the session is about alone
(`Held`); a callback either disturbs the session (`Disturbs`) or finds the submitter
active and waiting for it (`Undisturbed`), where the invariant above gives the
guard of the abstract action.

**Daemon** (`MonitorDaemonProofs`), for any set of vehicles: the invariant `DInv`
says of each vehicle and its submitter (`PairInv`) that items are in order and
counted, that a complete mission was handed over, and what the chain proofs say
of every submitter. Consequences: `DaemonTypes`, `MissionsStayInOrder`,
`CompleteMissionsArrive`, and `DetoursOnly`, which follows a vehicle's status
through each message. `NobodyEndsItsOwnFlight` rests on a second invariant, `Apart`:
an end of some other flight may still be pending when a submitter takes a flight
(the call was repeated), but the identifier of that flight is new, and from then on
nothing is listed to be ended. So only another vehicle's submitter can end it,
and `FlightsLastForOneVehicle` follows for a daemon that has met one vehicle; with two
`FlightLastsWhileActive` is false, as `daemon_two_vehicles` shows.

**Context** (`ContextProofs`), for any threads, tasks and bounds. The invariant says where a
thread that owns the run can be (`Placed`), that it alone does (`OneRunner`),
that a stop under way is the only one and has made `state_` "stopping"
(`Stopping`), and, for the return code, who carries it: `Begun` before a stop,
`Stopped` while the stopping thread holds it, `Left` once the io_service is
stopped, `Over` after the return. Consequences: `ContextTypes`,
`RunsAreExclusive`, `StopsAreExclusive`, `FirstRunIsAnswered`.

**Service** (`MonitorServiceProofs`), for any number of clients and updates.
`NoCallIsDeleted` needs `Loop`: at most one failed event was ever handed to the
context, because the loop ended with it, so no invocation proceeds in state
finished and `delete this` is never reached. `ReceivedInOrder` needs `Settled` and
`Events`: what a client received, what waits in its context, what is on the wire
and what is being written together are the updates published since it joined, in
line. Consequences: `CallsAreNeverDeleted`, `UpdatesComeInOrder`. A second invariant
counts invocations: one waits for the next client until the executor ends, each
other one has a client of its own (`OneInvocationListens`), so there is at most
one more than there are clients (`ServiceTypeCorrect`). `StreamsTypes` is the type
invariant of `MCStreams`, where each part takes its own steps only.

**Route** (`MavlinkRouteProofs`), for any number of daemons, vehicles, waypoints
and positions (`RouteAssumption`). A position is on its way to a daemon in one of
five stages (`Place`): received, on the wire, in the session's buffers, posted by
the session, posted by the route. `OnTheWay` says of each daemon that places
further down the way hold later positions (`Ordered`), none from before the
session (`Bounded`), that unless the session or one in front of it is dead every
position since is in some place (`Lossless`), and that the received ones have no
gap (`Consecutive`); `Once`, that a daemon is one session at most. The proof has
one lemma per action, which says where each place of the next state comes from.
Consequence: `PositionsComeInOrder`. The announcement has an invariant of its own
(`AnnouncementInvariant`), which follows messages where the one above follows
positions. Wire, session's buffers and posted handlers, one behind the other, are
one queue; of each vehicle it holds the messages of its announcement that were
sent and not received, with ranks that rise by one, and then the running
simulation; and the vehicle at the daemon has assembled just what was received.
An action moves a message along the queue, appends the next or drops all of it with the
connection. Consequences: `AnnouncementsComeFirst`, `RouteTypes`.

**Commands** (`CommandsProofs`), for every command, every input, any number of
participants and every order of answers. First the tables, one command at a time: they
are `WellFormed` (a command knows how to go on from each of its calls) and, but for
`simulate-telemetry`, whose timer repeats, the calls form a tree (`Tree`). From
these alone the invariant `CInv` (`CallsFollowTheirTables`) is inductive: a call is one of
the first or follows an answer to the same participant (`Origin`, `Owned`), none is made
twice (`Once`, which needs the tree), the counter of keys is the number of participants
whose key came (`Counted`, which needs `Once`), and what `stop()` was given says how
the calls went (`Stopped`). Consequences: `CommandTypes`, `ZeroIsEarned`,
`TestLeavesNothing`, where the tree is walked back from the last call to the
first, and `ScenarioIsComplete`. `CredentialsGoWithRequests` needs the tests too: none
of them leads to a start, so what a command started passed all of them
(`Passed`), among them the one for the token it will send; an anonymous scenario gets its
tokens on the way, and a participant's calls that send one follow the one that got it.

**Values** (`ValuesProofs`), for any set of objects: every object is sound (`Good`)
or the behaviour has met undefined behaviour, and is its origin's twin (`Twin`) while it
counts as a copy; one lemma per operation. An `Outcome` is never without a tag, which is
what makes copying over its `Raw` storage right. `AirspaceRead` says what decoding an
airspace keeps, which is what `CopiesStayEqual` needs and less than `Same`: the class
of a controlled airspace is lost and not compared. Consequences:
`FaultsStayKnown`, `CopiesStayEqual`.

Assumptions, all checked by TLC too: `None` and `Nobody` are none of the other values; flights
and clients are finite sets and the observed clients are clients; geometries are
the two kinds above; a scenario has at least one vehicle and one participant; a simulated
mission fits the counters of a vehicle that assembles it; bounds are natural
numbers. `FlightsLastForOneVehicle` alone assumes more, that there is one vehicle.

Only model-checked: liveness (`GetsReady`, `StopEndsRunning`, `TaskRuns`,
`EveryCommandEnds`, `EveryClientIsServed`, `EveryUpdateArrives`,
`EveryDaemonIsAccepted`, `EveryPositionArrives`), which needs fairness and
`ENABLED` and is out of TLAPS's reach here. Every safety property of a passing
run is a theorem.

## 6. What is not modelled, and why

* **MQTT client, broker and traffic monitor** (`net/mqtt`, `rest/traffic.cpp`): each
  traffic monitor makes a broker connection of its own and subscribes to two
  distinct topics, so that the hazards of a shared client (subscriptions keyed by
  packet id, subscriber maps copied while they change) arise in no program of the
  repository. `MonitorService` begins where an update leaves the broker.
* **UDP sender, telemetry packets** (`net/udp`, `rest/telemetry.cpp`): a datagram is
  encoded, resolved and sent; nothing waits for it. The only state is a packet counter.
* **Qt dispatcher and clients** (`qt`): functors posted to two event loops, no state
  beyond the queues. What can go wrong there, stopping the context, is `context_stop`.
* **The daemon's shutdown**: not reached, see `MonitorService`.
* **UDP and serial channels**: the same read loop as the TCP channel; the framing
  of bytes is the MAVLink library's.
* **Floating point geometry** (`util/cheap_ruler.cpp`, the path of a simulated
  vehicle): out of TLC's reach.
* **A scenario without participants**: `"participants": []` starts no call, and the
  command waits until a signal. `ParticipantsAssumption` assumes it away.
* **A malformed `tcp-endpoint-ip`**: the daemon throws while it sets up its channel and
  ends before it runs.
* **Plain records and their codecs**: fields copied one by one.
* **Platform, logging**: file system and environment lookups, formatting.
* **Generated and vendored code**: `nlohmann/json.hpp`, the protobuf files and
  trompeloeil are about half of the lines of the repository, which is why
  the map covers a seventh of them.
