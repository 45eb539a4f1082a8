--------------------------- MODULE MonitorService ---------------------------
(***************************************************************************)
(* Traffic updates on their way from the daemon to programs that connect   *)
(* over gRPC: the fan-out (monitor/fan_out_traffic_monitor.cpp), the       *)
(* service with one invocation per client (monitor/grpc/service.cpp), the  *)
(* loop over the server's completion queue (grpc/server/executor.cpp), and *)
(* the client (monitor/grpc/client.cpp, grpc/client/executor.cpp).         *)
(*                                                                         *)
(* Threads: the daemon's executor runs Dequeued, its context Proceed and   *)
(* HandleUpdate; a client's executor runs ClientProceed, its context       *)
(* ClientTask.  The gRPC runtime is external: it completes the operations  *)
(* it was given, any time later, and a second Write on a stream that has   *)
(* one in progress ends the process (an assertion of that library).        *)
(***************************************************************************)
EXTENDS Integers, FiniteSets, SequencesExt

CONSTANTS
    Client,         \* programs that connect to the daemon, each at most once
    Observed,       \* bound: those whose client library is followed; the others
                    \* only call and go away
    None,           \* no client
    MaxUpdates      \* bound: updates the daemon gets from its traffic monitors

ASSUME ServiceAssumption ==
    /\ IsFiniteSet(Client) /\ Observed \subseteq Client /\ None \notin Client
    /\ MaxUpdates \in Nat

VARIABLES
    invocations,    \* the ConnectToUpdates ever allocated; the index is the tag
    subscribers,    \* the fan-out's subscribers_, by the tag each writes to
    completions,    \* the server's completion queue: tags and results
    running,        \* Executor::run is in its loop
    tasks,          \* calls of proceed dispatched to the daemon's context
    published,      \* updates the fan-out has handled
    aborted,        \* the gRPC runtime ended the daemon
    clients         \* the client library in each of the programs

vars == <<invocations, subscribers, completions, running, tasks, published, aborted, clients>>

server == <<invocations, subscribers, completions, running, tasks, published, aborted>>

-----------------------------------------------------------------------------
State == {"ready", "streaming", "finished", "deleted"}

Tags == DOMAIN invocations

Event == [tag : 1 .. Cardinality(Client) + 1, ok : BOOLEAN]

\* update is the one being written; joined, a history variable, is the last
\* update before the invocation subscribed.
Invocation == [state : State, doing : SUBSET {"request", "write", "finish"},
               client : Client \cup {None}, update : Nat, joined : Nat]

\* up: the call was started and neither side has lost it.
Task == [call : {"stream", "error", "update"}, update : Nat]

ClientState == [state : State \cup {"none"}, doing : {"none", "start", "read", "finish"},
                up : BOOLEAN, wire : Seq(Nat), tasks : Seq(Task),
                subscribed : BOOLEAN, received : Seq(Nat)]

TypeOK ==
    /\ invocations \in Seq(Invocation)
    /\ Len(invocations) <= Cardinality(Client) + 1
    /\ subscribers \subseteq Tags
    /\ completions \in Seq(Event) /\ tasks \in Seq(Event)
    /\ running \in BOOLEAN /\ aborted \in BOOLEAN
    /\ published \in 0 .. MaxUpdates
    /\ clients \in [Client -> ClientState]

\* ConnectToUpdates::ConnectToUpdates: it waits for a client right away.
NewInvocation == [state |-> "ready", doing |-> {"request"}, client |-> None, update |-> 0, joined |-> 0]

StartListening(is) == Append(is, NewInvocation)

\* Executor::Executor builds the server and starts the service, then the daemon
\* starts the thread of run().
Init ==
    /\ invocations = StartListening(<<>>)
    /\ subscribers = {}
    /\ completions = <<>> /\ tasks = <<>>
    /\ running = TRUE /\ aborted = FALSE
    /\ published = 0
    /\ clients = [c \in Client |-> [state |-> "none", doing |-> "none", up |-> FALSE, wire |-> <<>>,
                                    tasks |-> <<>>, subscribed |-> FALSE, received |-> <<>>]]

-----------------------------------------------------------------------------
(***************************************************************************)
(* The daemon.                                                             *)
(***************************************************************************)
\* The loop without the break at its end.
DequeuedWithoutBreak ==
    /\ running /\ ~aborted /\ completions # <<>>
    /\ tasks' = Append(tasks, Head(completions))
    /\ completions' = Tail(completions)
    /\ UNCHANGED <<running, invocations, subscribers, published, aborted, clients>>

\* Executor::run: the event is handed to the context; the loop ends after the
\* first one that failed.
Dequeued ==
    /\ running /\ ~aborted /\ completions # <<>>
    /\ tasks' = Append(tasks, Head(completions))
    /\ completions' = Tail(completions)
    /\ running' = Head(completions).ok
    /\ UNCHANGED <<invocations, subscribers, published, aborted, clients>>

\* state_ = finished and responder_.Finish.
Finished(i) == [i EXCEPT !.state = "finished", !.doing = @ \cup {"finish"}]

Streaming(i) == [i EXCEPT !.state = "streaming", !.joined = published]

\* Waiting for the next client only after this one has gone.
ListensAfterwards(i, ok) == i.state = "streaming" /\ ~ok

\* Every invocation that ends is replaced too.
ListensAgain(i, ok) == i.state # "finished"

\* proceed calls start_listening first of all when a client has called.
Listens(i, ok) == i.state = "ready"

\* ConnectToUpdates::proceed, on the invocation tag.
Proceeded(tag, ok) ==
    LET i == invocations[tag]
        Becomes(j) ==
            LET is == [invocations EXCEPT ![tag] = j] IN
            invocations' = IF Listens(i, ok) THEN StartListening(is) ELSE is
    IN  CASE i.state = "ready" /\ ok ->
               Becomes(Streaming(i)) /\ subscribers' = subscribers \cup {tag}
          [] i.state = "ready" /\ ~ok ->
               Becomes(Finished(i)) /\ UNCHANGED subscribers
          [] i.state = "streaming" /\ ok ->
               UNCHANGED <<invocations, subscribers>>
          [] i.state = "streaming" /\ ~ok ->
               Becomes(Finished(i)) /\ subscribers' = subscribers \ {tag}
          [] OTHER ->
               Becomes([i EXCEPT !.state = "deleted"]) /\ UNCHANGED subscribers

Proceed ==
    /\ ~aborted /\ tasks # <<>>
    /\ tasks' = Tail(tasks)
    /\ Proceeded(Head(tasks).tag, Head(tasks).ok)
    /\ UNCHANGED <<completions, running, published, aborted, clients>>

Ended(k) == [k EXCEPT !.up = FALSE, !.wire = <<>>]

Writing(tag) == "write" \in invocations[tag].doing

\* ConnectToUpdates::write, for each of the tags.
Write(tags, update) ==
    [t \in Tags |-> IF t \in tags THEN [invocations[t] EXCEPT !.doing = @ \cup {"write"}, !.update = update]
                    ELSE invocations[t]]

\* A subscriber that is still writing writes the latest update instead.
HandleUpdateCoalescing ==
    /\ ~aborted /\ published < MaxUpdates
    /\ published' = published + 1
    /\ invocations' = Write(subscribers, published')
    /\ UNCHANGED <<subscribers, completions, running, tasks, aborted, clients>>

\* FanOutTrafficMonitor::handle_update reaches every subscriber; none of them
\* asks whether its last write is done.
HandleUpdate ==
    /\ ~aborted /\ published < MaxUpdates
    /\ published' = published + 1
    /\ aborted' = \E t \in subscribers : Writing(t)
    /\ invocations' = IF aborted' THEN invocations ELSE Write(subscribers, published')
    /\ clients' = IF aborted' THEN [c \in Client |-> Ended(clients[c])] ELSE clients
    /\ UNCHANGED <<subscribers, completions, running, tasks>>

-----------------------------------------------------------------------------
(***************************************************************************)
(* External: the gRPC runtime.  A request completes when a client calls; a *)
(* write succeeds on a call that is up, and puts the update on the wire.   *)
(* What is on the wire may be lost with the call, so that success promises *)
(* nothing.                                                                *)
(***************************************************************************)
Waiting(c) ==
    /\ clients[c].state \notin {"none", "deleted"} /\ clients[c].up
    /\ \A t \in Tags : invocations[t].client # c

Complete(tag, op, ok, client) ==
    /\ ~aborted /\ op \in invocations[tag].doing
    /\ invocations' = [invocations EXCEPT ![tag].doing = @ \ {op}, ![tag].client = client]
    /\ completions' = Append(completions, [tag |-> tag, ok |-> ok])
    /\ UNCHANGED <<subscribers, running, tasks, published, aborted>>

Accepted(tag, c) ==
    /\ Waiting(c)
    /\ Complete(tag, "request", TRUE, c)
    /\ UNCHANGED clients

Written(tag) ==
    LET i == invocations[tag] IN
    /\ i.client # None
    /\ Complete(tag, "write", clients[i.client].up, i.client)
    /\ clients' = IF i.client \in Observed /\ clients[i.client].up
                  THEN [clients EXCEPT ![i.client].wire = Append(@, i.update)]
                  ELSE clients

FinishDone(tag) ==
    /\ Complete(tag, "finish", TRUE, invocations[tag].client)
    /\ UNCHANGED clients

\* The connection breaks, or one of the two programs goes away.
CallEnds(c) ==
    /\ clients[c].up
    /\ clients' = [clients EXCEPT ![c] = Ended(@)]
    /\ UNCHANGED server

-----------------------------------------------------------------------------
(***************************************************************************)
(* A client: client::Executor::run proceeds with the invocation itself,    *)
(* and leaves the callback and the updates to the context.                 *)
(***************************************************************************)
\* Client::connect_to_updates
Connect(c) ==
    /\ clients[c].state = "none"
    /\ clients' = [clients EXCEPT ![c].state = "ready", ![c].doing = "start", ![c].up = ~aborted]
    /\ UNCHANGED server

Dispatched(k, call, update) == [k EXCEPT !.tasks = Append(@, [call |-> call, update |-> update])]

\* Read is not called again after an update.
UpdateReadOnce(k) ==
    [Dispatched(k, "update", Head(k.wire)) EXCEPT !.wire = Tail(@), !.doing = "none"]

\* An update is decoded and dispatched, and the next one asked for.
UpdateRead(k) ==
    [Dispatched(k, "update", Head(k.wire)) EXCEPT !.wire = Tail(@), !.doing = "read"]

\* ConnectToUpdatesInvocation::proceed
ClientProceeded(k, ok) ==
    CASE k.state = "ready" /\ ok ->
           [Dispatched(k, "stream", 0) EXCEPT !.state = "streaming", !.doing = "read"]
      [] k.state = "ready" /\ ~ok ->
           [Dispatched(k, "error", 0) EXCEPT !.state = "finished", !.doing = "finish", !.up = FALSE]
      [] k.state = "streaming" /\ ok ->
           UpdateRead(k)
      [] k.state = "streaming" /\ ~ok ->
           [k EXCEPT !.state = "finished", !.doing = "finish"]
      [] k.state = "finished" ->
           [k EXCEPT !.state = "deleted", !.doing = "none"]

\* External: how the operation in progress may end.
MayComplete(k, ok) ==
    CASE k.doing = "start"  -> ok => k.up
      [] k.doing = "read"   -> IF ok THEN k.wire # <<>> ELSE ~k.up
      [] k.doing = "finish" -> ok
      [] k.doing = "none"   -> FALSE

ClientProceed(c, ok) ==
    /\ MayComplete(clients[c], ok)
    /\ clients' = [clients EXCEPT ![c] = ClientProceeded(@, ok)]
    /\ UNCHANGED server

\* The callback subscribes a receiver to the stream, as every caller does;
\* UpdateStreamImpl::write_update passes an update on to it.
ClientTask(c) ==
    /\ clients[c].tasks # <<>>
    /\ LET t == Head(clients[c].tasks) IN
       clients' = [clients EXCEPT
                     ![c].tasks = Tail(@),
                     ![c].subscribed = @ \/ t.call = "stream",
                     ![c].received = IF t.call = "update" /\ clients[c].subscribed
                                     THEN Append(@, t.update) ELSE @]
    /\ UNCHANGED server

-----------------------------------------------------------------------------
DaemonSteps == Dequeued \/ Proceed

Runtime ==
    \E t \in Tags :
        \/ \E c \in Client : Accepted(t, c)
        \/ Written(t)
        \/ FinishDone(t)

ClientStep(c) == (\E ok \in BOOLEAN : ClientProceed(c, ok)) \/ ClientTask(c)

Next ==
    \/ DaemonSteps \/ HandleUpdate \/ Runtime
    \/ \E c \in Client : Connect(c) \/ CallEnds(c)
    \/ \E c \in Observed : ClientStep(c)

\* Threads that have work do it, and operations complete.
Fairness ==
    /\ WF_vars(Dequeued) /\ WF_vars(Proceed)
    /\ \A t \in 1 .. Cardinality(Client) + 1 :
          /\ WF_vars(t \in Tags /\ \E c \in Client : Accepted(t, c))
          /\ WF_vars(t \in Tags /\ Written(t))
    /\ \A c \in Observed : WF_vars(\E ok \in BOOLEAN : ClientProceed(c, ok)) /\ WF_vars(ClientTask(c))

Spec == Init /\ [][Next]_vars /\ Fairness

-----------------------------------------------------------------------------
\* No call of proceed and no update is on its way to an invocation that deleted
\* itself: `delete this` (service.cpp:96) is reached by any completion in state
\* finished, and several writes may fail before the first failure is handled.
NoCallIsDeleted ==
    /\ \A k \in DOMAIN tasks : invocations[tasks[k].tag].state # "deleted"
    /\ \A t \in subscribers : invocations[t].state = "streaming"

\* A receiver gets the updates that followed its subscription, each once, in
\* order, none missing, across two processes, four threads and two queues, up
\* to the point where it lost the call.
ReceivedInOrder ==
    \A t \in Tags, c \in Observed :
        invocations[t].client = c =>
            clients[c].received = [k \in DOMAIN clients[c].received |-> invocations[t].joined + k]

\* As long as the loop of the executor runs, a client that connects is served,
\* however many are already connected.
EveryClientIsServed ==
    \A c \in Client :
        Waiting(c) ~> \/ \E t \in Tags : invocations[t].client = c /\ invocations[t].state # "ready"
                      \/ ~running \/ ~clients[c].up

\* An update on the wire of a call that stays up reaches the receiver: every
\* completion starts the next operation on both sides.
EveryUpdateArrives ==
    \A c \in Observed, u \in 1 .. MaxUpdates :
        u \in ToSet(clients[c].wire) ~> u \in ToSet(clients[c].received) \/ ~clients[c].up
=============================================================================
