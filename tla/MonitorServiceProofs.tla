------------------------ MODULE MonitorServiceProofs ------------------------
(***************************************************************************)
(* NoCallIsDeleted and ReceivedInOrder for any number of clients and of    *)
(* updates.  The first rests on the loop of the executor, which hands over *)
(* at most one failed event (Loop).  The second counts: what a receiver    *)
(* got, what waits for its context, what is on the wire and what is being  *)
(* written are the updates since it subscribed (InLine).  That invocations *)
(* are never more than clients rests on OneListens; with it come the types *)
(* of the service and, with those of MavlinkRoute, of MCStreams.           *)
(***************************************************************************)
EXTENDS MCStreams, MavlinkRouteProofs, FiniteSetTheorems, TLAPS

AnyEvent == [tag : Nat, ok : BOOLEAN]

ServiceTypes ==
    /\ invocations \in Seq(Invocation)
    /\ completions \in Seq(AnyEvent) /\ tasks \in Seq(AnyEvent)
    /\ running \in BOOLEAN /\ aborted \in BOOLEAN /\ published \in Nat
    /\ clients \in [Client -> ClientState]

\* A failed event is the last one handed over, and nothing follows what it
\* finished.
Loop ==
    /\ subscribers = {t \in Tags : invocations[t].state = "streaming"}
    /\ \A e \in DOMAIN completions : completions[e].tag \in Tags
    /\ \A e \in DOMAIN tasks :
          /\ tasks[e].tag \in Tags
          /\ ~tasks[e].ok => e = Len(tasks) /\ ~running
    /\ \A t \in Tags :
          /\ invocations[t].state # "deleted"
          /\ invocations[t].state = "finished" => tasks = <<>> /\ ~running

LInv == ServiceTypes /\ Loop

-----------------------------------------------------------------------------
\* The invocation proceed leaves, and whether it has called start_listening.
Become(t, i) == [invocations EXCEPT ![t] = i]

\* What proceed does to an invocation that has not finished.
Cases(t, ok) ==
    LET i == invocations[t] IN
    \/ /\ i.state = "ready" /\ ok
       /\ invocations' = Append(Become(t, Streaming(i)), NewInvocation)
       /\ subscribers' = subscribers \cup {t}
    \/ /\ i.state = "ready" /\ ~ok
       /\ invocations' = Append(Become(t, Finished(i)), NewInvocation)
       /\ subscribers' = subscribers
    \/ /\ i.state = "streaming" /\ ok
       /\ invocations' = invocations /\ subscribers' = subscribers
    \/ /\ i.state = "streaming" /\ ~ok
       /\ invocations' = Become(t, Finished(i))
       /\ subscribers' = subscribers \ {t}

LEMMA CasesOfProceeded ==
    ASSUME NEW t, NEW ok \in BOOLEAN, Proceeded(t, ok), invocations[t].state \in {"ready", "streaming"}
    PROVE  Cases(t, ok)
<1>1. CASE invocations[t].state = "ready" /\ ok
  BY <1>1 DEF Proceeded, Listens, StartListening, Become, Cases
<1>2. CASE invocations[t].state = "ready" /\ ~ok
  BY <1>2 DEF Proceeded, Listens, StartListening, Become, Cases
<1>3. CASE invocations[t].state = "streaming" /\ ok
  BY <1>3 DEF Proceeded, Listens, StartListening, Become, Cases
<1>4. CASE invocations[t].state = "streaming" /\ ~ok
  BY <1>4 DEF Proceeded, Listens, StartListening, Become, Cases
<1> QED
  BY <1>1, <1>2, <1>3, <1>4

\* proceed is never called on an invocation that has finished, and no call
\* follows one with a failed event.
LEMMA ProceedCases ==
    ASSUME LInv, Proceed
    PROVE  \E t \in Tags, ok \in BOOLEAN :
              /\ tasks # <<>> /\ tasks[1] = [tag |-> t, ok |-> ok]
              /\ invocations[t] \in Invocation /\ Cases(t, ok)
              /\ ~ok => tasks' = <<>> /\ ~running
<1> DEFINE t == Head(tasks).tag
           ok == Head(tasks).ok
<1>1. tasks \in Seq(AnyEvent) /\ tasks # <<>> /\ tasks' = Tail(tasks)
  BY DEF LInv, ServiceTypes, Proceed
<1>2. 1 \in DOMAIN tasks /\ Head(tasks) = tasks[1] /\ Head(tasks) \in AnyEvent
  BY <1>1
<1>3. t \in Tags /\ (~ok => 1 = Len(tasks) /\ ~running)
  BY <1>2 DEF LInv, Loop
<1>4. ~ok => tasks' = <<>> /\ ~running
  BY <1>1, <1>3
<1>5. invocations[t] \in Invocation
  BY <1>3 DEF LInv, ServiceTypes, Tags
<1>6. invocations[t].state \in {"ready", "streaming"}
  BY <1>1, <1>3, <1>5 DEF LInv, Loop, Invocation, State
<1>7. ok \in BOOLEAN /\ tasks[1] = [tag |-> t, ok |-> ok]
  BY <1>2 DEF AnyEvent
<1>8. Proceeded(t, ok)
  BY DEF Proceed
<1> HIDE DEF t, ok
<1>9. Cases(t, ok)
  BY <1>6, <1>7, <1>8, CasesOfProceeded
<1> QED
  BY <1>1, <1>3, <1>4, <1>5, <1>7, <1>9

\* What becomes of a sequence of invocations.
LEMMA Replacing ==
    ASSUME ServiceTypes, NEW t \in Tags, NEW i \in Invocation
    PROVE  /\ Become(t, i) \in Seq(Invocation) /\ Len(Become(t, i)) = Len(invocations)
           /\ DOMAIN Become(t, i) = Tags
           /\ \A u \in Tags : Become(t, i)[u] = IF u = t THEN i ELSE invocations[u]
BY DEF ServiceTypes, Become, Tags

LEMMA Listening ==
    ASSUME NEW is \in Seq(Invocation)
    PROVE  LET js == Append(is, NewInvocation) IN
           /\ js \in Seq(Invocation) /\ DOMAIN js = DOMAIN is \cup {Len(is) + 1}
           /\ \A u \in DOMAIN is : js[u] = is[u]
           /\ js[Len(is) + 1] = NewInvocation /\ Len(is) + 1 \notin DOMAIN is
           /\ NewInvocation.state = "ready"
<1>1. NewInvocation \in Invocation
  BY DEF NewInvocation, Invocation, State
<1> QED
  BY <1>1 DEF NewInvocation

-----------------------------------------------------------------------------
(***************************************************************************)
(* The loop of the executor.                                               *)
(***************************************************************************)
LEMMA InitLoop == ASSUME Init PROVE LInv
<1>1. NewInvocation \in Invocation /\ NewInvocation.state = "ready"
  BY DEF NewInvocation, Invocation, State
<1>2. invocations = <<NewInvocation>>
  BY DEF Init, StartListening
<1>3. clients \in [Client -> ClientState]
  BY DEF Init, ClientState
<1>4. ServiceTypes
  <2>1. invocations \in Seq(Invocation)
    BY <1>1, <1>2
  <2>2. completions = <<>> /\ tasks = <<>> /\ running = TRUE /\ aborted = FALSE /\ published = 0
    BY DEF Init
  <2>3. <<>> \in Seq(AnyEvent)
    OBVIOUS
  <2> QED
    BY <1>3, <2>1, <2>2, <2>3 DEF ServiceTypes
<1>5. Loop
  BY <1>1, <1>2 DEF Init, Loop, Tags
<1> QED
  BY <1>4, <1>5 DEF LInv

LEMMA DequeuedLoop == ASSUME LInv, Dequeued PROVE LInv'
<1>1. /\ running /\ completions \in Seq(AnyEvent) /\ completions # <<>> /\ tasks \in Seq(AnyEvent)
      /\ completions' = Tail(completions) /\ tasks' = Append(tasks, Head(completions))
      /\ running' = Head(completions).ok
      /\ UNCHANGED <<invocations, subscribers, published, aborted, clients>>
  BY DEF LInv, ServiceTypes, Dequeued
<1>2. 1 \in DOMAIN completions /\ Head(completions) = completions[1] /\ Head(completions) \in AnyEvent
  BY <1>1
<1>3. /\ completions' \in Seq(AnyEvent) /\ tasks' \in Seq(AnyEvent) /\ tasks' # <<>>
      /\ \A e \in DOMAIN completions' : e + 1 \in DOMAIN completions /\ completions'[e] = completions[e + 1]
      /\ \A e \in DOMAIN tasks' : \/ e \in DOMAIN tasks /\ tasks'[e] = tasks[e]
                                  \/ e = Len(tasks') /\ tasks'[e] = completions[1]
  BY <1>1, <1>2
<1>4. ServiceTypes'
  BY <1>1, <1>2, <1>3 DEF LInv, ServiceTypes, AnyEvent
<1>5. Loop'
  BY <1>1, <1>2, <1>3 DEF LInv, Loop, Tags
<1> QED
  BY <1>4, <1>5 DEF LInv

LEMMA ProceedLoop == ASSUME LInv, Proceed PROVE LInv'
<1>1. PICK t \in Tags, ok \in BOOLEAN :
          /\ tasks # <<>> /\ invocations[t] \in Invocation /\ Cases(t, ok)
          /\ ~ok => tasks' = <<>> /\ ~running
  BY ProceedCases
<1>2. /\ tasks' = Tail(tasks) /\ tasks \in Seq(AnyEvent)
      /\ UNCHANGED <<completions, running, published, aborted, clients>>
  BY DEF LInv, ServiceTypes, Proceed
<1>3. /\ tasks' \in Seq(AnyEvent) /\ Len(tasks') = Len(tasks) - 1
      /\ \A e \in DOMAIN tasks' : e + 1 \in DOMAIN tasks /\ tasks'[e] = tasks[e + 1]
  BY <1>1, <1>2
<1>4. \A e \in DOMAIN tasks' : tasks'[e].tag \in Tags /\ (~tasks'[e].ok => e = Len(tasks') /\ ~running)
  BY <1>2, <1>3 DEF LInv, Loop
<1>5. \A u \in Tags : invocations[u].state \in {"ready", "streaming"}
  <2>1. \A u \in Tags : invocations[u] \in Invocation
    BY DEF LInv, ServiceTypes, Tags
  <2>2. \A u \in Tags : invocations[u].state \notin {"finished", "deleted"}
    BY <1>1 DEF LInv, Loop
  <2> QED
    BY <2>1, <2>2 DEF Invocation, State
<1>6. /\ Streaming(invocations[t]) \in Invocation /\ Streaming(invocations[t]).state = "streaming"
      /\ Finished(invocations[t]) \in Invocation /\ Finished(invocations[t]).state = "finished"
  BY <1>1 DEF LInv, ServiceTypes, Streaming, Finished, Invocation, State
<1>7. invocations' \in Seq(Invocation) /\ Tags \subseteq Tags' /\ Loop'
  <2>1. ASSUME NEW i \in Invocation, i.state \in {"streaming", "finished"},
               i.state = "finished" => tasks' = <<>> /\ ~running,
               subscribers' = IF i.state = "streaming" THEN subscribers \cup {t} ELSE subscribers \ {t},
               \/ invocations' = Become(t, i) \/ invocations' = Append(Become(t, i), NewInvocation)
        PROVE  invocations' \in Seq(Invocation) /\ Tags \subseteq Tags' /\ Loop'
    <3>1. /\ Become(t, i) \in Seq(Invocation) /\ DOMAIN Become(t, i) = Tags
          /\ \A u \in Tags : Become(t, i)[u] = IF u = t THEN i ELSE invocations[u]
      BY <2>1, Replacing DEF LInv
    <3>2. /\ invocations' \in Seq(Invocation) /\ Tags \subseteq Tags'
          /\ \A u \in Tags : invocations'[u] = IF u = t THEN i ELSE invocations[u]
          /\ \A u \in Tags' \ Tags : invocations'[u].state = "ready"
      BY <2>1, <3>1, Listening DEF Tags
    <3>3. \A u \in Tags' : /\ invocations'[u].state # "deleted"
                           /\ invocations'[u].state = "finished" => tasks' = <<>> /\ ~running
      BY <1>5, <2>1, <3>2
    <3>4. subscribers' = {u \in Tags' : invocations'[u].state = "streaming"}
      BY <1>5, <2>1, <3>2 DEF LInv, Loop
    <3> QED
      BY <1>2, <1>4, <3>2, <3>3, <3>4 DEF LInv, Loop
  <2>2. CASE invocations[t].state = "ready" /\ ok
    BY <1>1, <1>6, <2>1, <2>2 DEF Cases
  <2>3. CASE invocations[t].state = "ready" /\ ~ok
    <3>1. t \notin subscribers
      BY <2>3 DEF LInv, Loop
    <3> QED
      BY <1>1, <1>6, <2>1, <2>3, <3>1 DEF Cases
  <2>4. CASE invocations[t].state = "streaming" /\ ok
    <3>1. invocations' = invocations /\ subscribers' = subscribers
      BY <1>1, <2>4 DEF Cases
    <3> QED
      BY <1>2, <1>4, <1>5, <3>1 DEF LInv, ServiceTypes, Loop, Tags
  <2>5. CASE invocations[t].state = "streaming" /\ ~ok
    BY <1>1, <1>6, <2>1, <2>5 DEF Cases
  <2> QED
    BY <1>1, <2>2, <2>3, <2>4, <2>5 DEF Cases
<1> QED
  BY <1>2, <1>3, <1>7 DEF LInv, ServiceTypes

\* What the runtime does to the invocation whose operation completes.
Completed(t, op, c) == [invocations[t] EXCEPT !.doing = @ \ {op}, !.client = c]

LEMMA CompleteEffect ==
    ASSUME LInv, NEW t \in Tags, NEW op, NEW ok \in BOOLEAN, NEW c \in Client \cup {None},
           Complete(t, op, ok, c)
    PROVE  /\ invocations' = Become(t, Completed(t, op, c))
           /\ Completed(t, op, c) \in Invocation /\ Completed(t, op, c).state = invocations[t].state
           /\ completions' \in Seq(AnyEvent) /\ Len(completions') = Len(completions) + 1
           /\ \A e \in DOMAIN completions : completions'[e] = completions[e]
           /\ completions'[Len(completions) + 1] = [tag |-> t, ok |-> ok]
           /\ DOMAIN completions' = DOMAIN completions \cup {Len(completions) + 1}
           /\ ~aborted /\ op \in invocations[t].doing
           /\ UNCHANGED <<subscribers, running, tasks, published, aborted>>
<1>1. invocations[t] \in Invocation /\ completions \in Seq(AnyEvent) /\ t \in Nat
  BY DEF LInv, ServiceTypes, Tags
<1>2. Completed(t, op, c) \in Invocation /\ Completed(t, op, c).state = invocations[t].state
  BY <1>1 DEF Completed, Invocation
<1>3. invocations' = Become(t, Completed(t, op, c))
  BY DEF Complete, Become, Completed
<1>4. completions' = Append(completions, [tag |-> t, ok |-> ok]) /\ [tag |-> t, ok |-> ok] \in AnyEvent
  BY <1>1 DEF Complete, AnyEvent
<1>5. /\ completions' \in Seq(AnyEvent) /\ Len(completions') = Len(completions) + 1
      /\ \A e \in DOMAIN completions : completions'[e] = completions[e]
      /\ completions'[Len(completions) + 1] = [tag |-> t, ok |-> ok]
      /\ DOMAIN completions' = DOMAIN completions \cup {Len(completions) + 1}
  <2> DEFINE event == [tag |-> t, ok |-> ok]
  <2>1. event \in AnyEvent /\ completions' = Append(completions, event)
    BY <1>4
  <2> HIDE DEF event
  <2>2. /\ completions' \in Seq(AnyEvent) /\ Len(completions') = Len(completions) + 1
        /\ \A e \in DOMAIN completions : completions'[e] = completions[e]
        /\ completions'[Len(completions) + 1] = event
        /\ DOMAIN completions' = DOMAIN completions \cup {Len(completions) + 1}
    BY <1>1, <2>1
  <2> QED
    BY <2>2 DEF event
<1>6. /\ ~aborted /\ op \in invocations[t].doing
      /\ UNCHANGED <<subscribers, running, tasks, published, aborted>>
  BY DEF Complete
<1> QED
  BY <1>2, <1>3, <1>5, <1>6

LEMMA CompleteLoop ==
    ASSUME LInv, NEW t \in Tags, NEW op, NEW ok \in BOOLEAN, NEW c \in Client \cup {None},
           Complete(t, op, ok, c), clients' \in [Client -> ClientState]
    PROVE  LInv'
<1> DEFINE i == Completed(t, op, c)
<1>1. /\ invocations' = Become(t, i) /\ i \in Invocation /\ i.state = invocations[t].state
      /\ completions' \in Seq(AnyEvent)
      /\ \A e \in DOMAIN completions' : completions'[e].tag \in Tags
      /\ UNCHANGED <<subscribers, running, tasks, published, aborted>>
  <2> HIDE DEF i
  <2>1. \A e \in DOMAIN completions : completions[e].tag \in Tags
    BY DEF LInv, Loop
  <2>2. /\ \A e \in DOMAIN completions : completions'[e] = completions[e]
        /\ completions'[Len(completions) + 1].tag = t
        /\ DOMAIN completions' = DOMAIN completions \cup {Len(completions) + 1}
    <3>1. completions'[Len(completions) + 1] = [tag |-> t, ok |-> ok]
      BY CompleteEffect
    <3>2. /\ \A e \in DOMAIN completions : completions'[e] = completions[e]
          /\ DOMAIN completions' = DOMAIN completions \cup {Len(completions) + 1}
      BY CompleteEffect
    <3> QED
      BY <3>1, <3>2
  <2>3. \A e \in DOMAIN completions' : completions'[e].tag \in Tags
    BY <2>1, <2>2
  <2> QED
    BY <2>3, CompleteEffect DEF i
<1> HIDE DEF i
<1>2. /\ invocations' \in Seq(Invocation) /\ Tags' = Tags
      /\ \A u \in Tags : invocations'[u].state = invocations[u].state
  BY <1>1, Replacing DEF LInv, Tags
<1>3. ServiceTypes'
  BY <1>1, <1>2 DEF LInv, ServiceTypes
<1>4. Loop'
  BY <1>1, <1>2 DEF LInv, Loop
<1> QED
  BY <1>3, <1>4 DEF LInv

LEMMA HandleUpdateEffect ==
    ASSUME LInv, HandleUpdate
    PROVE  /\ published' = published + 1 /\ published' \in Nat
           /\ invocations' \in Seq(Invocation) /\ Tags' = Tags
           /\ \A u \in Tags : invocations'[u] =
                IF ~aborted' /\ u \in subscribers
                THEN [invocations[u] EXCEPT !.doing = @ \cup {"write"}, !.update = published']
                ELSE invocations[u]
           /\ aborted' = \E t \in subscribers : Writing(t)
           /\ clients' = IF aborted' THEN [c \in Client |-> Ended(clients[c])] ELSE clients
           /\ UNCHANGED <<subscribers, completions, running, tasks>>
<1>1. /\ invocations \in Seq(Invocation) /\ published \in Nat
      /\ \A u \in Tags : invocations[u] \in Invocation
  BY DEF LInv, ServiceTypes, Tags
<1>2. /\ published' = published + 1 /\ published' \in Nat
      /\ aborted' = \E t \in subscribers : Writing(t)
      /\ invocations' = IF aborted' THEN invocations ELSE Write(subscribers, published')
      /\ clients' = IF aborted' THEN [c \in Client |-> Ended(clients[c])] ELSE clients
      /\ UNCHANGED <<subscribers, completions, running, tasks>>
  BY <1>1 DEF HandleUpdate
<1>3. \A u \in Tags : [invocations[u] EXCEPT !.doing = @ \cup {"write"}, !.update = published'] \in Invocation
  BY <1>1, <1>2 DEF Invocation
<1>4. CASE aborted'
  BY <1>1, <1>2, <1>4 DEF Tags
<1>5. CASE ~aborted'
  <2>1. invocations' = [u \in Tags |-> IF u \in subscribers
                            THEN [invocations[u] EXCEPT !.doing = @ \cup {"write"}, !.update = published']
                            ELSE invocations[u]]
    BY <1>2, <1>5 DEF Write
  <2>2. Tags = 1 .. Len(invocations) /\ Len(invocations) \in Nat
    BY <1>1 DEF Tags
  <2>3. invocations' \in [1 .. Len(invocations) -> Invocation]
    BY <1>1, <1>3, <2>1, <2>2
  <2>4. invocations' \in Seq(Invocation)
    BY <2>2, <2>3
  <2> QED
    BY <1>2, <1>5, <2>1, <2>4 DEF Tags
<1> QED
  BY <1>4, <1>5

LEMMA EndedType ==
    ASSUME NEW k \in ClientState
    PROVE  Ended(k) \in ClientState
<1>1. <<>> \in Seq(Nat)
  OBVIOUS
<1> QED
  BY <1>1 DEF Ended, ClientState

LEMMA HandleUpdateLoop == ASSUME LInv, HandleUpdate PROVE LInv'
<1>1. /\ \A u \in Tags : invocations[u] \in Invocation
      /\ Tags' = Tags
      /\ UNCHANGED <<subscribers, completions, running, tasks>>
  <2>1. \A u \in Tags : invocations[u] \in Invocation
    BY DEF LInv, ServiceTypes, Tags
  <2> QED
    BY <2>1, HandleUpdateEffect
<1>2. \A u \in Tags : invocations'[u].state = invocations[u].state
  BY <1>1, HandleUpdateEffect DEF Invocation
<1>3. clients' \in [Client -> ClientState]
  BY HandleUpdateEffect, EndedType DEF LInv, ServiceTypes
<1>4. aborted' \in BOOLEAN
  BY HandleUpdateEffect
<1>5. ServiceTypes'
  BY <1>1, <1>3, <1>4, HandleUpdateEffect DEF LInv, ServiceTypes
<1>6. Loop'
  BY <1>1, <1>2 DEF LInv, Loop
<1> QED
  BY <1>5, <1>6 DEF LInv

-----------------------------------------------------------------------------
(***************************************************************************)
(* A client.                                                               *)
(***************************************************************************)
Fresh(k) ==
    /\ k.wire = <<>> /\ k.received = <<>>
    /\ \A e \in DOMAIN k.tasks : k.tasks[e].call # "update"

\* Before and after the call has started: which operation is in progress, and
\* what waits for the context.
Starting(k) ==
    /\ \/ k.state = "none" /\ k.doing = "none" /\ ~k.up /\ k.wire = <<>>
       \/ k.state = "ready" /\ k.doing = "start"
    /\ k.tasks = <<>> /\ ~k.subscribed /\ k.received = <<>>

Started(k) ==
    /\ \/ k.state = "streaming" /\ k.doing = "read"
       \/ k.state = "finished" /\ k.doing = "finish" /\ ~k.up
       \/ k.state = "deleted" /\ k.doing = "none" /\ ~k.up
    /\ IF k.subscribed THEN \A e \in DOMAIN k.tasks : k.tasks[e].call = "update"
       ELSE /\ k.received = <<>> /\ k.tasks # <<>> /\ k.tasks[1].call = "stream"
            /\ \A e \in DOMAIN k.tasks : e > 1 => k.tasks[e].call = "update"

Failed(k) ==
    /\ \/ k.state = "finished" /\ k.doing = "finish" /\ ~k.up
       \/ k.state = "deleted" /\ k.doing = "none" /\ ~k.up
    /\ ~k.subscribed /\ k.received = <<>> /\ Len(k.tasks) <= 1
    /\ \A e \in DOMAIN k.tasks : k.tasks[e].call = "error"

Orderly(k) == Starting(k) \/ Started(k) \/ Failed(k)

\* The one task that is not an update.
Callback(k) == IF k.subscribed THEN 0 ELSE 1

\* The updates that left the wire, and those that were put on it.
Reached(k) == Len(k.received) + (IF k.state = "streaming" THEN Len(k.tasks) - Callback(k) ELSE 0)

Sent(k) == Reached(k) + Len(k.wire)

\* Everything the client has is numbered from j on, in line.
Numbered(k, j) ==
    /\ \A e \in DOMAIN k.received : k.received[e] = j + e
    /\ \A e \in DOMAIN k.tasks :
          k.tasks[e].call = "update" => k.tasks[e].update = j + Len(k.received) + e - Callback(k)
    /\ k.state \in {"ready", "streaming"} => \A e \in DOMAIN k.wire : k.wire[e] = j + Reached(k) + e

\* What a step of the client keeps.
Follows(k, l) ==
    /\ l \in ClientState /\ Orderly(l) /\ (k.state # "none" => l.state # "none")
    /\ l.up => k.up /\ Sent(l) = Sent(k)
    /\ Fresh(k) => Fresh(l)
    /\ \A j \in Nat : Numbered(k, j) => Numbered(l, j)

\* The counts are integers.
LEMMA ReachedType ==
    ASSUME NEW k \in ClientState
    PROVE  Reached(k) \in Int
<1>1. Len(k.received) \in Nat /\ Len(k.tasks) \in Nat
  BY DEF ClientState
<1>2. Callback(k) \in Nat
  BY DEF Callback
<1>3. \A a, b, c \in Nat : a + (b - c) \in Int /\ a + 0 \in Int
  OBVIOUS
<1> QED
  BY <1>1, <1>2, <1>3 DEF Reached

LEMMA SentType ==
    ASSUME NEW k \in ClientState
    PROVE  Sent(k) \in Int
<1>1. Len(k.wire) \in Nat
  BY DEF ClientState
<1> QED
  BY <1>1, ReachedType DEF Sent

\* Tasks and updates at the end and at the start of a queue.
LEMMA QueueLemma ==
    ASSUME NEW S, NEW q \in Seq(S), NEW x \in S
    PROVE  /\ Append(q, x) \in Seq(S) /\ Len(Append(q, x)) = Len(q) + 1 /\ Append(q, x) # <<>>
           /\ DOMAIN Append(q, x) = 1 .. Len(q) + 1 /\ DOMAIN q = 1 .. Len(q)
           /\ \A e \in DOMAIN q : Append(q, x)[e] = q[e]
           /\ Append(q, x)[Len(q) + 1] = x
OBVIOUS

LEMMA TailLemma ==
    ASSUME NEW S, NEW q \in Seq(S), q # <<>>
    PROVE  /\ Tail(q) \in Seq(S) /\ Len(Tail(q)) = Len(q) - 1
           /\ DOMAIN Tail(q) = 1 .. Len(q) - 1 /\ DOMAIN q = 1 .. Len(q) /\ Len(q) \in Nat /\ Len(q) > 0
           /\ \A e \in DOMAIN Tail(q) : e + 1 \in DOMAIN q /\ Tail(q)[e] = q[e + 1]
           /\ Head(q) = q[1] /\ Head(q) \in S
OBVIOUS

\* The call has started.
LEMMA StreamFollows ==
    ASSUME NEW k \in ClientState, Orderly(k), k.state = "ready"
    PROVE  Follows(k, ClientProceeded(k, TRUE))
<1> DEFINE l == [k EXCEPT !.tasks = <<[call |-> "stream", update |-> 0]>>,
                          !.state = "streaming", !.doing = "read"]
<1>1. k.tasks = <<>> /\ ~k.subscribed /\ k.received = <<>> /\ k.wire \in Seq(Nat)
  BY DEF Orderly, Starting, Started, Failed, ClientState
<1>2. ClientProceeded(k, TRUE) = l
  BY <1>1 DEF ClientProceeded, Dispatched
<1>3. /\ l.state = "streaming" /\ l.doing = "read" /\ l.up = k.up /\ l.wire = k.wire
      /\ ~l.subscribed /\ l.received = <<>> /\ l.tasks = <<[call |-> "stream", update |-> 0]>>
  BY <1>1 DEF ClientState
<1>4. l.tasks \in Seq(Task) /\ Len(l.tasks) = 1 /\ l.tasks[1].call = "stream" /\ DOMAIN l.tasks = {1}
  <2> DEFINE task == [call |-> "stream", update |-> 0]
  <2>1. task \in Task /\ task.call = "stream" /\ l.tasks = <<task>>
    BY <1>3 DEF Task
  <2> HIDE DEF task, l
  <2> QED
    BY <2>1
<1>5. l \in ClientState
  BY <1>4 DEF ClientState, State
<1> HIDE DEF l
<1>6. Orderly(l)
  BY <1>3, <1>4 DEF Orderly, Started
<1>7. Sent(l) = Sent(k) /\ Reached(l) = Reached(k) /\ Reached(k) = 0
  BY <1>1, <1>3, <1>4 DEF Sent, Reached, Callback
<1>8. Fresh(k) => Fresh(l)
  BY <1>3, <1>4 DEF Fresh
<1>9. \A j \in Nat : Numbered(k, j) => Numbered(l, j)
  BY <1>1, <1>3, <1>4, <1>7 DEF Numbered
<1> QED
  BY <1>2, <1>3, <1>5, <1>6, <1>7, <1>8, <1>9 DEF Follows

\* It could not be started.
LEMMA ErrorFollows ==
    ASSUME NEW k \in ClientState, Orderly(k), k.state = "ready"
    PROVE  Follows(k, ClientProceeded(k, FALSE))
<1> DEFINE task == [call |-> "error", update |-> 0]
           l == [k EXCEPT !.tasks = <<task>>, !.state = "finished", !.doing = "finish", !.up = FALSE]
<1>1. k.tasks = <<>> /\ ~k.subscribed /\ k.received = <<>>
  BY DEF Orderly, Starting, Started, Failed
<1>2. ClientProceeded(k, FALSE) = l
  BY <1>1 DEF ClientProceeded, Dispatched
<1>3. /\ l.state = "finished" /\ l.doing = "finish" /\ ~l.up /\ l.wire = k.wire
      /\ ~l.subscribed /\ l.received = <<>> /\ l.tasks = <<task>>
  BY <1>1 DEF ClientState
<1>4. l.tasks \in Seq(Task) /\ Len(l.tasks) = 1 /\ l.tasks[1].call = "error" /\ DOMAIN l.tasks = {1}
  <2>1. task \in Task /\ task.call = "error"
    BY DEF Task
  <2> HIDE DEF task, l
  <2> QED
    BY <1>3, <2>1
<1>5. l \in ClientState
  <2> HIDE DEF task
  <2> QED
    BY <1>4 DEF ClientState, State
<1> HIDE DEF l
<1>6. Orderly(l)
  BY <1>3, <1>4 DEF Orderly, Failed
<1>7. Fresh(k) => Fresh(l)
  BY <1>3, <1>4 DEF Fresh
<1>8. \A j \in Nat : Numbered(l, j)
  BY <1>3, <1>4 DEF Numbered
<1> QED
  BY <1>2, <1>3, <1>5, <1>6, <1>7, <1>8 DEF Follows

\* An update goes from the wire to the tasks.
LEMMA UpdateFollows ==
    ASSUME NEW k \in ClientState, Orderly(k), k.state = "streaming", k.wire # <<>>
    PROVE  Follows(k, ClientProceeded(k, TRUE))
<1> DEFINE task == [call |-> "update", update |-> Head(k.wire)]
           l == [k EXCEPT !.tasks = Append(@, task), !.wire = Tail(@), !.doing = "read"]
<1>1. /\ Started(k) /\ k.wire \in Seq(Nat) /\ k.tasks \in Seq(Task)
      /\ k.received \in Seq(Nat) /\ k.subscribed \in BOOLEAN
  BY DEF Orderly, Starting, Failed, ClientState
<1>2. ClientProceeded(k, TRUE) = l
  BY DEF ClientProceeded, UpdateRead, Dispatched, ClientState
<1>3. task \in Task /\ task.call = "update" /\ task.update = k.wire[1]
  BY <1>1, TailLemma DEF Task
<1>4. /\ l.state = "streaming" /\ l.doing = "read" /\ l.up = k.up /\ l.wire = Tail(k.wire)
      /\ l.subscribed = k.subscribed /\ l.received = k.received /\ l.tasks = Append(k.tasks, task)
  BY DEF ClientState
<1> HIDE DEF task
<1>5. /\ l.tasks \in Seq(Task) /\ Len(l.tasks) = Len(k.tasks) + 1 /\ l.tasks # <<>>
      /\ DOMAIN l.tasks = 1 .. Len(k.tasks) + 1 /\ DOMAIN k.tasks = 1 .. Len(k.tasks)
      /\ \A e \in DOMAIN k.tasks : l.tasks[e] = k.tasks[e]
      /\ l.tasks[Len(k.tasks) + 1] = task /\ Len(k.tasks) \in Nat
  BY <1>1, <1>3, <1>4, QueueLemma
<1>6. /\ l.wire \in Seq(Nat) /\ Len(l.wire) = Len(k.wire) - 1 /\ Len(k.wire) \in Nat /\ 1 \in DOMAIN k.wire
      /\ DOMAIN l.wire \subseteq Nat
      /\ \A e \in DOMAIN l.wire : e + 1 \in DOMAIN k.wire /\ l.wire[e] = k.wire[e + 1]
  BY <1>1, <1>4, TailLemma
<1>7. l \in ClientState
  BY <1>5, <1>6 DEF ClientState
<1> HIDE DEF l
<1>8. Orderly(l)
  <2>1. ASSUME k.subscribed PROVE \A e \in DOMAIN l.tasks : l.tasks[e].call = "update"
    <3>1. \A e \in DOMAIN k.tasks : k.tasks[e].call = "update"
      BY <1>1, <2>1 DEF Started
    <3>2. ASSUME NEW e \in DOMAIN l.tasks PROVE e \in DOMAIN k.tasks \/ e = Len(k.tasks) + 1
      BY <1>5
    <3> QED
      BY <1>3, <1>5, <3>1, <3>2
  <2>2. ASSUME ~k.subscribed
        PROVE  /\ k.received = <<>> /\ l.tasks[1].call = "stream"
               /\ \A e \in DOMAIN l.tasks : e > 1 => l.tasks[e].call = "update"
    <3>1. 1 \in DOMAIN k.tasks /\ k.tasks[1].call = "stream" /\ k.received = <<>>
      BY <1>1, <2>2 DEF Started
    <3>2. l.tasks[1].call = "stream"
      BY <1>5, <3>1
    <3>3. ASSUME NEW e \in DOMAIN l.tasks, e > 1 PROVE l.tasks[e].call = "update"
      <4>1. CASE e \in DOMAIN k.tasks
        <5>1. k.tasks[e].call = "update"
          BY <1>1, <2>2, <3>3, <4>1 DEF Started
        <5> QED
          BY <1>5, <4>1, <5>1
      <4>2. CASE e = Len(k.tasks) + 1
        BY <1>3, <1>5, <4>2
      <4> QED
        BY <1>5, <4>1, <4>2
    <3> QED
      BY <3>1, <3>2, <3>3
  <2> QED
    BY <1>4, <1>5, <2>1, <2>2 DEF Orderly, Started
<1>9. Len(k.received) \in Nat /\ Callback(k) \in {0, 1} /\ Callback(l) = Callback(k)
  BY <1>1, <1>4 DEF Callback
<1>10. Reached(l) = Reached(k) + 1 /\ Reached(k) = Len(k.received) + Len(k.tasks) - Callback(k)
  <2>1. /\ Reached(l) = Len(k.received) + (Len(k.tasks) + 1 - Callback(k))
        /\ Reached(k) = Len(k.received) + (Len(k.tasks) - Callback(k))
    BY <1>4, <1>5, <1>9 DEF Reached
  <2>2. Len(k.received) \in Int /\ Len(k.tasks) \in Int /\ Callback(k) \in Int
    BY <1>5, <1>9
  <2>3. \A a, b, c \in Int : a + (b + 1 - c) = (a + (b - c)) + 1 /\ a + (b - c) = a + b - c
    OBVIOUS
  <2> QED
    BY <2>1, <2>2, <2>3
<1>11. Reached(k) \in Int /\ Sent(l) = Sent(k)
  <2>1. Reached(k) \in Int
    BY <1>5, <1>9, <1>10
  <2> QED
    BY <1>6, <1>10, <2>1 DEF Sent
<1>12. ASSUME NEW j \in Nat, Numbered(k, j) PROVE Numbered(l, j)
  <2>1. \A e \in DOMAIN l.received : l.received[e] = j + e
    BY <1>4, <1>12 DEF Numbered
  <2>2. k.wire[1] = j + Reached(k) + 1
    BY <1>6, <1>12 DEF Numbered
  <2>3. \A e \in DOMAIN l.tasks :
            l.tasks[e].call = "update" => l.tasks[e].update = j + Len(l.received) + e - Callback(l)
    <3>1. ASSUME NEW e \in DOMAIN l.tasks, l.tasks[e].call = "update"
          PROVE  l.tasks[e].update = j + Len(k.received) + e - Callback(k)
      <4>1. CASE e \in DOMAIN k.tasks
        BY <1>5, <1>12, <3>1, <4>1 DEF Numbered
      <4>2. CASE e = Len(k.tasks) + 1
        <5>1. l.tasks[e].update = j + Reached(k) + 1
          BY <1>3, <1>5, <2>2, <4>2
        <5>2. Callback(k) \in Int
          BY <1>9
        <5>3. Len(k.received) \in Nat /\ Len(k.tasks) \in Nat
          BY <1>5, <1>9
        <5>4. j + Reached(k) + 1 = j + Len(k.received) + (Len(k.tasks) + 1) - Callback(k)
          BY <1>10, <5>2, <5>3
        <5> QED
          BY <4>2, <5>1, <5>4
      <4> QED
        BY <1>5, <4>1, <4>2
    <3> QED
      BY <1>4, <1>9, <3>1
  <2>4. \A e \in DOMAIN l.wire : l.wire[e] = j + Reached(l) + e
    <3>1. \A e \in DOMAIN k.wire : k.wire[e] = j + Reached(k) + e
      BY <1>12 DEF Numbered
    <3> QED
      BY <1>6, <1>10, <1>11, <3>1
  <2> QED
    BY <2>1, <2>3, <2>4 DEF Numbered
<1> QED
  BY <1>2, <1>4, <1>7, <1>8, <1>11, <1>12 DEF Follows, Fresh

\* The stream has ended, and then the call has.
LEMMA EndFollows ==
    ASSUME NEW k \in ClientState, Orderly(k), NEW ok \in BOOLEAN,
           \/ k.state = "streaming" /\ ~ok /\ ~k.up
           \/ k.state = "finished" /\ ok
    PROVE  Follows(k, ClientProceeded(k, ok))
<1> DEFINE l == ClientProceeded(k, ok)
<1>1. \/ k.state = "streaming" /\ ~ok /\ l = [k EXCEPT !.state = "finished", !.doing = "finish"]
      \/ k.state = "finished" /\ ok /\ l = [k EXCEPT !.state = "deleted", !.doing = "none"]
  <2>1. CASE k.state = "streaming" /\ ~ok
    BY <2>1 DEF ClientProceeded
  <2>2. CASE k.state = "finished" /\ ok
    BY <2>2 DEF ClientProceeded
  <2> QED
    BY <2>1, <2>2
<1>2. ~k.up
  BY DEF Orderly, Starting, Started, Failed
<1> HIDE DEF l
<1>3. /\ \/ l.state = "finished" /\ l.doing = "finish"
         \/ l.state = "deleted" /\ l.doing = "none"
      /\ l.up = k.up /\ l.wire = k.wire /\ l.tasks = k.tasks
      /\ l.subscribed = k.subscribed /\ l.received = k.received /\ l \in ClientState
  <2>1. CASE l = [k EXCEPT !.state = "finished", !.doing = "finish"]
    BY <2>1 DEF ClientState, State
  <2>2. CASE l = [k EXCEPT !.state = "deleted", !.doing = "none"]
    BY <2>2 DEF ClientState, State
  <2> QED
    BY <1>1, <2>1, <2>2
<1>4. Started(k) \/ Failed(k)
  BY <1>1 DEF Orderly, Starting
<1>5. Orderly(l)
  BY <1>2, <1>3, <1>4 DEF Orderly, Started, Failed
<1>6. \A j \in Nat : Numbered(k, j) => Numbered(l, j)
  BY <1>3 DEF Numbered, Callback
<1> QED
  BY <1>2, <1>3, <1>5, <1>6 DEF Follows, Fresh, l

\* Whatever operation completes.
LEMMA ProceedFollows ==
    ASSUME NEW k \in ClientState, Orderly(k), NEW ok \in BOOLEAN, MayComplete(k, ok)
    PROVE  Follows(k, ClientProceeded(k, ok))
<1>1. CASE k.doing = "start"
  <2>1. k.state = "ready"
    BY <1>1 DEF Orderly, Starting, Started, Failed
  <2> QED
    BY <2>1, StreamFollows, ErrorFollows
<1>2. CASE k.doing = "read"
  <2>1. k.state = "streaming"
    BY <1>2 DEF Orderly, Starting, Started, Failed
  <2>2. IF ok THEN k.wire # <<>> ELSE ~k.up
    BY <1>2 DEF MayComplete
  <2> QED
    BY <2>1, <2>2, UpdateFollows, EndFollows
<1>3. CASE k.doing = "finish"
  <2>1. k.state = "finished"
    BY <1>3 DEF Orderly, Starting, Started, Failed
  <2>2. ok
    BY <1>3 DEF MayComplete
  <2> QED
    BY <2>1, <2>2, EndFollows
<1>4. CASE k.doing = "none"
  BY <1>4 DEF MayComplete
<1> QED
  BY <1>1, <1>2, <1>3, <1>4 DEF ClientState

\* What the context has run of a client's tasks.
TaskRun(k) ==
    [k EXCEPT !.tasks = Tail(@),
              !.subscribed = @ \/ Head(k.tasks).call = "stream",
              !.received = IF Head(k.tasks).call = "update" /\ k.subscribed
                           THEN Append(@, Head(k.tasks).update) ELSE @]

LEMMA TaskFields ==
    ASSUME NEW k \in ClientState, k.tasks # <<>>
    PROVE  LET l == TaskRun(k) IN
           /\ l \in ClientState
           /\ l.state = k.state /\ l.doing = k.doing /\ l.up = k.up /\ l.wire = k.wire
           /\ l.tasks = Tail(k.tasks) /\ l.tasks \in Seq(Task) /\ Len(l.tasks) = Len(k.tasks) - 1
           /\ \A e \in DOMAIN l.tasks : e \in Nat /\ e > 0 /\ e + 1 \in DOMAIN k.tasks /\ l.tasks[e] = k.tasks[e + 1]
           /\ 1 \in DOMAIN k.tasks /\ Len(k.tasks) \in Nat /\ k.tasks[1] \in Task
           /\ l.subscribed = (k.subscribed \/ k.tasks[1].call = "stream")
           /\ l.received = IF k.tasks[1].call = "update" /\ k.subscribed
                           THEN Append(k.received, k.tasks[1].update) ELSE k.received
           /\ k.received \in Seq(Nat)
<1>1. /\ k.tasks \in Seq(Task) /\ k.received \in Seq(Nat) /\ k.subscribed \in BOOLEAN
  BY DEF ClientState
<1>2. /\ Tail(k.tasks) \in Seq(Task) /\ Len(Tail(k.tasks)) = Len(k.tasks) - 1
      /\ \A e \in DOMAIN Tail(k.tasks) : /\ e \in Nat /\ e > 0 /\ e + 1 \in DOMAIN k.tasks
                                         /\ Tail(k.tasks)[e] = k.tasks[e + 1]
      /\ 1 \in DOMAIN k.tasks /\ Len(k.tasks) \in Nat
      /\ Head(k.tasks) = k.tasks[1] /\ k.tasks[1] \in Task
  BY <1>1, TailLemma
<1>3. k.tasks[1].update \in Nat
  BY <1>2 DEF Task
<1>4. Append(k.received, k.tasks[1].update) \in Seq(Nat)
  BY <1>1, <1>3, QueueLemma
<1> QED
  BY <1>1, <1>2, <1>4 DEF TaskRun, ClientState

\* The callback has run.
LEMMA CallbackFollows ==
    ASSUME NEW k \in ClientState, Orderly(k), k.tasks # <<>>, k.tasks[1].call = "stream"
    PROVE  Follows(k, TaskRun(k))
<1> DEFINE l == TaskRun(k)
<1>1. Started(k) /\ ~k.subscribed
  BY TaskFields DEF Orderly, Starting, Started, Failed
<1>2. /\ l \in ClientState
      /\ l.state = k.state /\ l.doing = k.doing /\ l.up = k.up /\ l.wire = k.wire
      /\ Len(l.tasks) = Len(k.tasks) - 1 /\ Len(k.tasks) \in Nat
      /\ \A e \in DOMAIN l.tasks : e \in Nat /\ e > 0 /\ e + 1 \in DOMAIN k.tasks /\ l.tasks[e] = k.tasks[e + 1]
      /\ l.subscribed /\ l.received = k.received
  BY TaskFields
<1> HIDE DEF l
<1>3. k.received = <<>> /\ \A e \in DOMAIN k.tasks : e > 1 => k.tasks[e].call = "update"
  BY <1>1 DEF Started
<1>4. \A e \in DOMAIN l.tasks : l.tasks[e].call = "update"
  BY <1>2, <1>3
<1>5. Orderly(l)
  BY <1>1, <1>2, <1>4 DEF Orderly, Started
<1>6. Callback(k) = 1 /\ Callback(l) = 0 /\ Len(k.received) = 0
  BY <1>1, <1>2, <1>3 DEF Callback
<1>7. Reached(l) = Reached(k)
  BY <1>2, <1>6 DEF Reached
<1>8. Fresh(k) => Fresh(l)
  BY <1>2 DEF Fresh
<1>9. ASSUME NEW j \in Nat, Numbered(k, j) PROVE Numbered(l, j)
  <2>1. \A e \in DOMAIN k.tasks : k.tasks[e].call = "update" => k.tasks[e].update = j + e - 1
    BY <1>6, <1>9 DEF Numbered
  <2>2. \A e \in DOMAIN l.tasks : l.tasks[e].update = j + (e + 1) - 1
    BY <1>2, <1>4, <2>1
  <2>3. \A e \in DOMAIN l.tasks : l.tasks[e].update = j + Len(l.received) + e - Callback(l)
    BY <1>2, <1>6, <2>2
  <2> QED
    BY <1>2, <1>7, <1>9, <2>3 DEF Numbered
<1> QED
  BY <1>1, <1>2, <1>5, <1>7, <1>8, <1>9 DEF Follows, Sent, Started, l

\* The receiver got an update.
LEMMA ReceiveFollows ==
    ASSUME NEW k \in ClientState, Orderly(k), k.tasks # <<>>, k.tasks[1].call = "update"
    PROVE  Follows(k, TaskRun(k))
<1> DEFINE l == TaskRun(k)
<1>1. Started(k) /\ k.subscribed
  BY TaskFields DEF Orderly, Starting, Started, Failed
<1>2. /\ l \in ClientState
      /\ l.state = k.state /\ l.doing = k.doing /\ l.up = k.up /\ l.wire = k.wire
      /\ Len(l.tasks) = Len(k.tasks) - 1 /\ Len(k.tasks) \in Nat
      /\ \A e \in DOMAIN l.tasks : e \in Nat /\ e > 0 /\ e + 1 \in DOMAIN k.tasks /\ l.tasks[e] = k.tasks[e + 1]
      /\ 1 \in DOMAIN k.tasks /\ k.tasks[1] \in Task
      /\ l.subscribed /\ l.received = Append(k.received, k.tasks[1].update)
      /\ k.received \in Seq(Nat)
  BY <1>1, TaskFields
<1> HIDE DEF l
<1>3. /\ Len(l.received) = Len(k.received) + 1 /\ Len(k.received) \in Nat
      /\ DOMAIN l.received = 1 .. Len(k.received) + 1 /\ DOMAIN k.received = 1 .. Len(k.received)
      /\ \A e \in DOMAIN k.received : l.received[e] = k.received[e]
      /\ l.received[Len(k.received) + 1] = k.tasks[1].update
  <2>1. k.tasks[1].update \in Nat
    BY <1>2 DEF Task
  <2> QED
    BY <1>2, <2>1, QueueLemma
<1>4. \A e \in DOMAIN k.tasks : k.tasks[e].call = "update"
  BY <1>1 DEF Started
<1>5. Orderly(l)
  BY <1>1, <1>2, <1>4 DEF Orderly, Started
<1>6. Callback(k) = 0 /\ Callback(l) = 0
  BY <1>1, <1>2 DEF Callback
<1>7. k.state = "streaming" => Reached(l) = Reached(k)
  <2>1. SUFFICES ASSUME k.state = "streaming" PROVE Reached(l) = Reached(k)
    OBVIOUS
  <2>2. /\ Reached(l) = Len(k.received) + 1 + (Len(k.tasks) - 1 - 0)
        /\ Reached(k) = Len(k.received) + (Len(k.tasks) - 0)
    BY <1>2, <1>3, <1>6, <2>1 DEF Reached
  <2>3. Len(k.received) \in Nat /\ Len(k.tasks) \in Nat
    BY <1>2, <1>3
  <2>4. \A a, b \in Nat : a + 1 + (b - 1 - 0) = a + (b - 0)
    OBVIOUS
  <2> QED
    BY <2>2, <2>3, <2>4
<1>8. ~Fresh(k)
  BY <1>2, <1>4 DEF Fresh
<1>9. ASSUME NEW j \in Nat, Numbered(k, j) PROVE Numbered(l, j)
  <2>1. \A e \in DOMAIN k.tasks : k.tasks[e].update = j + Len(k.received) + e
    <3>1. \A e \in DOMAIN k.tasks : k.tasks[e].update = j + Len(k.received) + e - 0
      BY <1>4, <1>6, <1>9 DEF Numbered
    <3>2. DOMAIN k.tasks \subseteq Nat
      BY DEF ClientState
    <3> QED
      BY <1>3, <3>1, <3>2
  <2>2. ASSUME NEW e \in DOMAIN l.received PROVE l.received[e] = j + e
    <3>1. CASE e \in DOMAIN k.received
      BY <1>3, <1>9, <3>1 DEF Numbered
    <3>2. CASE e = Len(k.received) + 1
      <4>1. k.tasks[1].update = j + Len(k.received) + 1
        BY <1>2, <2>1
      <4>2. l.received[e] = k.tasks[1].update
        BY <1>3, <3>2
      <4> QED
        BY <1>3, <3>2, <4>1, <4>2
    <3>3. e \in DOMAIN k.received \/ e = Len(k.received) + 1
      BY <1>3
    <3> QED
      BY <3>1, <3>2, <3>3
  <2>3. ASSUME NEW e \in DOMAIN l.tasks
        PROVE  l.tasks[e].update = j + Len(l.received) + e - Callback(l)
    <3>1. e \in Nat /\ e + 1 \in DOMAIN k.tasks /\ l.tasks[e] = k.tasks[e + 1]
      BY <1>2
    <3>2. l.tasks[e].update = j + Len(k.received) + (e + 1)
      BY <2>1, <3>1
    <3>3. PICK n \in Nat : n = Len(k.received) /\ Len(l.received) = n + 1
      BY <1>3
    <3>4. l.tasks[e].update = j + n + (e + 1)
      BY <3>2, <3>3
    <3>5. j + n + (e + 1) = j + (n + 1) + e - 0
      BY <3>1, <3>3
    <3> QED
      BY <1>6, <3>3, <3>4, <3>5
  <2>4. l.state \in {"ready", "streaming"} => k.state = "streaming"
    BY <1>1, <1>2 DEF Started
  <2> QED
    BY <1>2, <1>7, <1>9, <2>2, <2>3, <2>4 DEF Numbered
<1>10. l.up => k.state = "streaming"
  BY <1>1, <1>2 DEF Started
<1> QED
  BY <1>1, <1>2, <1>5, <1>7, <1>8, <1>9, <1>10 DEF Follows, Sent, Started, l

LEMMA TaskFollows ==
    ASSUME NEW k \in ClientState, Orderly(k), k.tasks # <<>>
    PROVE  Follows(k, TaskRun(k))
<1>1. k.tasks[1].call \in {"stream", "error", "update"}
  BY TaskFields DEF Task
<1>2. CASE k.tasks[1].call = "error"
  <2> DEFINE l == TaskRun(k)
  <2>1. Failed(k)
    BY <1>2, TaskFields DEF Orderly, Starting, Started
  <2>2. /\ l \in ClientState
        /\ l.state = k.state /\ l.doing = k.doing /\ l.up = k.up /\ l.wire = k.wire
        /\ Len(l.tasks) = Len(k.tasks) - 1 /\ Len(k.tasks) \in Nat
        /\ \A e \in DOMAIN l.tasks : e \in Nat /\ e > 0 /\ e + 1 \in DOMAIN k.tasks
        /\ l.tasks \in Seq(Task)
        /\ ~l.subscribed /\ l.received = k.received
    BY <1>2, <2>1, TaskFields DEF Failed
  <2> HIDE DEF l
  <2>3. DOMAIN l.tasks = {} /\ Len(l.tasks) <= 1
    BY <2>1, <2>2 DEF Failed
  <2>4. Orderly(l)
    BY <2>1, <2>2, <2>3 DEF Orderly, Failed
  <2>5. \A j \in Nat : Numbered(k, j) => Numbered(l, j)
    BY <2>1, <2>2, <2>3 DEF Numbered, Failed
  <2> QED
    BY <2>1, <2>2, <2>3, <2>4, <2>5 DEF Follows, Fresh, Failed, l
<1> QED
  BY <1>1, <1>2, CallbackFollows, ReceiveFollows

-----------------------------------------------------------------------------
(***************************************************************************)
(* Both sides of a call.                                                   *)
(***************************************************************************)
Shaped(t) ==
    LET i == invocations[t] IN
    /\ i.client = None => i.state = "ready" /\ i.doing = {"request"}
    /\ i.client # None => "request" \notin i.doing /\ clients[i.client].state # "none"
    /\ i.state = "ready" => "write" \notin i.doing
    /\ i.state = "finished" => ~clients[i.client].up

\* An event belongs to a call, and fails only once that has ended.
Caused(e) ==
    /\ invocations[e.tag].client # None
    /\ ~e.ok => ~clients[invocations[e.tag].client].up

\* Everything published since the subscription is with the client or is being
\* written, as long as the call is up.
Counted(t) ==
    LET i == invocations[t]
        k == clients[i.client] IN
    i.client \in Observed /\ i.state # "ready" =>
        /\ Numbered(k, i.joined)
        /\ k.up => /\ i.joined + Sent(k) + (IF "write" \in i.doing THEN 1 ELSE 0) = published
                   /\ "write" \in i.doing => i.update = published

Unserved(c) == \A t \in Tags : invocations[t].client = c => invocations[t].state = "ready"

Settled ==
    /\ \A c \in Client : Orderly(clients[c]) /\ (Unserved(c) => Fresh(clients[c]))
    /\ \A t \in Tags : Shaped(t) /\ Counted(t)
    /\ \A t, u \in Tags : invocations[t].client = invocations[u].client /\ invocations[t].client # None => t = u

Events ==
    /\ \A e \in DOMAIN completions : Caused(completions[e])
    /\ \A e \in DOMAIN tasks : Caused(tasks[e])

InLine == Settled /\ Events

SInv == LInv /\ InLine

LEMMA InitInLine == ASSUME Init PROVE InLine
<1>1. invocations = <<NewInvocation>> /\ Tags = {1} /\ invocations[1] = NewInvocation
  BY DEF Init, StartListening, Tags
<1>2. ASSUME NEW c \in Client PROVE Orderly(clients[c]) /\ Fresh(clients[c])
  BY DEF Init, Orderly, Starting, Fresh
<1>3. completions = <<>> /\ tasks = <<>>
  BY DEF Init
<1>4. Shaped(1) /\ Counted(1)
  BY <1>1, ServiceAssumption DEF Shaped, Counted, NewInvocation
<1> QED
  BY <1>1, <1>2, <1>3, <1>4 DEF InLine, Settled, Events

\* A client that does nothing.
LEMMA SelfFollows ==
    ASSUME NEW k \in ClientState, Orderly(k)
    PROVE  Follows(k, k)
BY DEF Follows

\* A call that ends.
LEMMA EndedFollows ==
    ASSUME NEW k \in ClientState, Orderly(k)
    PROVE  Follows(k, Ended(k))
<1> DEFINE l == Ended(k)
<1>1. l \in ClientState
  BY EndedType
<1>2. /\ l.state = k.state /\ l.doing = k.doing /\ ~l.up /\ l.wire = <<>> /\ l.tasks = k.tasks
      /\ l.subscribed = k.subscribed /\ l.received = k.received
  BY DEF Ended, ClientState
<1> HIDE DEF l
<1>3. Orderly(l)
  BY <1>2 DEF Orderly, Starting, Started, Failed
<1>4. \A j \in Nat : Numbered(k, j) => Numbered(l, j)
  BY <1>2 DEF Numbered, Callback
<1> QED
  BY <1>1, <1>2, <1>3, <1>4 DEF Follows, Fresh, l

\* Steps of clients alone.
LEMMA ClientsMove ==
    ASSUME SInv, UNCHANGED invocations,
           \A c \in Client : /\ Orderly(clients'[c])
                             /\ Fresh(clients[c]) => Fresh(clients'[c])
                             /\ clients[c].state # "none" => Follows(clients[c], clients'[c]),
           published' = published \/ \A c \in Client : ~clients'[c].up
    PROVE  /\ Settled'
           /\ \A e : e.tag \in Tags /\ Caused(e) => Caused(e)'
<1>1. invocations' = invocations /\ Tags' = Tags
  BY DEF Tags
<1>2. ASSUME NEW t \in Tags, invocations[t].client # None
      PROVE  LET k == clients[invocations[t].client]
                 l == clients'[invocations[t].client] IN
             /\ Follows(k, l) /\ l.state # "none" /\ (l.up => k.up /\ Sent(l) = Sent(k) /\ published' = published)
             /\ invocations[t].joined \in Nat
  <2>1. invocations[t] \in Invocation
    BY DEF SInv, LInv, ServiceTypes, Tags
  <2>2. invocations[t].client \in Client /\ invocations[t].joined \in Nat
    BY <1>2, <2>1 DEF Invocation
  <2>3. clients[invocations[t].client].state # "none"
    BY <1>2 DEF SInv, InLine, Settled, Shaped
  <2> QED
    BY <2>2, <2>3 DEF Follows
<1>3. ASSUME NEW t \in Tags PROVE Shaped(t)'
  <2>1. Shaped(t)
    BY DEF SInv, InLine, Settled
  <2>2. CASE invocations[t].client = None
    BY <1>1, <2>1, <2>2 DEF Shaped
  <2>3. CASE invocations[t].client # None
    BY <1>1, <1>2, <2>1, <2>3 DEF Shaped
  <2> QED
    BY <2>2, <2>3
<1>4. ASSUME NEW t \in Tags PROVE Counted(t)'
  <2>1. Counted(t)
    BY DEF SInv, InLine, Settled
  <2>2. invocations[t].client \in Observed => invocations[t].client # None
    BY ServiceAssumption
  <2> QED
    BY <1>1, <1>2, <2>1, <2>2 DEF Counted, Follows
<1>5. ASSUME NEW e, e.tag \in Tags, Caused(e) PROVE Caused(e)'
  BY <1>1, <1>2, <1>5 DEF Caused
<1>6. ASSUME NEW c \in Client PROVE (Orderly(clients[c]) /\ (Unserved(c) => Fresh(clients[c])))'
  <2>1. Unserved(c)' <=> Unserved(c)
    BY <1>1 DEF Unserved
  <2>2. /\ Orderly(clients[c])' <=> Orderly(clients'[c])
        /\ Fresh(clients[c])' <=> Fresh(clients'[c])
    BY DEF Orderly, Starting, Started, Failed, Fresh
  <2> QED
    BY <2>1, <2>2 DEF SInv, InLine, Settled
<1>7. \A t, u \in Tags : invocations'[t].client = invocations'[u].client /\ invocations'[t].client # None => t = u
  BY <1>1 DEF SInv, InLine, Settled
<1> QED
  BY <1>1, <1>3, <1>4, <1>5, <1>6, <1>7 DEF Settled

\* The events are the same, too.
LEMMA SameEvents ==
    ASSUME SInv, UNCHANGED <<completions, tasks>>,
           \A e : e.tag \in Tags /\ Caused(e) => Caused(e)'
    PROVE  Events'
<1>1. completions' = completions /\ tasks' = tasks
  OBVIOUS
<1>2. /\ \A e \in DOMAIN completions : completions[e].tag \in Tags /\ Caused(completions[e])
      /\ \A e \in DOMAIN tasks : tasks[e].tag \in Tags /\ Caused(tasks[e])
  BY DEF SInv, LInv, Loop, InLine, Events
<1>3. /\ \A e \in DOMAIN completions : Caused(completions[e])'
      /\ \A e \in DOMAIN tasks : Caused(tasks[e])'
  BY <1>1, <1>2 DEF Caused
<1> QED
  BY <1>1, <1>3 DEF Events

LEMMA OneClientMoves ==
    ASSUME SInv, UNCHANGED server, NEW c \in Client, NEW l \in ClientState,
           clients' = [clients EXCEPT ![c] = l], Orderly(l), Fresh(clients[c]) => Fresh(l),
           clients[c].state # "none" => Follows(clients[c], l)
    PROVE  SInv'
<1>1. /\ UNCHANGED <<invocations, subscribers, completions, running, tasks, published, aborted>>
      /\ clients \in [Client -> ClientState] /\ Tags' = Tags
  BY DEF server, SInv, LInv, ServiceTypes, Tags
<1>2. clients' \in [Client -> ClientState]
  BY <1>1
<1>3. LInv'
  <2>1. ServiceTypes'
    BY <1>1, <1>2 DEF SInv, LInv, ServiceTypes
  <2>2. Loop'
    BY <1>1 DEF SInv, LInv, Loop
  <2> QED
    BY <2>1, <2>2 DEF LInv
<1>4. ASSUME NEW d \in Client
      PROVE  /\ Orderly(clients'[d]) /\ (Fresh(clients[d]) => Fresh(clients'[d]))
             /\ clients[d].state # "none" => Follows(clients[d], clients'[d])
  <2>1. CASE d = c
    BY <1>1, <2>1
  <2>2. CASE d # c
    <3>1. clients'[d] = clients[d] /\ clients[d] \in ClientState /\ Orderly(clients[d])
      BY <1>1, <2>2 DEF SInv, InLine, Settled
    <3> QED
      BY <3>1, SelfFollows
  <2> QED
    BY <2>1, <2>2
<1>5. InLine'
  BY <1>1, <1>4, ClientsMove, SameEvents DEF InLine
<1> QED
  BY <1>3, <1>5 DEF SInv

LEMMA ClientIs ==
    ASSUME SInv, NEW c \in Client
    PROVE  clients[c] \in ClientState /\ Orderly(clients[c])
BY DEF SInv, LInv, ServiceTypes, InLine, Settled

LEMMA ConnectStep ==
    ASSUME SInv, NEW c \in Client, Connect(c)
    PROVE  SInv'
<1> DEFINE k == clients[c]
           l == [k EXCEPT !.state = "ready", !.doing = "start", !.up = ~aborted]
<1>1. k \in ClientState /\ Orderly(k) /\ k.state = "none" /\ aborted \in BOOLEAN
  BY ClientIs DEF Connect, SInv, LInv, ServiceTypes
<1>2. UNCHANGED server /\ clients' = [clients EXCEPT ![c] = l]
  BY DEF Connect
<1>3. /\ l \in ClientState /\ l.state = "ready" /\ l.doing = "start" /\ l.wire = k.wire
      /\ l.tasks = k.tasks /\ l.subscribed = k.subscribed /\ l.received = k.received
  BY <1>1 DEF ClientState, State
<1>4. Starting(k)
  BY <1>1 DEF Orderly, Started, Failed
<1> HIDE DEF l
<1>5. Orderly(l)
  BY <1>3, <1>4 DEF Orderly, Starting
<1>6. Fresh(k) => Fresh(l)
  BY <1>3 DEF Fresh
<1> QED
  BY <1>1, <1>2, <1>3, <1>5, <1>6, OneClientMoves

LEMMA CallEndsStep ==
    ASSUME SInv, NEW c \in Client, CallEnds(c)
    PROVE  SInv'
<1>1. clients[c] \in ClientState /\ Orderly(clients[c])
  BY ClientIs
<1>2. UNCHANGED server /\ clients' = [clients EXCEPT ![c] = Ended(clients[c])]
  BY DEF CallEnds
<1>3. Follows(clients[c], Ended(clients[c]))
  BY <1>1, EndedFollows
<1> QED
  BY <1>2, <1>3, OneClientMoves DEF Follows

LEMMA ClientProceedStep ==
    ASSUME SInv, NEW c \in Client, NEW ok \in BOOLEAN, ClientProceed(c, ok)
    PROVE  SInv'
<1>1. clients[c] \in ClientState /\ Orderly(clients[c])
  BY ClientIs
<1>2. /\ UNCHANGED server /\ clients' = [clients EXCEPT ![c] = ClientProceeded(clients[c], ok)]
      /\ MayComplete(clients[c], ok)
  BY DEF ClientProceed
<1>3. Follows(clients[c], ClientProceeded(clients[c], ok))
  BY <1>1, <1>2, ProceedFollows
<1> QED
  BY <1>2, <1>3, OneClientMoves DEF Follows

LEMMA ClientTaskStep ==
    ASSUME SInv, NEW c \in Client, ClientTask(c)
    PROVE  SInv'
<1>1. clients[c] \in ClientState /\ Orderly(clients[c]) /\ clients[c].tasks # <<>>
  BY ClientIs DEF ClientTask
<1>2. UNCHANGED server
  BY DEF ClientTask
<1>3. clients' = [clients EXCEPT ![c] = TaskRun(clients[c])]
  <2>1. clients \in [Client -> ClientState]
    BY DEF SInv, LInv, ServiceTypes
  <2> QED
    BY <2>1 DEF ClientTask, TaskRun, ClientState
<1>4. Follows(clients[c], TaskRun(clients[c]))
  BY <1>1, TaskFollows
<1> QED
  BY <1>2, <1>3, <1>4, OneClientMoves DEF Follows

-----------------------------------------------------------------------------
LEMMA DequeuedStep == ASSUME SInv, Dequeued PROVE SInv'
<1>1. LInv'
  BY DequeuedLoop DEF SInv
<1>2. /\ completions \in Seq(AnyEvent) /\ completions # <<>> /\ tasks \in Seq(AnyEvent)
      /\ completions' = Tail(completions) /\ tasks' = Append(tasks, Head(completions))
      /\ UNCHANGED <<invocations, published, clients>>
  BY DEF SInv, LInv, ServiceTypes, Dequeued
<1>3. /\ \A e \in DOMAIN completions' : e + 1 \in DOMAIN completions /\ completions'[e] = completions[e + 1]
      /\ 1 \in DOMAIN completions /\ Head(completions) = completions[1] /\ completions[1] \in AnyEvent
  BY <1>2
<1>4. \A e \in DOMAIN tasks' : \/ e \in DOMAIN tasks /\ tasks'[e] = tasks[e]
                              \/ tasks'[e] = completions[1]
  BY <1>2, <1>3
<1>5. \A e \in DOMAIN completions' : Caused(completions'[e])
  BY <1>3 DEF SInv, InLine, Events
<1>6. \A e \in DOMAIN tasks' : Caused(tasks'[e])
  BY <1>3, <1>4 DEF SInv, InLine, Events
<1>7. Events'
  BY <1>2, <1>5, <1>6 DEF Events, Caused
<1>8. Settled'
  <2>1. ASSUME NEW c \in Client
        PROVE  /\ Orderly(clients'[c]) /\ (Fresh(clients[c]) => Fresh(clients'[c]))
               /\ clients[c].state # "none" => Follows(clients[c], clients'[c])
    BY <1>2, ClientIs, SelfFollows
  <2> QED
    BY <1>2, <2>1, ClientsMove
<1> QED
  BY <1>1, <1>7, <1>8 DEF SInv, InLine

\* A client that has got nothing is in line with anything.
LEMMA FreshLine ==
    ASSUME NEW k \in ClientState, Orderly(k), Fresh(k)
    PROVE  /\ \A j \in Nat : Numbered(k, j)
           /\ k.up => Sent(k) = 0
<1>1. \A j \in Nat : Numbered(k, j)
  BY DEF Fresh, Numbered
<1>2. ASSUME k.up PROVE Sent(k) = 0
  <2>1. k.wire = <<>> /\ k.received = <<>>
    BY DEF Fresh
  <2>2. CASE k.state # "streaming"
    BY <2>1, <2>2 DEF Sent, Reached
  <2>3. CASE k.state = "streaming"
    <3>1. Started(k) /\ k.tasks \in Seq(Task)
      BY <2>3 DEF Orderly, Starting, Failed, ClientState
    <3>2. Len(k.tasks) = Callback(k)
      <4>1. CASE k.subscribed
        BY <3>1, <4>1 DEF Started, Fresh, Callback
      <4>2. CASE ~k.subscribed
        <5>1. k.tasks # <<>> /\ \A e \in DOMAIN k.tasks : e > 1 => k.tasks[e].call = "update"
          BY <3>1, <4>2 DEF Started
        <5>2. 2 \notin DOMAIN k.tasks
          BY <5>1 DEF Fresh
        <5>3. Len(k.tasks) \in Nat /\ Len(k.tasks) > 0 /\ DOMAIN k.tasks = 1 .. Len(k.tasks)
          BY <3>1, <5>1
        <5>4. Len(k.tasks) = 1
          <6>1. \A n \in Nat : n > 0 /\ 2 \notin 1 .. n => n = 1
            OBVIOUS
          <6> QED
            BY <5>2, <5>3, <6>1
        <5> QED
          BY <4>2, <5>4 DEF Callback
      <4> QED
        BY <4>1, <4>2
    <3> QED
      BY <2>1, <2>3, <3>1, <3>2 DEF Sent, Reached
  <2> QED
    BY <2>2, <2>3
<1> QED
  BY <1>1, <1>2

\* What the invariant says of an invocation i with the client k.
Agrees(i, k) ==
    /\ i.client \in Client /\ "request" \notin i.doing /\ k.state # "none"
    /\ i.state = "ready" => "write" \notin i.doing
    /\ i.state = "finished" => ~k.up
    /\ i.client \in Observed /\ i.state # "ready" =>
         /\ Numbered(k, i.joined)
         /\ k.up => /\ i.joined + Sent(k) + (IF "write" \in i.doing THEN 1 ELSE 0) = published
                    /\ "write" \in i.doing => i.update = published

\* One invocation changes, and its client.
LEMMA BothMove ==
    ASSUME SInv, NEW t \in Tags, NEW i \in Invocation, NEW l \in ClientState, published' = published,
           \/ invocations' = Become(t, i) \/ invocations' = Append(Become(t, i), NewInvocation),
           clients' = [clients EXCEPT ![i.client] = l],
           Agrees(i, l), Orderly(l), l.up => clients[i.client].up,
           i.state = "ready" => invocations[t].state = "ready" /\ (Fresh(clients[i.client]) => Fresh(l)),
           invocations[t].client \in {None, i.client},
           \A u \in Tags : u # t => invocations[u].client # i.client
    PROVE  /\ Settled'
           /\ \A e : e.tag \in Tags /\ Caused(e) => Caused(e)'
           /\ invocations'[t] = i /\ Tags \subseteq Tags'
<1>1. /\ Become(t, i) \in Seq(Invocation) /\ DOMAIN Become(t, i) = Tags
      /\ \A u \in Tags : Become(t, i)[u] = IF u = t THEN i ELSE invocations[u]
  BY Replacing DEF SInv, LInv
<1>2. /\ Tags \subseteq Tags'
      /\ \A u \in Tags : invocations'[u] = IF u = t THEN i ELSE invocations[u]
      /\ \A u \in Tags' \ Tags : invocations'[u] = NewInvocation
  BY <1>1, Listening DEF Tags
<1>3. /\ i.client \in Client /\ i.client # None
      /\ clients'[i.client] = l
      /\ \A c \in Client : c # i.client => clients'[c] = clients[c]
  BY ServiceAssumption DEF Agrees, SInv, LInv, ServiceTypes
<1>4. \A u \in Tags : invocations[u].client \in Client \cup {None}
  <2>1. \A u \in Tags : invocations[u] \in Invocation
    BY DEF SInv, LInv, ServiceTypes, Tags
  <2> QED
    BY <2>1 DEF Invocation
<1>5. ASSUME NEW u \in Tags' PROVE Shaped(u)' /\ Counted(u)'
  <2>1. CASE u = t
    <3>1. invocations'[t] = i /\ clients'[invocations'[t].client] = l
      BY <1>2, <1>3
    <3>2. Shaped(t)'
      BY <1>3, <3>1 DEF Shaped, Agrees
    <3>3. Counted(t)'
      BY <1>3, <3>1 DEF Counted, Agrees
    <3> QED
      BY <2>1, <3>2, <3>3
  <2>2. CASE u \in Tags /\ u # t
    <3>1. Shaped(u) /\ Counted(u) /\ invocations'[u] = invocations[u]
      BY <1>2, <2>2 DEF SInv, InLine, Settled
    <3>2. CASE invocations[u].client = None
      BY <3>1, <3>2, ServiceAssumption DEF Shaped, Counted
    <3>3. CASE invocations[u].client # None
      <4>1. clients'[invocations[u].client] = clients[invocations[u].client]
        BY <1>3, <1>4, <2>2, <3>3
      <4> QED
        BY <3>1, <3>3, <4>1 DEF Shaped, Counted
    <3> QED
      BY <3>2, <3>3
  <2>3. CASE u \notin Tags
    BY <1>2, <2>3, ServiceAssumption DEF Shaped, Counted, NewInvocation
  <2> QED
    BY <2>1, <2>2, <2>3
<1>6. ASSUME NEW c \in Client PROVE (Orderly(clients[c]) /\ (Unserved(c) => Fresh(clients[c])))'
  <2>1. ASSUME Unserved(c)'
        PROVE  Unserved(c) /\ (c = i.client => i.state = "ready")
    <3>1. \A v \in Tags' : invocations'[v].client = c => invocations'[v].state = "ready"
      BY <2>1 DEF Unserved
    <3>2. c # None
      BY ServiceAssumption
    <3> QED
      BY <1>2, <3>1, <3>2 DEF Unserved
  <2>2. Orderly(clients[c]) /\ (Unserved(c) => Fresh(clients[c]))
    BY DEF SInv, InLine, Settled
  <2>3. CASE c = i.client
    <3>1. Orderly(clients'[c]) /\ (Unserved(c)' => Fresh(clients'[c]))
      BY <1>3, <2>1, <2>2, <2>3
    <3> QED
      BY <3>1 DEF Orderly, Starting, Started, Failed, Fresh
  <2>4. CASE c # i.client
    <3>1. Orderly(clients'[c]) /\ (Unserved(c)' => Fresh(clients'[c]))
      BY <1>3, <2>1, <2>2, <2>4
    <3> QED
      BY <3>1 DEF Orderly, Starting, Started, Failed, Fresh
  <2> QED
    BY <2>3, <2>4
<1>7. ASSUME NEW u \in Tags', NEW v \in Tags', invocations'[u].client = invocations'[v].client,
             invocations'[u].client # None
      PROVE  u = v
  <2>1. u \in Tags /\ v \in Tags
    BY <1>2, <1>7 DEF NewInvocation
  <2> QED
    BY <1>2, <1>3, <1>7, <2>1 DEF SInv, InLine, Settled
<1>8. ASSUME NEW e, e.tag \in Tags, Caused(e) PROVE Caused(e)'
  <2>1. invocations[e.tag].client # None /\ (~e.ok => ~clients[invocations[e.tag].client].up)
    BY <1>8 DEF Caused
  <2>2. CASE e.tag = t
    BY <1>2, <1>3, <2>1, <2>2 DEF Caused
  <2>3. CASE e.tag # t
    BY <1>2, <1>3, <1>4, <1>8, <2>1, <2>3 DEF Caused
  <2> QED
    BY <2>2, <2>3
<1>9. Settled'
  BY <1>5, <1>6, <1>7 DEF Settled
<1> QED
  BY <1>2, <1>8, <1>9

\* One invocation changes, and the clients do not.
LEMMA OneInvocationMoves ==
    ASSUME SInv, NEW t \in Tags, NEW i \in Invocation, UNCHANGED <<clients, published>>,
           \/ invocations' = Become(t, i) \/ invocations' = Append(Become(t, i), NewInvocation),
           Agrees(i, clients[i.client]),
           invocations[t].client \in {None, i.client},
           \A u \in Tags : u # t => invocations[u].client # i.client,
           i.state = "ready" => invocations[t].state = "ready"
    PROVE  /\ Settled'
           /\ \A e : e.tag \in Tags /\ Caused(e) => Caused(e)'
           /\ invocations'[t] = i /\ Tags \subseteq Tags'
<1> DEFINE l == clients[i.client]
<1>1. l \in ClientState /\ Orderly(l)
  BY ClientIs DEF Agrees
<1>2. clients' = [clients EXCEPT ![i.client] = l]
  BY DEF Agrees, SInv, LInv, ServiceTypes
<1> HIDE DEF l
<1>3. Agrees(i, l) /\ l = clients[i.client]
  BY DEF l
<1> QED
  BY <1>1, <1>2, <1>3, BothMove

\* What the invariant says of an invocation that has a client.
LEMMA AgreesAlready ==
    ASSUME SInv, NEW t \in Tags, invocations[t].client # None
    PROVE  /\ Agrees(invocations[t], clients[invocations[t].client])
           /\ \A u \in Tags : u # t => invocations[u].client # invocations[t].client
<1>1. invocations[t] \in Invocation
  BY DEF SInv, LInv, ServiceTypes, Tags
<1>2. invocations[t].client \in Client
  BY <1>1 DEF Invocation
<1>3. Shaped(t) /\ Counted(t)
  BY DEF SInv, InLine, Settled
<1> QED
  BY <1>2, <1>3 DEF Agrees, Shaped, Counted, SInv, InLine, Settled

\* The event proceed is called with.
LEMMA ProceedEvent ==
    ASSUME SInv, Proceed, NEW t \in Tags, NEW ok \in BOOLEAN,
           tasks # <<>>, tasks[1] = [tag |-> t, ok |-> ok]
    PROVE  /\ invocations[t].client # None
           /\ ~ok => ~clients[invocations[t].client].up
           /\ completions' = completions /\ UNCHANGED <<clients, published>>
           /\ \A e \in DOMAIN tasks' : e + 1 \in DOMAIN tasks /\ tasks'[e] = tasks[e + 1]
<1>1. tasks \in Seq(AnyEvent) /\ tasks' = Tail(tasks) /\ completions' = completions
      /\ UNCHANGED <<clients, published>>
  BY DEF Proceed, SInv, LInv, ServiceTypes
<1>2. 1 \in DOMAIN tasks /\ \A e \in DOMAIN tasks' : e + 1 \in DOMAIN tasks /\ tasks'[e] = tasks[e + 1]
  BY <1>1
<1>3. Caused(tasks[1])
  BY <1>2 DEF SInv, InLine, Events
<1> QED
  BY <1>1, <1>2, <1>3 DEF Caused

LEMMA ProceedStep == ASSUME SInv, Proceed PROVE SInv'
<1>1. PICK t \in Tags, ok \in BOOLEAN :
          /\ tasks # <<>> /\ tasks[1] = [tag |-> t, ok |-> ok]
          /\ invocations[t] \in Invocation /\ Cases(t, ok)
  BY ProceedCases DEF SInv
<1> DEFINE i == invocations[t]
           k == clients[i.client]
<1>2. /\ i.client # None /\ (~ok => ~k.up)
      /\ completions' = completions /\ UNCHANGED <<clients, published>>
      /\ \A e \in DOMAIN tasks' : e + 1 \in DOMAIN tasks /\ tasks'[e] = tasks[e + 1]
  BY <1>1, ProceedEvent
<1>3. /\ Agrees(i, k)
      /\ \A u \in Tags : u # t => invocations[u].client # i.client
  BY <1>2, AgreesAlready
<1>4. k \in ClientState /\ Orderly(k) /\ published \in Nat
  BY <1>3, ClientIs DEF Agrees, SInv, LInv, ServiceTypes
<1>5. i.state = "ready" => Fresh(k)
  <2>1. ASSUME i.state = "ready" PROVE Unserved(i.client)
    BY <1>3, <2>1 DEF Unserved
  <2> QED
    BY <1>3, <2>1 DEF SInv, InLine, Settled, Agrees
<1>6. Settled' /\ \A e : e.tag \in Tags /\ Caused(e) => Caused(e)'
  <2>1. CASE i.state = "ready" /\ ok
    <3> DEFINE j == Streaming(i)
    <3>1. invocations' = Append(Become(t, j), NewInvocation)
      BY <1>1, <2>1 DEF Cases
    <3>2. /\ j \in Invocation /\ j.state = "streaming" /\ j.client = i.client /\ j.doing = i.doing
          /\ j.joined = published
      BY <1>1, <1>4 DEF Streaming, Invocation, State
    <3> HIDE DEF j
    <3>3. Numbered(k, published) /\ (k.up => Sent(k) = 0)
      BY <1>4, <1>5, <2>1, FreshLine
    <3>4. Agrees(j, k)
      <4>1. "write" \notin j.doing
        BY <1>3, <2>1, <3>2 DEF Agrees
      <4>2. k.up => j.joined + Sent(k) + 0 = published
        BY <1>4, <3>2, <3>3
      <4> QED
        BY <1>3, <3>2, <3>3, <4>1, <4>2 DEF Agrees
    <3> QED
      BY <1>2, <1>3, <3>1, <3>2, <3>4, OneInvocationMoves
  <2>2. CASE ~ok
    <3> DEFINE j == Finished(i)
    <3>1. invocations' = Become(t, j) \/ invocations' = Append(Become(t, j), NewInvocation)
      BY <1>1, <2>2 DEF Cases
    <3>2. /\ j \in Invocation /\ j.state = "finished" /\ j.client = i.client
          /\ j.doing = i.doing \cup {"finish"} /\ j.joined = i.joined /\ i.joined \in Nat
      BY <1>1 DEF Finished, Invocation, State
    <3> HIDE DEF j
    <3>3. i.client \in Observed => Numbered(k, i.joined)
      BY <1>3, <1>4, <1>5, <3>2, FreshLine DEF Agrees
    <3>4. Agrees(j, k)
      BY <1>2, <1>3, <2>2, <3>2, <3>3 DEF Agrees
    <3> QED
      BY <1>2, <1>3, <3>1, <3>2, <3>4, OneInvocationMoves
  <2>3. CASE i.state # "ready" /\ ok
    <3>1. invocations' = invocations
      BY <1>1, <2>3 DEF Cases
    <3>2. ASSUME NEW c \in Client
          PROVE  /\ Orderly(clients'[c]) /\ (Fresh(clients[c]) => Fresh(clients'[c]))
                 /\ clients[c].state # "none" => Follows(clients[c], clients'[c])
      BY <1>2, ClientIs, SelfFollows
    <3> QED
      BY <1>2, <3>1, <3>2, ClientsMove
  <2> QED
    BY <2>1, <2>2, <2>3
<1>7. Events'
  <2>1. /\ \A e \in DOMAIN completions : completions[e].tag \in Tags /\ Caused(completions[e])
        /\ \A e \in DOMAIN tasks : tasks[e].tag \in Tags /\ Caused(tasks[e])
    BY DEF SInv, LInv, Loop, InLine, Events
  <2>2. /\ \A e \in DOMAIN completions : Caused(completions[e])'
        /\ \A e \in DOMAIN tasks' : Caused(tasks[e])'
    BY <1>2, <1>6, <2>1 DEF Caused
  <2> QED
    BY <1>2, <2>2 DEF Events
<1> QED
  BY <1>6, <1>7, ProceedLoop DEF SInv, InLine

\* The events after an operation has completed.
LEMMA CompleteEvents ==
    ASSUME SInv, NEW t \in Tags, NEW op, NEW ok \in BOOLEAN, NEW c \in Client \cup {None},
           Complete(t, op, ok, c),
           \A e : e.tag \in Tags /\ Caused(e) => Caused(e)',
           invocations'[t].client # None, ~ok => ~clients'[invocations'[t].client].up
    PROVE  Events'
<1>1. /\ \A e \in DOMAIN completions : completions[e].tag \in Tags /\ Caused(completions[e])
      /\ \A e \in DOMAIN tasks : tasks[e].tag \in Tags /\ Caused(tasks[e])
  BY DEF SInv, LInv, Loop, InLine, Events
<1>2. tasks' = tasks
  BY DEF Complete
<1>3. completions'[Len(completions) + 1] = [tag |-> t, ok |-> ok]
  BY CompleteEffect DEF SInv
<1>4. /\ \A e \in DOMAIN completions : completions'[e] = completions[e]
      /\ DOMAIN completions' = DOMAIN completions \cup {Len(completions) + 1}
  BY CompleteEffect DEF SInv
<1>5. ASSUME NEW e, e.tag = t, e.ok = ok PROVE Caused(e)'
  BY <1>5 DEF Caused
<1> QED
  BY <1>1, <1>2, <1>3, <1>4, <1>5 DEF Events, Caused

LEMMA AcceptedStep ==
    ASSUME SInv, NEW t \in Tags, NEW c \in Client, Accepted(t, c)
    PROVE  SInv'
<1> DEFINE i == invocations[t]
           j == Completed(t, "request", c)
<1>1. Complete(t, "request", TRUE, c) /\ clients' = clients /\ Waiting(c)
  BY DEF Accepted
<1>2. /\ invocations' = Become(t, j) /\ j \in Invocation /\ j.state = i.state
      /\ "request" \in i.doing /\ UNCHANGED <<published, aborted>>
  BY <1>1, CompleteEffect DEF SInv
<1>3. i \in Invocation /\ Shaped(t)
  BY DEF SInv, LInv, ServiceTypes, Tags, InLine, Settled
<1>4. i.client = None /\ i.state = "ready" /\ i.doing = {"request"}
  BY <1>2, <1>3 DEF Shaped
<1>5. j.doing = {} /\ j.client = c
  BY <1>3, <1>4 DEF Completed, Invocation
<1>6. clients[c].state # "none" /\ \A u \in Tags : invocations[u].client # c
  BY <1>1 DEF Waiting
<1> HIDE DEF j
<1>7. Agrees(j, clients[j.client])
  BY <1>2, <1>4, <1>5, <1>6 DEF Agrees
<1>8. /\ Settled' /\ (\A e : e.tag \in Tags /\ Caused(e) => Caused(e)') /\ invocations'[t] = j
  BY <1>1, <1>2, <1>4, <1>5, <1>6, <1>7, OneInvocationMoves
<1>9. Events'
  BY <1>1, <1>5, <1>8, CompleteEvents, ServiceAssumption
<1>10. LInv'
  BY <1>1, CompleteLoop DEF SInv, LInv, ServiceTypes
<1> QED
  BY <1>8, <1>9, <1>10 DEF SInv, InLine

LEMMA FinishDoneStep ==
    ASSUME SInv, NEW t \in Tags, FinishDone(t)
    PROVE  SInv'
<1> DEFINE i == invocations[t]
           j == Completed(t, "finish", i.client)
<1>1. Complete(t, "finish", TRUE, i.client) /\ clients' = clients
  BY DEF FinishDone
<1>2. i \in Invocation /\ Shaped(t)
  BY DEF SInv, LInv, ServiceTypes, Tags, InLine, Settled
<1>3. i.client \in Client \cup {None}
  BY <1>2 DEF Invocation
<1>4. /\ invocations' = Become(t, j) /\ j \in Invocation /\ j.state = i.state
      /\ "finish" \in i.doing /\ UNCHANGED <<published, aborted>>
  BY <1>1, <1>3, CompleteEffect DEF SInv
<1>5. i.client # None
  BY <1>2, <1>4 DEF Shaped
<1>6. /\ j.doing = i.doing \ {"finish"} /\ j.client = i.client /\ j.update = i.update /\ j.joined = i.joined
  BY <1>2 DEF Completed, Invocation
<1>7. /\ Agrees(i, clients[i.client])
      /\ \A u \in Tags : u # t => invocations[u].client # i.client
  BY <1>5, AgreesAlready
<1> HIDE DEF j
<1>8. Agrees(j, clients[j.client])
  BY <1>4, <1>6, <1>7 DEF Agrees
<1>9. /\ Settled' /\ (\A e : e.tag \in Tags /\ Caused(e) => Caused(e)') /\ invocations'[t] = j
  BY <1>1, <1>4, <1>6, <1>7, <1>8, OneInvocationMoves
<1>10. Events'
  BY <1>1, <1>3, <1>5, <1>6, <1>9, CompleteEvents
<1>11. LInv'
  BY <1>1, <1>3, CompleteLoop DEF SInv, LInv, ServiceTypes
<1> QED
  BY <1>9, <1>10, <1>11 DEF SInv, InLine

\* A write that succeeds puts the update on the wire.
LEMMA WrittenStep ==
    ASSUME SInv, NEW t \in Tags, Written(t)
    PROVE  SInv'
<1> DEFINE i == invocations[t]
           k == clients[i.client]
           j == Completed(t, "write", i.client)
           l == [k EXCEPT !.wire = Append(@, i.update)]
<1>1. /\ i.client # None /\ Complete(t, "write", k.up, i.client)
      /\ clients' = IF i.client \in Observed /\ k.up
                    THEN [clients EXCEPT ![i.client].wire = Append(@, i.update)] ELSE clients
  BY DEF Written
<1>2. i \in Invocation /\ i.client \in Client /\ clients \in [Client -> ClientState]
  <2>1. i \in Invocation /\ clients \in [Client -> ClientState]
    BY DEF SInv, LInv, ServiceTypes, Tags
  <2> QED
    BY <1>1, <2>1 DEF Invocation
<1>3. /\ Agrees(i, k)
      /\ \A u \in Tags : u # t => invocations[u].client # i.client
  BY <1>1, AgreesAlready
<1>4. k \in ClientState /\ Orderly(k) /\ k.up \in BOOLEAN
  BY <1>2, ClientIs DEF ClientState
<1>5. /\ invocations' = Become(t, j) /\ j \in Invocation /\ j.state = i.state
      /\ "write" \in i.doing /\ UNCHANGED <<published, aborted>>
  <2>1. LInv /\ i.client \in Client \cup {None} /\ k.up \in BOOLEAN
    BY <1>2, <1>4 DEF SInv
  <2> HIDE DEF k
  <2> QED
    BY <1>1, <2>1, CompleteEffect
<1>6. /\ j.doing = i.doing \ {"write"} /\ j.client = i.client /\ j.joined = i.joined
      /\ i.joined \in Nat /\ i.update \in Nat /\ i.state # "ready"
  BY <1>2, <1>3, <1>5 DEF Completed, Invocation, Agrees
<1> HIDE DEF j
<1>7. /\ Settled' /\ (\A e : e.tag \in Tags /\ Caused(e) => Caused(e)') /\ invocations'[t] = j
      /\ clients' \in [Client -> ClientState] /\ clients'[i.client].up = k.up
  <2>1. CASE ~(i.client \in Observed /\ k.up)
    <3>1. clients' = clients
      BY <1>1, <2>1
    <3>2. Agrees(j, k)
      BY <1>3, <1>5, <1>6, <2>1 DEF Agrees
    <3> QED
      BY <1>2, <1>3, <1>5, <1>6, <3>1, <3>2, OneInvocationMoves
  <2>2. CASE i.client \in Observed /\ k.up
    <3>1. clients' = [clients EXCEPT ![i.client] = l]
      BY <1>1, <1>2, <2>2
    <3>2. /\ l \in ClientState /\ l.wire = Append(k.wire, i.update) /\ k.wire \in Seq(Nat)
          /\ l.state = k.state /\ l.doing = k.doing /\ l.up = k.up /\ l.tasks = k.tasks
          /\ l.subscribed = k.subscribed /\ l.received = k.received
      <4>1. k.wire \in Seq(Nat)
        BY <1>4 DEF ClientState
      <4>2. Append(k.wire, i.update) \in Seq(Nat)
        BY <1>6, <4>1, QueueLemma
      <4> HIDE DEF i, k
      <4> QED
        BY <1>4, <4>1, <4>2 DEF ClientState
    <3> HIDE DEF l
    <3>3. Orderly(l)
      BY <1>4, <2>2, <3>2, ZenonT(60) DEF Orderly, Starting, Started, Failed
    <3>4. /\ Len(l.wire) = Len(k.wire) + 1 /\ Len(k.wire) \in Nat
          /\ DOMAIN l.wire = 1 .. Len(k.wire) + 1 /\ DOMAIN k.wire = 1 .. Len(k.wire)
          /\ \A e \in DOMAIN k.wire : l.wire[e] = k.wire[e]
          /\ l.wire[Len(k.wire) + 1] = i.update
      <4> HIDE DEF i, k
      <4>1. Len(k.wire) \in Nat
        BY <3>2
      <4> QED
        BY <1>6, <3>2, <4>1, QueueLemma
    <3>5. Reached(l) = Reached(k) /\ Reached(k) \in Int
      <4>1. Reached(l) = Reached(k)
        BY <3>2 DEF Reached, Callback
      <4> QED
        BY <1>4, <4>1, ReachedType
    <3>6. /\ Numbered(k, i.joined) /\ i.update = published
          /\ i.joined + Sent(k) + 1 = published
      BY <1>3, <1>5, <1>6, <2>2 DEF Agrees
    <3>7. i.update = i.joined + Reached(k) + (Len(k.wire) + 1)
      <4>1. \A a, c \in Nat, b \in Int : a + (b + c) + 1 = a + b + (c + 1)
        OBVIOUS
      <4> HIDE DEF i, k
      <4> QED
        BY <1>6, <3>4, <3>5, <3>6, <4>1 DEF Sent
    <3>8. Numbered(l, i.joined)
      <4> HIDE DEF i, k
      <4>1. ASSUME l.state \in {"ready", "streaming"}, NEW e \in DOMAIN l.wire
            PROVE  l.wire[e] = i.joined + Reached(l) + e
        <5>1. \/ e \in DOMAIN k.wire /\ l.wire[e] = k.wire[e]
              \/ e = Len(k.wire) + 1 /\ l.wire[e] = i.update
          BY <3>4
        <5>2. e \in DOMAIN k.wire => k.wire[e] = i.joined + Reached(k) + e
          BY <3>2, <3>6, <4>1 DEF Numbered
        <5> QED
          BY <3>5, <3>7, <5>1, <5>2
      <4> QED
        BY <3>2, <3>6, <4>1 DEF Numbered, Callback
    <3>9. i.joined + Sent(l) + 0 = published
      <4>1. \A a, c \in Nat, b \in Int : a + (b + c) + 1 = a + (b + (c + 1)) + 0
        OBVIOUS
      <4> HIDE DEF i, k
      <4> QED
        BY <1>6, <3>4, <3>5, <3>6, <4>1 DEF Sent
    <3>10. Agrees(j, l)
      BY <1>3, <1>5, <1>6, <3>2, <3>8, <3>9 DEF Agrees
    <3>11. clients' \in [Client -> ClientState] /\ clients'[i.client] = l
      BY <1>2, <3>1, <3>2
    <3>12. /\ clients' = [clients EXCEPT ![j.client] = l] /\ (l.up => clients[j.client].up)
           /\ invocations[t].client = j.client /\ j.state # "ready"
           /\ \A u \in Tags : u # t => invocations[u].client # j.client
      BY <1>3, <1>5, <1>6, <3>1, <3>2
    <3>13. /\ Settled' /\ (\A e : e.tag \in Tags /\ Caused(e) => Caused(e)') /\ invocations'[t] = j
      <4> HIDE DEF i, k
      <4> QED
        BY <1>5, <3>2, <3>3, <3>10, <3>12, BothMove
    <3> QED
      BY <3>2, <3>11, <3>13
  <2> QED
    BY <2>1, <2>2
<1>8. Events'
  BY <1>1, <1>2, <1>4, <1>6, <1>7, CompleteEvents
<1>9. LInv'
  BY <1>1, <1>2, <1>4, <1>7, CompleteLoop DEF SInv
<1> QED
  BY <1>7, <1>8, <1>9 DEF SInv, InLine

\* An update reaches every subscriber, or ends all calls.
LEMMA HandleUpdateStep == ASSUME SInv, HandleUpdate PROVE SInv'
<1>1. /\ published' = published + 1 /\ published \in Nat /\ Tags' = Tags
      /\ \A u \in Tags : invocations'[u] =
           IF ~aborted' /\ u \in subscribers
           THEN [invocations[u] EXCEPT !.doing = @ \cup {"write"}, !.update = published']
           ELSE invocations[u]
      /\ aborted' = \E t \in subscribers : Writing(t)
      /\ clients' = IF aborted' THEN [c \in Client |-> Ended(clients[c])] ELSE clients
      /\ completions' = completions /\ tasks' = tasks
  BY HandleUpdateEffect DEF SInv, LInv, ServiceTypes
<1>2. Settled' /\ \A e : e.tag \in Tags /\ Caused(e) => Caused(e)'
  <2>1. CASE aborted'
    <3>1. invocations' = invocations
      BY <2>1 DEF HandleUpdate
    <3>2. ASSUME NEW c \in Client
          PROVE  /\ Orderly(clients'[c]) /\ (Fresh(clients[c]) => Fresh(clients'[c])) /\ ~clients'[c].up
                 /\ clients[c].state # "none" => Follows(clients[c], clients'[c])
      <4>1. clients'[c] = Ended(clients[c]) /\ ~Ended(clients[c]).up
        BY <1>1, <2>1, ClientIs DEF Ended, ClientState
      <4>2. Follows(clients[c], Ended(clients[c]))
        BY ClientIs, EndedFollows
      <4> QED
        BY <4>1, <4>2 DEF Follows
    <3> QED
      BY <3>1, <3>2, ClientsMove
  <2>2. CASE ~aborted'
    <3>1. clients' = clients
      BY <1>1, <2>2
    <3>2. ASSUME NEW u \in Tags
          PROVE  /\ invocations[u] \in Invocation
                 /\ invocations'[u].client = invocations[u].client
                 /\ invocations'[u].state = invocations[u].state
                 /\ invocations'[u].joined = invocations[u].joined
                 /\ IF invocations[u].state = "streaming"
                    THEN /\ "write" \notin invocations[u].doing
                         /\ invocations'[u].doing = invocations[u].doing \cup {"write"}
                         /\ invocations'[u].update = published'
                    ELSE invocations'[u] = invocations[u]
      <4>1. invocations[u] \in Invocation
        BY DEF SInv, LInv, ServiceTypes, Tags
      <4>2. u \in subscribers <=> invocations[u].state = "streaming"
        BY DEF SInv, LInv, Loop
      <4>3. u \in subscribers => "write" \notin invocations[u].doing
        BY <1>1, <2>2 DEF Writing
      <4> QED
        BY <1>1, <2>2, <4>1, <4>2, <4>3 DEF Invocation
    <3>3. ASSUME NEW u \in Tags PROVE Shaped(u)'
      <4>1. Shaped(u)
        BY DEF SInv, InLine, Settled
      <4> QED
        BY <3>1, <3>2, <4>1 DEF Shaped
    <3>4. ASSUME NEW u \in Tags PROVE Counted(u)'
      <4>1. Shaped(u) /\ Counted(u)
        BY DEF SInv, InLine, Settled
      <4>2. CASE invocations[u].state = "streaming"
        <5> DEFINE n == invocations[u].joined
                   k == clients[invocations[u].client]
        <5>1. SUFFICES ASSUME invocations[u].client \in Observed
                       PROVE  /\ Numbered(k, n)
                              /\ k.up => n + Sent(k) + 1 = published'
          BY <3>1, <3>2, <4>2 DEF Counted
        <5>2. Numbered(k, n) /\ (k.up => n + Sent(k) + 0 = published)
          BY <3>2, <4>1, <4>2, <5>1 DEF Counted
        <5>3. k \in ClientState /\ n \in Nat
          BY <3>2, <5>1, ClientIs, ServiceAssumption DEF Invocation
        <5>4. Sent(k) \in Int
          BY <5>3, SentType
        <5>5. \A a \in Nat, b \in Int : a + b + 1 = a + b + 0 + 1
          OBVIOUS
        <5> HIDE DEF n, k
        <5> QED
          BY <1>1, <5>2, <5>3, <5>4, <5>5
      <4>3. CASE invocations[u].state # "streaming"
        <5>1. CASE invocations[u].client \in Observed /\ invocations[u].state # "ready"
          <6>1. invocations[u].state = "finished"
            BY <3>2, <4>3, <5>1 DEF Invocation, State, SInv, LInv, Loop
          <6>2. ~clients[invocations[u].client].up
            BY <4>1, <6>1 DEF Shaped
          <6> QED
            BY <3>1, <3>2, <4>1, <4>3, <6>2 DEF Counted
        <5>2. CASE ~(invocations[u].client \in Observed /\ invocations[u].state # "ready")
          BY <3>2, <5>2 DEF Counted
        <5> QED
          BY <5>1, <5>2
      <4> QED
        BY <4>2, <4>3
    <3>5. ASSUME NEW c \in Client PROVE (Orderly(clients[c]) /\ (Unserved(c) => Fresh(clients[c])))'
      <4>1. Unserved(c)' => Unserved(c)
        BY <1>1, <3>2 DEF Unserved
      <4>2. Orderly(clients[c]) /\ (Unserved(c) => Fresh(clients[c]))
        BY DEF SInv, InLine, Settled
      <4>3. Orderly(clients'[c]) /\ (Unserved(c)' => Fresh(clients'[c]))
        BY <3>1, <4>1, <4>2
      <4> QED
        BY <4>3 DEF Orderly, Starting, Started, Failed, Fresh
    <3>6. \A u, v \in Tags : invocations'[u].client = invocations'[v].client /\ invocations'[u].client # None => u = v
      BY <3>2 DEF SInv, InLine, Settled
    <3>7. ASSUME NEW e, e.tag \in Tags, Caused(e) PROVE Caused(e)'
      BY <3>1, <3>2, <3>7 DEF Caused
    <3>8. Settled'
      BY <1>1, <3>3, <3>4, <3>5, <3>6 DEF Settled
    <3> QED
      BY <3>7, <3>8
  <2> QED
    BY <2>1, <2>2, <1>1
<1>3. Events'
  BY <1>1, <1>2, SameEvents
<1>4. LInv'
  BY HandleUpdateLoop DEF SInv
<1> QED
  BY <1>2, <1>3, <1>4 DEF SInv, InLine

-----------------------------------------------------------------------------
\* What every state of the service and of its clients satisfies.
THEOREM ServiceInvariant == Spec => []SInv
<1>1. Init => SInv
  BY InitLoop, InitInLine DEF SInv
<1>2. SInv /\ [Next]_vars => SInv'
  <2> SUFFICES ASSUME SInv, [Next]_vars PROVE SInv'
    OBVIOUS
  <2>1. CASE DaemonSteps
    BY <2>1, DequeuedStep, ProceedStep DEF DaemonSteps
  <2>2. CASE HandleUpdate
    BY <2>2, HandleUpdateStep
  <2>3. CASE Runtime
    BY <2>3, AcceptedStep, WrittenStep, FinishDoneStep DEF Runtime
  <2>4. ASSUME NEW c \in Client, Connect(c) \/ CallEnds(c) PROVE SInv'
    BY <2>4, ConnectStep, CallEndsStep
  <2>5. ASSUME NEW c \in Observed, ClientStep(c) PROVE SInv'
    BY <2>5, ClientProceedStep, ClientTaskStep, ServiceAssumption DEF ClientStep
  <2>6. CASE UNCHANGED vars
    <3>1. /\ UNCHANGED <<invocations, subscribers, completions, running, tasks, published, aborted, clients>>
          /\ Tags' = Tags
      BY <2>6 DEF vars, Tags
    <3>2. LInv'
      <4>1. ServiceTypes'
        BY <3>1 DEF SInv, LInv, ServiceTypes
      <4>2. Loop'
        BY <3>1 DEF SInv, LInv, Loop
      <4> QED
        BY <4>1, <4>2 DEF LInv
    <3>3. ASSUME NEW c \in Client
          PROVE  /\ Orderly(clients'[c]) /\ (Fresh(clients[c]) => Fresh(clients'[c]))
                 /\ clients[c].state # "none" => Follows(clients[c], clients'[c])
      BY <3>1, ClientIs, SelfFollows
    <3>4. InLine'
      BY <3>1, <3>3, ClientsMove, SameEvents DEF InLine
    <3> QED
      BY <3>2, <3>4 DEF SInv
  <2> QED
    BY <2>1, <2>2, <2>3, <2>4, <2>5, <2>6 DEF Next
<1> QED
  BY <1>1, <1>2, PTL DEF Spec

\* Nothing that is still to be done belongs to an invocation that deleted
\* itself, however many clients come and go.
THEOREM CallsAreNeverDeleted == Spec => []NoCallIsDeleted
<1>1. SInv => NoCallIsDeleted
  BY DEF SInv, LInv, Loop, NoCallIsDeleted
<1> QED
  BY <1>1, ServiceInvariant, PTL

\* What a receiver gets are the updates from its subscription on, in order and
\* without a gap, for any number of clients and of updates.
THEOREM UpdatesComeInOrder == Spec => []ReceivedInOrder
<1>1. ASSUME SInv PROVE ReceivedInOrder
  <2>1. SUFFICES ASSUME NEW t \in Tags, NEW c \in Observed, invocations[t].client = c
                 PROVE  clients[c].received =
                          [k \in DOMAIN clients[c].received |-> invocations[t].joined + k]
    BY DEF ReceivedInOrder
  <2>2. c \in Client /\ clients[c] \in ClientState
    BY <1>1, ServiceAssumption, ClientIs
  <2>3. \A k \in DOMAIN clients[c].received : clients[c].received[k] = invocations[t].joined + k
    <3>1. CASE invocations[t].state = "ready"
      <4>1. Unserved(c)
        BY <1>1, <2>1, <2>2, <3>1, ServiceAssumption DEF SInv, InLine, Settled, Unserved
      <4>2. clients[c].received = <<>>
        BY <1>1, <2>2, <4>1 DEF SInv, InLine, Settled, Fresh
      <4> QED
        BY <4>2
    <3>2. CASE invocations[t].state # "ready"
      <4>1. Counted(t)
        BY <1>1, <2>1 DEF SInv, InLine, Settled
      <4> QED
        BY <2>1, <3>2, <4>1 DEF Counted, Numbered
    <3> QED
      BY <3>1, <3>2
  <2>4. clients[c].received \in Seq(Nat)
    BY <2>2 DEF ClientState
  <2> QED
    BY <2>3, <2>4
<1> QED
  BY <1>1, ServiceInvariant, PTL

-----------------------------------------------------------------------------
(***************************************************************************)
(* The invocations there are, and the types of both streams.               *)
(***************************************************************************)
\* The last invocation waits for the next client; each of the others had one.
OneListens ==
    /\ \A t \in Tags : invocations[t].state = "ready" <=> t = Len(invocations)
    /\ published <= MaxUpdates

\* A step that leaves the states alone.
LEMMA SameStates ==
    ASSUME SInv, OneListens, invocations' \in Seq(Invocation), Tags' = Tags, published' <= MaxUpdates,
           \A t \in Tags : invocations'[t].state = invocations[t].state
    PROVE  OneListens'
<1>1. PICK m, n \in Nat : m = Len(invocations) /\ n = Len(invocations') /\ Tags = 1 .. m /\ Tags' = 1 .. n
  BY DEF SInv, LInv, ServiceTypes, Tags
<1>2. \A a, b \in Nat : 1 .. a = 1 .. b => a = b
  <2>1. ASSUME NEW a \in Nat, NEW b \in Nat, a < b PROVE 1 .. a # 1 .. b
    <3>1. b \in 1 .. b /\ b \notin 1 .. a
      BY <2>1
    <3> QED
      BY <3>1
  <2>2. \A a, b \in Nat : a < b \/ b < a \/ a = b
    OBVIOUS
  <2> QED
    BY <2>1, <2>2
<1>3. m = n
  BY <1>1, <1>2
<1> QED
  BY <1>1, <1>3 DEF OneListens

\* proceed replaces the invocation that waits as soon as a client has called.
LEMMA OneListensProceed == ASSUME SInv, OneListens, Proceed PROVE OneListens'
<1>1. PICK t \in Tags, ok \in BOOLEAN : invocations[t] \in Invocation /\ Cases(t, ok)
  BY ProceedCases DEF SInv
<1>2. PICK m \in Nat : m = Len(invocations) /\ Tags = 1 .. m /\ invocations \in Seq(Invocation) /\ t \in 1 .. m
  BY DEF SInv, LInv, ServiceTypes, Tags
<1>3. /\ Streaming(invocations[t]) \in Invocation /\ Streaming(invocations[t]).state = "streaming"
      /\ Finished(invocations[t]) \in Invocation /\ Finished(invocations[t]).state = "finished"
  BY <1>1 DEF SInv, LInv, ServiceTypes, Streaming, Finished, Invocation, State
<1>4. published' <= MaxUpdates
  BY DEF Proceed, OneListens
<1>5. ASSUME NEW i \in Invocation, i.state # "ready"
      PROVE  /\ Become(t, i) \in Seq(Invocation) /\ Len(Become(t, i)) = m /\ DOMAIN Become(t, i) = 1 .. m
             /\ \A u \in 1 .. m : Become(t, i)[u] = IF u = t THEN i ELSE invocations[u]
  BY <1>2, <1>5, Replacing DEF SInv, LInv
<1>6. CASE invocations[t].state = "ready"
  <2>1. t = m
    BY <1>2, <1>6 DEF OneListens
  <2>2. PICK i \in Invocation : i.state # "ready" /\ invocations' = Append(Become(t, i), NewInvocation)
    BY <1>1, <1>3, <1>6 DEF Cases
  <2>3. PICK b \in Seq(Invocation) : /\ b = Become(t, i) /\ Len(b) = m /\ DOMAIN b = 1 .. m
                                     /\ \A u \in 1 .. m : b[u] = IF u = t THEN i ELSE invocations[u]
    BY <2>2, <1>5
  <2>4. PICK a : a = invocations'
    OBVIOUS
  <2>5. /\ DOMAIN a = 1 .. m + 1 /\ Len(a) = m + 1 /\ a[m + 1].state = "ready"
        /\ \A u \in 1 .. m : a[u] = b[u]
    <3>1. NewInvocation \in Invocation /\ NewInvocation.state = "ready"
      BY DEF NewInvocation, Invocation, State
    <3>2. PICK e \in Invocation : e = NewInvocation /\ e.state = "ready"
      BY <3>1
    <3>3. a = Append(b, e)
      BY <2>2, <2>3, <2>4, <3>2
    <3> QED
      BY <2>3, <3>2, <3>3, <1>2
  <2>6. \A u \in 1 .. m : a[u].state # "ready"
    BY <1>2, <2>1, <2>2, <2>3, <2>5 DEF OneListens
  <2>7. \A u \in 1 .. m + 1 : a[u].state = "ready" <=> u = m + 1
    BY <2>5, <2>6
  <2> QED
    BY <1>4, <2>4, <2>5, <2>7 DEF OneListens, Tags
<1>7. CASE invocations[t].state # "ready"
  <2>1. t # m
    BY <1>2, <1>7 DEF OneListens
  <2>2. invocations' = invocations \/ \E i \in Invocation : i.state # "ready" /\ invocations' = Become(t, i)
    BY <1>1, <1>3, <1>7 DEF Cases
  <2>3. CASE invocations' = invocations
    BY <1>4, <2>3 DEF OneListens, Tags
  <2>4. ASSUME NEW i \in Invocation, i.state # "ready", invocations' = Become(t, i) PROVE OneListens'
    <3>1. PICK b : b = Become(t, i)
      OBVIOUS
    <3>2. /\ Len(b) = m /\ DOMAIN b = 1 .. m
          /\ \A u \in 1 .. m : b[u] = IF u = t THEN i ELSE invocations[u]
      BY <2>4, <3>1, <1>5
    <3>3. \A u \in 1 .. m : b[u].state = "ready" <=> u = m
      BY <1>2, <1>7, <2>1, <2>4, <3>2 DEF OneListens
    <3> QED
      BY <1>4, <2>4, <3>1, <3>2, <3>3 DEF OneListens, Tags
  <2> QED
    BY <2>2, <2>3, <2>4
<1> QED
  BY <1>6, <1>7

LEMMA OneListensNext == ASSUME SInv, OneListens, [Next]_vars PROVE OneListens'
<1>1. ASSUME UNCHANGED <<invocations, published>> PROVE OneListens'
  BY <1>1 DEF OneListens, Tags
<1>2. CASE Dequeued
  BY <1>1, <1>2 DEF Dequeued
<1>3. CASE HandleUpdate
  <2>1. published' <= MaxUpdates
    BY <1>3, ServiceAssumption DEF HandleUpdate, SInv, LInv, ServiceTypes
  <2>2. invocations' \in Seq(Invocation) /\ Tags' = Tags
    BY <1>3, HandleUpdateEffect DEF SInv
  <2>3. ASSUME NEW t \in Tags PROVE invocations'[t].state = invocations[t].state
    <3>1. invocations[t] \in Invocation
      BY DEF SInv, LInv, ServiceTypes, Tags
    <3>2. invocations'[t] =
            IF ~aborted' /\ t \in subscribers
            THEN [invocations[t] EXCEPT !.doing = @ \cup {"write"}, !.update = published']
            ELSE invocations[t]
      BY <1>3, HandleUpdateEffect DEF SInv
    <3> QED
      BY <3>1, <3>2 DEF Invocation
  <2> QED
    BY <2>1, <2>2, <2>3, SameStates
<1>4. ASSUME NEW t \in Tags, NEW op, NEW ok \in BOOLEAN, NEW c \in Client \cup {None}, Complete(t, op, ok, c)
      PROVE  OneListens'
  <2>1. PICK i : i = Completed(t, op, c)
    OBVIOUS
  <2>2. /\ invocations' = Become(t, i) /\ i \in Invocation /\ i.state = invocations[t].state
        /\ published' = published
    BY <1>4, <2>1, CompleteEffect DEF SInv
  <2>3. /\ invocations' \in Seq(Invocation) /\ Tags' = Tags
        /\ \A u \in Tags : invocations'[u].state = invocations[u].state
    BY <2>2, Replacing DEF SInv, LInv, Tags
  <2>4. published' <= MaxUpdates
    BY <2>2 DEF OneListens
  <2> QED
    BY <2>3, <2>4, SameStates
<1>5. CASE Runtime
  <2>1. PICK t \in Tags : (\E c \in Client : Accepted(t, c)) \/ Written(t) \/ FinishDone(t)
    BY <1>5 DEF Runtime
  <2>2. invocations[t].client \in Client \cup {None}
    <3>1. invocations[t] \in Invocation
      BY DEF SInv, LInv, ServiceTypes, Tags
    <3> QED
      BY <3>1 DEF Invocation
  <2>3. ASSUME NEW c \in Client, Accepted(t, c) PROVE OneListens'
    BY <1>4, <2>3 DEF Accepted
  <2>4. CASE Written(t)
    <3>1. /\ Complete(t, "write", clients[invocations[t].client].up, invocations[t].client)
          /\ invocations[t].client \in Client
      BY <2>2, <2>4 DEF Written
    <3>2. clients[invocations[t].client].up \in BOOLEAN
      BY <3>1 DEF SInv, LInv, ServiceTypes, ClientState
    <3> QED
      BY <1>4, <3>1, <3>2
  <2>5. CASE FinishDone(t)
    BY <1>4, <2>2, <2>5 DEF FinishDone
  <2> QED
    BY <2>1, <2>3, <2>4, <2>5
<1>6. ASSUME NEW c \in Client, Connect(c) \/ CallEnds(c) PROVE OneListens'
  BY <1>1, <1>6 DEF Connect, CallEnds, server
<1>7. ASSUME NEW c \in Observed, ClientStep(c) PROVE OneListens'
  BY <1>1, <1>7 DEF ClientStep, ClientProceed, ClientTask, server
<1>8. CASE UNCHANGED vars
  BY <1>1, <1>8 DEF vars
<1>9. CASE Proceed
  BY <1>9, OneListensProceed
<1> QED
  BY <1>2, <1>3, <1>5, <1>6, <1>7, <1>8, <1>9 DEF Next, DaemonSteps

\* There are never more invocations than clients, but for the one that waits.
LEMMA InvocationsBounded ==
    ASSUME SInv, OneListens
    PROVE  Len(invocations) <= Cardinality(Client) + 1
<1>1. PICK m \in Nat : m = Len(invocations) /\ Tags = 1 .. m
  BY DEF SInv, LInv, ServiceTypes, Tags
<1>2. CASE m = 0
  BY <1>1, <1>2, FS_CardinalityType, ServiceAssumption
<1>3. CASE m > 0
  <2> DEFINE S == 1 .. m - 1
             f == [t \in S |-> invocations[t].client]
  <2>1. ASSUME NEW t \in S PROVE t \in Tags /\ f[t] \in Client /\ f[t] = invocations[t].client
    <3>1. t \in Tags /\ t # m
      BY <1>1, <1>3
    <3>2. invocations[t].state # "ready" /\ invocations[t] \in Invocation
      BY <1>1, <3>1 DEF OneListens, SInv, LInv, ServiceTypes, Tags
    <3>3. invocations[t].client # None
      BY <3>1, <3>2 DEF SInv, InLine, Settled, Shaped
    <3> QED
      BY <3>1, <3>2, <3>3 DEF Invocation
  <2>2. ASSUME NEW t \in S, NEW u \in S, f[t] = f[u] PROVE t = u
    <3>1. /\ t \in Tags /\ u \in Tags /\ invocations[t].client = invocations[u].client
          /\ invocations[t].client \in Client
      BY <2>1, <2>2
    <3> QED
      BY <3>1, ServiceAssumption DEF SInv, InLine, Settled
  <2>3. f \in [S -> Client]
    BY <2>1
  <2>4. IsFiniteSet(S) /\ Cardinality(S) = m - 1
    BY <1>3, FS_Interval
  <2>5. IsFiniteSet(Client) /\ Cardinality(Client) \in Nat
    BY FS_CardinalityType, ServiceAssumption
  <2> HIDE DEF S, f
  <2>6. ~(Cardinality(Client) < Cardinality(S))
    BY <2>2, <2>3, <2>4, <2>5, FS_PigeonHole
  <2> QED
    BY <1>1, <2>4, <2>5, <2>6
<1> QED
  BY <1>1, <1>2, <1>3

LEMMA ServiceTyped == ASSUME SInv, OneListens PROVE TypeOK
<1>1. Len(invocations) <= Cardinality(Client) + 1
  BY InvocationsBounded
<1>2. \A t \in Tags : t \in 1 .. Cardinality(Client) + 1
  BY <1>1, FS_CardinalityType, ServiceAssumption DEF SInv, LInv, ServiceTypes, Tags
<1>3. ASSUME NEW q \in Seq(AnyEvent), \A e \in DOMAIN q : q[e].tag \in Tags PROVE q \in Seq(Event)
  <2>1. ASSUME NEW e \in 1 .. Len(q) PROVE q[e] \in Event
    <3>1. q[e] \in AnyEvent /\ q[e].tag \in Tags
      BY <1>3
    <3> QED
      BY <3>1, <1>2 DEF AnyEvent, Event
  <2> QED
    BY <2>1, SequenceOver
<1>4. completions \in Seq(Event) /\ tasks \in Seq(Event)
  BY <1>3 DEF SInv, LInv, ServiceTypes, Loop
<1>5. published \in 0 .. MaxUpdates
  BY ServiceAssumption DEF OneListens, SInv, LInv, ServiceTypes
<1>6. subscribers \subseteq Tags
  BY DEF SInv, LInv, Loop
<1> QED
  BY <1>1, <1>4, <1>5, <1>6 DEF TypeOK, SInv, LInv, ServiceTypes

\* At any time exactly one invocation waits for the next client, and every
\* other one belongs to a client of its own.
THEOREM OneInvocationListens == Spec => [](SInv /\ OneListens)
<1>1. Init => OneListens
  <2>1. SUFFICES ASSUME Init PROVE OneListens
    OBVIOUS
  <2>2. invocations = <<NewInvocation>> /\ published = 0
    BY <2>1 DEF Init, StartListening
  <2>3. Tags = {1} /\ Len(invocations) = 1 /\ invocations[1].state = "ready"
    BY <2>2 DEF Tags, NewInvocation
  <2> QED
    BY <2>2, <2>3, ServiceAssumption DEF OneListens
<1>2. SInv /\ OneListens /\ [Next]_vars => OneListens'
  BY OneListensNext
<1> QED
  BY <1>1, <1>2, ServiceInvariant, PTL DEF Spec

\* Types: among them, that the invocations are at most one more than the
\* clients, so that the service never allocates without a client to show for it.
THEOREM ServiceTypeCorrect == Spec => []TypeOK
<1>1. SInv /\ OneListens => TypeOK
  BY ServiceTyped
<1> QED
  BY <1>1, OneInvocationListens, PTL

\* Types of the composition that the runs check: each part takes its own steps
\* only, so that it behaves as it does alone.
THEOREM StreamsTypes == StreamsSpec => []StreamsTypeOK
<1>1. StreamsInit => Init /\ RouteInit
  BY DEF StreamsInit
<1>2. [StreamsNext]_<<part, vars, routeVars>> => [Next]_vars /\ [RouteNext]_routeVars
  BY DEF StreamsNext
<1>3. StreamsSpec => Spec /\ RouteSpec
  BY <1>1, <1>2, PTL DEF StreamsSpec, Spec, RouteSpec
<1> QED
  BY <1>3, ServiceTypeCorrect, RouteTypes, PTL DEF StreamsTypeOK
=============================================================================
