------------------------- MODULE MavlinkRouteProofs -------------------------
(***************************************************************************)
(* Proofs about MavlinkRoute: for any number of daemons, vehicles,         *)
(* waypoints and positions, each daemon gets the announcement of every     *)
(* vehicle whole, and behind it the positions in order, with gaps only     *)
(* behind sessions that are dead.                                          *)
(*                                                                         *)
(* A position is on its way to a daemon in one of five stages: received;   *)
(* on the wire; in the session's buffers; posted by the session; posted by *)
(* the route.  The proof follows every position from place to place.       *)
(***************************************************************************)
EXTENDS MavlinkRoute, TLAPS

\* Of a daemon, what the route has to do with.
Keeps(x) ==
    /\ x = [reading |-> x.reading, vehicles |-> x.vehicles, positions |-> x.positions, joined |-> x.joined]
    /\ x.reading \in BOOLEAN /\ x.positions \in Seq(Nat \ {0}) /\ x.joined \in Nat

Types ==
    /\ waiting \subseteq Daemon /\ writing \subseteq Daemon
    /\ accept \in {Nobody} \cup
           [session : Daemon, vehicle : 1 .. Vehicles + 1, sent : 0 .. Waypoints + 2]
    /\ sessions \in Seq(Daemon) /\ posted \in Seq(Posted)
    /\ buffers \in [Daemon -> Seq(Message)] /\ wire \in [Daemon -> Seq(Message)]
    /\ routed \in Nat
    /\ connection \in [Daemon -> {"none", "up", "reset"}]
    /\ daemons = [d \in Daemon |-> daemons[d]]
    /\ \A d \in Daemon : Keeps(daemons[d]) /\ daemons[d].joined <= routed

IsSession(d) == \E i \in DOMAIN sessions : sessions[i] = d

\* A daemon connects once, and becomes at most one session.
Once ==
    /\ \A i, j \in DOMAIN sessions : sessions[i] = sessions[j] => i = j
    /\ \A d \in Daemon :
          /\ IsSession(d) \/ d \in waiting => connection[d] # "none"
          /\ ~(IsSession(d) /\ d \in waiting)
          /\ accept # Nobody /\ accept.session = d =>
                connection[d] # "none" /\ d \notin waiting /\ ~IsSession(d)
          /\ daemons[d].reading => connection[d] = "up"
          /\ d \in writing => buffers[d] # <<>>

\* The handlers of the route wait in order, up to the last position.
Upcoming ==
    /\ \A i \in DOMAIN posted :
          posted[i].session = Nobody =>
              posted[i].message.kind = "position" /\ posted[i].message.number \in 1 .. routed
    /\ \A i, j \in DOMAIN posted :
          i < j /\ posted[i].session = Nobody /\ posted[j].session = Nobody
              => posted[i].message.number < posted[j].message.number
    /\ \E n \in 0 .. routed : \A m \in 1 .. routed : Unrouted(m) <=> m > n

\* The position a message reports, or 0.
Reported(m) == IF m.kind = "position" THEN m.number ELSE 0

\* Position n is in stage k of its way to d, as number i of that stage.
Place(d, k, i, n) ==
    \/ k = 1 /\ i \in DOMAIN daemons[d].positions /\ n = daemons[d].positions[i]
    \/ k = 2 /\ i \in DOMAIN wire[d] /\ n = Reported(wire[d][i])
    \/ k = 3 /\ i \in DOMAIN buffers[d] /\ n = Reported(buffers[d][i])
    \/ k = 4 /\ i \in DOMAIN posted /\ posted[i].session = d /\ n = Reported(posted[i].message)
    \/ k = 5 /\ i \in DOMAIN posted /\ posted[i].session = Nobody /\ n = posted[i].message.number

\* Places further down the way hold later positions; an announcement has none.
Ordered(d) ==
    \A k, l, i, j, m, n \in Nat :
        Place(d, k, i, m) /\ Place(d, l, j, n) /\ (k < l \/ (k = l /\ i < j)) /\ n > 0 => m < n

Bounded(d) ==
    \A k, i, n \in Nat :
        Place(d, k, i, n) =>
            /\ n <= routed
            /\ n > 0 /\ IsSession(d) => daemons[d].joined < n
            /\ k < 5 /\ ~IsSession(d) => n = 0

\* Nothing gets lost between the stages.
Lossless(d) ==
    IsSession(d) /\ Reachable(d) /\ ~SkippedAfterReset(d) =>
        \A n \in Nat : daemons[d].joined < n /\ n <= routed => \E k, i \in Nat : Place(d, k, i, n)

Previous(d, i) == IF i = 1 THEN daemons[d].joined ELSE daemons[d].positions[i - 1]

Consecutive(d) ==
    \A i \in DOMAIN daemons[d].positions :
        /\ Previous(d, i) < daemons[d].positions[i]
        /\ daemons[d].positions[i] = Previous(d, i) + 1 \/ SkippedAfterReset(d)

OnTheWay(d) == Ordered(d) /\ Bounded(d) /\ Lossless(d) /\ Consecutive(d)

RInv == Types /\ Once /\ Upcoming /\ \A d \in Daemon : OnTheWay(d)

-----------------------------------------------------------------------------
(***************************************************************************)
(* Messages and types.                                                     *)
(***************************************************************************)
\* The messages of an announcement, one by one.
LEMMA AnnouncedAt ==
    ASSUME NEW v \in 1 .. Vehicles, NEW i \in 1 .. Waypoints + 3
    PROVE  Announced(v)[i] = IF i = 1 THEN Of(v, "position", 0)
                             ELSE IF i = 2 THEN Of(v, "count", Waypoints)
                             ELSE IF i <= Waypoints + 2 THEN Of(v, "item", i - 3)
                             ELSE Of(v, "heartbeat", 0)
<1> DEFINE items == [k \in 1 .. Waypoints |-> Of(v, "item", k - 1)]
           first == <<Of(v, "position", 0), Of(v, "count", Waypoints)>>
           last  == <<Of(v, "heartbeat", 0)>>
<1>1. /\ Of(v, "position", 0) \in Message /\ Of(v, "count", Waypoints) \in Message
      /\ Of(v, "heartbeat", 0) \in Message
      /\ \A k \in 1 .. Waypoints : Of(v, "item", k - 1) \in Message
  BY RouteAssumption DEF Of, Message
<1>2. items \in Seq(Message) /\ Len(items) = Waypoints
  BY RouteAssumption, <1>1
<1>3. first \in Seq(Message) /\ last \in Seq(Message) /\ Len(first) = 2 /\ Len(last) = 1
  BY <1>1
<1>4. /\ Announced(v) = (first \o items) \o last
      /\ first \o items \in Seq(Message) /\ Len(first \o items) = Waypoints + 2
  BY RouteAssumption, <1>2, <1>3 DEF Announced
<1>5. CASE i <= 2
  <2>1. Announced(v)[i] = first[i]
    BY RouteAssumption, <1>2, <1>3, <1>4, <1>5
  <2> QED
    BY <2>1, <1>5
<1>6. CASE i > 2 /\ i <= Waypoints + 2
  <2>1. Announced(v)[i] = items[i - 2]
    BY RouteAssumption, <1>2, <1>3, <1>4, <1>6
  <2>2. items[i - 2] = Of(v, "item", i - 3)
    BY RouteAssumption, <1>6
  <2> QED
    BY <2>1, <2>2, <1>6
<1>7. CASE i = Waypoints + 3
  <2>1. Announced(v)[i] = last[1]
    BY RouteAssumption, <1>2, <1>3, <1>4, <1>7
  <2> QED
    BY <2>1, <1>7, RouteAssumption
<1> QED
  BY RouteAssumption, <1>5, <1>6, <1>7

\* An announcement consists of messages, none of which reports a position of
\* the running simulation.
LEMMA AnnouncedFacts ==
    ASSUME NEW v \in 1 .. Vehicles, NEW i \in 1 .. Waypoints + 3
    PROVE  Announced(v)[i] \in Message /\ Reported(Announced(v)[i]) = 0
<1>1. Waypoints \in Nat /\ i \in Nat
  BY RouteAssumption
<1>2. CASE i = 1
  <2>1. Announced(v)[i] = Of(v, "position", 0)
    BY <1>2, AnnouncedAt
  <2> QED
    BY <2>1 DEF Of, Message, Reported
<1>3. CASE i = 2
  <2>1. Announced(v)[i] = Of(v, "count", Waypoints)
    BY <1>3, AnnouncedAt
  <2> QED
    BY <2>1, <1>1 DEF Of, Message, Reported
<1>4. CASE i > 2 /\ i <= Waypoints + 2
  <2>1. Announced(v)[i] = Of(v, "item", i - 3) /\ i - 3 \in Nat
    BY <1>1, <1>4, AnnouncedAt
  <2> QED
    BY <2>1 DEF Of, Message, Reported
<1>5. CASE i = Waypoints + 3
  <2>1. Announced(v)[i] = Of(v, "heartbeat", 0)
    BY <1>1, <1>5, AnnouncedAt
  <2> QED
    BY <2>1 DEF Of, Message, Reported
<1> QED
  BY <1>1, <1>2, <1>3, <1>4, <1>5

LEMMA ReportedNat == \A m \in Message : Reported(m) \in Nat
BY DEF Reported, Message

\* What a daemon makes of a message concerns its positions only, as far as the
\* route goes.
LEMMA HandledFacts ==
    ASSUME NEW x, Keeps(x), NEW m \in Message
    PROVE  LET y == Handled(x, m) IN
           /\ Keeps(y) /\ y.reading = x.reading /\ y.joined = x.joined
           /\ y.vehicles = [x.vehicles EXCEPT ![m.vehicle] = Tracked(@, m)]
           /\ y.positions = IF Reported(m) > 0 THEN Append(x.positions, Reported(m)) ELSE x.positions
<1> DEFINE p == IF m.kind = "position" /\ m.number > 0 THEN Append(x.positions, m.number)
                ELSE x.positions
           v == [x.vehicles EXCEPT ![m.vehicle] = Tracked(@, m)]
           w == [x EXCEPT !.vehicles = v]
<1>a. w = [reading |-> x.reading, vehicles |-> v, positions |-> x.positions, joined |-> x.joined]
  <2> HIDE DEF v
  <2>1. PICK a, b, c, d : x = [reading |-> a, vehicles |-> b, positions |-> c, joined |-> d]
    BY Zenon DEF Keeps
  <2> QED
    BY <2>1
<1>b. Handled(x, m) = [w EXCEPT !.positions = p]
  <2>1. w.positions = x.positions
    BY <1>a
  <2> QED
    BY <2>1 DEF Handled
<1>2. Handled(x, m) = [reading |-> x.reading, vehicles |-> v, positions |-> p, joined |-> x.joined]
  <2> HIDE DEF v, w, p
  <2> QED
    BY <1>a, <1>b
<1>1. Handled(x, m).positions = p /\ Handled(x, m).vehicles = v
  <2> HIDE DEF v, p
  <2> QED
    BY <1>2
<1>3. m.number \in Nat
  BY DEF Message
<1>4. Handled(x, m).positions \in Seq(Nat \ {0})
  BY <1>1, <1>3 DEF Keeps
<1> QED
  BY <1>1, <1>2, <1>3, <1>4 DEF Keeps, Reported

LEMMA TypesInit == ASSUME RouteInit PROVE Types
<1>1. ASSUME NEW d \in Daemon PROVE Keeps(daemons[d]) /\ daemons[d].joined <= routed
  <2> DEFINE v == [u \in 1 .. Vehicles |-> NewVehicle]
  <2>1. daemons[d] = [reading |-> FALSE, positions |-> <<>>, joined |-> 0, vehicles |-> v]
    BY DEF RouteInit
  <2> HIDE DEF v
  <2>2. routed = 0
    BY DEF RouteInit
  <2> QED
    BY <2>1, <2>2 DEF Keeps
<1>2. daemons = [d \in Daemon |-> daemons[d]]
  BY DEF RouteInit
<1>3. /\ waiting = {} /\ writing = {} /\ accept = Nobody /\ sessions = <<>> /\ posted = <<>> /\ routed = 0
      /\ buffers \in [Daemon -> Seq(Message)] /\ wire \in [Daemon -> Seq(Message)]
      /\ connection \in [Daemon -> {"none", "up", "reset"}]
  BY DEF RouteInit
<1> QED
  BY <1>1, <1>2, <1>3 DEF Types

LEMMA TypesAccept ==
    ASSUME Types, (\E d \in Daemon : AcceptStarts(d)) \/ AnnounceNext
    PROVE  Types'
<1> USE RouteAssumption DEF Idle
<1>1. ASSUME NEW d \in Daemon, AcceptStarts(d) PROVE Types'
  BY <1>1 DEF AcceptStarts, Types, Keeps
<1>2. CASE AnnounceNext
  <2>1. accept \in [session : Daemon, vehicle : 1 .. Vehicles, sent : 0 .. Waypoints + 2]
    BY <1>2 DEF AnnounceNext, Types
  <2>2. Announced(accept.vehicle)[accept.sent + 1] \in Message
    BY <2>1, AnnouncedFacts
  <2> DEFINE m == Announced(accept.vehicle)[accept.sent + 1]
  <2>3. posted' \in Seq(Posted)
    <3> HIDE DEF m
    <3>1. [session |-> accept.session, message |-> m] \in Posted
      BY <2>1, <2>2 DEF Posted, m
    <3>2. posted' = Append(posted, [session |-> accept.session, message |-> m]) \/ posted' = posted
      BY <1>2 DEF AnnounceNext, m
    <3>3. posted \in Seq(Posted)
      BY DEF Types
    <3> QED
      BY <3>1, <3>2, <3>3
  <2>4. Advanced(accept) \in [session : Daemon, vehicle : 1 .. Vehicles + 1, sent : 0 .. Waypoints + 2]
    <3>1. CASE accept.sent + 1 < Waypoints + 3
      BY <2>1, <3>1 DEF Advanced
    <3>2. CASE ~(accept.sent + 1 < Waypoints + 3)
      <4>1. Advanced(accept) = [accept EXCEPT !.vehicle = accept.vehicle + 1, !.sent = 0]
        BY <3>2 DEF Advanced
      <4>2. accept.vehicle + 1 \in 1 .. Vehicles + 1 /\ 0 \in 0 .. Waypoints + 2
        BY <2>1
      <4> QED
        BY <2>1, <4>1, <4>2
    <3> QED
      BY <3>1, <3>2
  <2> QED
    BY <1>2, <2>3, <2>4 DEF AnnounceNext, Types, Keeps
<1> QED
  BY <1>1, <1>2

LEMMA LastTakenFacts ==
    ASSUME Upcoming
    PROVE  LastTaken \in 0 .. routed /\ \A m \in 1 .. routed : Unrouted(m) <=> m > LastTaken
BY DEF LastTaken, Upcoming

\* r is s with e inserted as number k.
Insertion(r, s, k, e) ==
    /\ r \in Seq(Daemon) /\ Len(r) = Len(s) + 1 /\ r[k] = e
    /\ \A i \in 1 .. Len(s) : s[i] = r[IF i < k THEN i ELSE i + 1]
    /\ \A i \in 1 .. Len(s) + 1 : i # k => r[i] = s[IF i < k THEN i ELSE i - 1]

\* A session enters before, between or behind the others.
LEMMA Inserted ==
    ASSUME NEW s \in Seq(Daemon), NEW e \in Daemon, NEW k \in 1 .. Len(s) + 1
    PROVE  Insertion(InsertAt(s, k, e), s, k, e)
<1> DEFINE a == SubSeq(s, 1, k - 1)
           b == SubSeq(s, k, Len(s))
<1>1. a \in Seq(Daemon) /\ Len(a) = k - 1 /\ \A i \in 1 .. k - 1 : a[i] = s[i]
  OBVIOUS
<1>2. b \in Seq(Daemon) /\ Len(b) = Len(s) - k + 1 /\ \A i \in 1 .. Len(s) - k + 1 : b[i] = s[i + k - 1]
  OBVIOUS
<1>3. InsertAt(s, k, e) = (a \o <<e>>) \o b
  BY DEF InsertAt
<1> HIDE DEF a, b
<1>4. /\ a \o <<e>> \in Seq(Daemon) /\ Len(a \o <<e>>) = k /\ (a \o <<e>>)[k] = e
      /\ \A i \in 1 .. k - 1 : (a \o <<e>>)[i] = s[i]
  BY <1>1
<1> DEFINE c == a \o <<e>>
<1> HIDE DEF c
<1>5. c \o b \in Seq(Daemon) /\ Len(c \o b) = Len(s) + 1
  BY <1>2, <1>4 DEF c
<1>6. \A i \in 1 .. Len(s) + 1 : (c \o b)[i] = IF i <= k THEN c[i] ELSE b[i - k]
  BY <1>2, <1>4 DEF c
<1> DEFINE t == c \o b
<1>7. InsertAt(s, k, e) = t /\ Len(s) \in Nat
  BY <1>3 DEF c
<1>8. t \in Seq(Daemon) /\ Len(t) = Len(s) + 1 /\ t[k] = e
  BY <1>4, <1>5, <1>6 DEF c
<1>11. ASSUME NEW i \in 1 .. Len(s) + 1 PROVE t[i] = IF i <= k THEN c[i] ELSE b[i - k]
  BY <1>6
<1>9. ASSUME NEW i \in 1 .. Len(s) PROVE s[i] = t[IF i < k THEN i ELSE i + 1]
  <2>1. CASE i < k
    BY <1>4, <1>6, <1>7, <2>1 DEF c
  <2>2. CASE i >= k
    <3> HIDE DEF t
    <3>1. t[i + 1] = b[i + 1 - k]
      <4>1. i + 1 \in 1 .. Len(s) + 1 /\ ~(i + 1 <= k)
        BY <1>7, <2>2
      <4> QED
        BY <1>11, <4>1
    <3>2. b[i + 1 - k] = s[(i + 1 - k) + k - 1]
      BY <1>2, <1>7, <2>2
    <3>3. (i + 1 - k) + k - 1 = i
      BY <1>7
    <3> QED
      BY <3>1, <3>2, <3>3, <2>2, <1>7
  <2> HIDE DEF t
  <2> QED
    BY <2>1, <2>2, <1>7
<1>10. ASSUME NEW i \in 1 .. Len(s) + 1, i # k PROVE t[i] = s[IF i < k THEN i ELSE i - 1]
  <2> HIDE DEF t
  <2>1. CASE i < k
    BY <1>9, <1>7, <2>1
  <2>2. CASE i > k
    BY <1>9, <1>7, <2>2
  <2> QED
    BY <1>10, <1>7, <2>1, <2>2
<1> HIDE DEF t
<1> QED
  BY <1>7, <1>8, <1>9, <1>10 DEF Insertion

-----------------------------------------------------------------------------
(***************************************************************************)
(* Places.                                                                 *)
(***************************************************************************)
LEMMA PlaceIndex ==
    ASSUME Types, NEW d \in Daemon, NEW k \in Nat, NEW i \in Nat, NEW n \in Nat, Place(d, k, i, n)
    PROVE  /\ k \in 1 .. 5 /\ i >= 1
           /\ k = 1 => i <= Len(daemons[d].positions)
           /\ k = 2 => i <= Len(wire[d])
           /\ k = 3 => i <= Len(buffers[d])
           /\ k >= 4 => i <= Len(posted)
<1>1. /\ daemons[d].positions \in Seq(Nat \ {0})
      /\ wire[d] \in Seq(Message) /\ buffers[d] \in Seq(Message) /\ posted \in Seq(Posted)
  BY DEF Types, Keeps
<1>2. /\ DOMAIN daemons[d].positions = 1 .. Len(daemons[d].positions)
      /\ DOMAIN wire[d] = 1 .. Len(wire[d]) /\ DOMAIN buffers[d] = 1 .. Len(buffers[d])
      /\ DOMAIN posted = 1 .. Len(posted)
  BY <1>1
<1> QED
  BY <1>2, SMTT(60) DEF Place

\* A handler is posted.
LEMMA PlaceAppended ==
    ASSUME Types, NEW h \in Posted, posted' = Append(posted, h), UNCHANGED <<daemons, wire, buffers>>,
           NEW d \in Daemon, NEW k \in Nat, NEW i \in Nat, NEW n \in Nat
    PROVE  Place(d, k, i, n)' <=>
             \/ Place(d, k, i, n)
             \/ /\ i = Len(posted) + 1
                /\ \/ k = 4 /\ h.session = d /\ n = Reported(h.message)
                   \/ k = 5 /\ h.session = Nobody /\ n = h.message.number
<1>1. /\ posted \in Seq(Posted) /\ DOMAIN posted' = 1 .. Len(posted) + 1
      /\ posted'[Len(posted) + 1] = h /\ \A j \in DOMAIN posted : posted'[j] = posted[j]
      /\ DOMAIN posted = 1 .. Len(posted) /\ Len(posted) \in Nat
  BY DEF Types
<1> QED
  BY <1>1 DEF Place

\* A session that is dead stays dead, and in front of those it is in front of.
LEMMA SkippedStays ==
    ASSUME NEW d \in Daemon, SkippedAfterReset(d), sessions' = sessions,
           \A e \in Daemon : Reachable(e)' => Reachable(e) \/ ~IsSession(e), Types
    PROVE  SkippedAfterReset(d)'
BY DEF SkippedAfterReset, IsSession, Types

\* The handlers of the route wait as long as nothing is posted or run.
LEMMA UpcomingSame == ASSUME Upcoming, UNCHANGED <<posted, routed>> PROVE Upcoming'
<1>1. \A n : Unrouted(n)' <=> Unrouted(n)
  BY DEF Unrouted
<1> QED
  BY <1>1 DEF Upcoming

LEMMA OnTheWaySame ==
    ASSUME UNCHANGED <<sessions, posted, buffers, routed, connection, wire, daemons>>
    PROVE  /\ Upcoming => Upcoming'
           /\ \A d \in Daemon : OnTheWay(d) => OnTheWay(d)'
<1>1. \A d, k, i, n : Place(d, k, i, n)' <=> Place(d, k, i, n)
  BY DEF Place
<1>2. \A d : (SkippedAfterReset(d)' <=> SkippedAfterReset(d)) /\ (IsSession(d)' <=> IsSession(d))
             /\ (Reachable(d)' <=> Reachable(d))
  BY DEF SkippedAfterReset, IsSession, Reachable
<1>3. Upcoming => Upcoming'
  BY DEF Upcoming, Unrouted
<1>4. ASSUME NEW d \in Daemon, OnTheWay(d) PROVE OnTheWay(d)'
  <2>1. Ordered(d)'
    BY <1>1, <1>4 DEF OnTheWay, Ordered
  <2>2. Bounded(d)'
    BY <1>1, <1>2, <1>4 DEF OnTheWay, Bounded
  <2>3. Lossless(d)'
    BY <1>1, <1>2, <1>4 DEF OnTheWay, Lossless
  <2>4. Consecutive(d)'
    BY <1>2, <1>4 DEF OnTheWay, Consecutive, Previous
  <2> QED
    BY <2>1, <2>2, <2>3, <2>4 DEF OnTheWay
<1> QED
  BY <1>3, <1>4

-----------------------------------------------------------------------------
(***************************************************************************)
(* The route accepts a session.                                            *)
(***************************************************************************)
LEMMA StepAcceptStarts ==
    ASSUME RInv, NEW d \in Daemon, AcceptStarts(d)
    PROVE  RInv'
<1>1. Types'
  BY TypesAccept DEF RInv
<1>2. Once'
  BY RouteAssumption DEF AcceptStarts, RInv, Once, IsSession, Reachable
<1>3. Upcoming' /\ \A e \in Daemon : OnTheWay(e)'
  <2>1. UNCHANGED <<sessions, posted, buffers, routed, connection, wire, daemons>>
    BY DEF AcceptStarts
  <2> QED
    BY <2>1, OnTheWaySame DEF RInv
<1> QED
  BY <1>1, <1>2, <1>3 DEF RInv

\* A handler that reports no position is posted by a session.
LEMMA PostedSilently ==
    ASSUME RInv, NEW h \in Posted, h.session # Nobody, Reported(h.message) = 0,
           posted' = Append(posted, h), UNCHANGED <<sessions, buffers, routed, connection, wire, daemons>>
    PROVE  Upcoming' /\ \A d \in Daemon : OnTheWay(d)'
<1>1. /\ posted \in Seq(Posted) /\ DOMAIN posted' = 1 .. Len(posted) + 1
      /\ posted'[Len(posted) + 1] = h /\ \A j \in DOMAIN posted : posted'[j] = posted[j]
      /\ DOMAIN posted = 1 .. Len(posted) /\ Len(posted) \in Nat
  BY DEF RInv, Types
<1>2. Upcoming'
  <2>1. \A m : Unrouted(m)' <=> Unrouted(m)
    BY <1>1 DEF Unrouted
  <2>2. Upcoming
    BY DEF RInv
  <2> QED
    BY <1>1, <2>1, <2>2 DEF Upcoming
<1>3. ASSUME NEW d \in Daemon PROVE OnTheWay(d)'
  <2>1. \A k, i, n \in Nat : Place(d, k, i, n) => Place(d, k, i, n)'
    BY PlaceAppended DEF RInv
  <2>2. \A k, i, n \in Nat : Place(d, k, i, n)' => Place(d, k, i, n) \/ (n = 0 /\ k = 4)
    BY PlaceAppended DEF RInv
  <2>3. (SkippedAfterReset(d)' <=> SkippedAfterReset(d)) /\ (IsSession(d)' <=> IsSession(d))
             /\ (Reachable(d)' <=> Reachable(d))
    BY DEF SkippedAfterReset, IsSession, Reachable
  <2>4. OnTheWay(d) /\ routed \in Nat
    BY DEF RInv, Types
  <2>5. Ordered(d)'
    <3>1. SUFFICES ASSUME NEW k \in Nat, NEW l \in Nat, NEW i \in Nat, NEW j \in Nat,
                          NEW m \in Nat, NEW n \in Nat,
                          Place(d, k, i, m)', Place(d, l, j, n)', k < l \/ (k = l /\ i < j), n > 0
                   PROVE  m < n
      BY DEF Ordered
    <3>2. Place(d, l, j, n)
      BY <2>2, <3>1
    <3>3. CASE Place(d, k, i, m)
      BY <2>4, <3>1, <3>2, <3>3 DEF OnTheWay, Ordered
    <3>4. CASE m = 0
      BY <3>1, <3>4
    <3> QED
      BY <2>2, <3>1, <3>3, <3>4
  <2>6. Bounded(d)'
    BY <2>2, <2>3, <2>4 DEF OnTheWay, Bounded
  <2>7. Lossless(d)'
    BY <2>1, <2>3, <2>4 DEF OnTheWay, Lossless
  <2>8. Consecutive(d)'
    BY <2>3, <2>4 DEF OnTheWay, Consecutive, Previous
  <2> QED
    BY <2>5, <2>6, <2>7, <2>8 DEF OnTheWay
<1> QED
  BY <1>2, <1>3

LEMMA StepAnnounceNext ==
    ASSUME RInv, AnnounceNext
    PROVE  RInv'
<1>1. Types'
  BY TypesAccept DEF RInv
<1>2. Once'
  <2>1. accept # Nobody /\ accept \in [session : Daemon, vehicle : 1 .. Vehicles + 1, sent : 0 .. Waypoints + 2]
    BY DEF AnnounceNext, Idle, RInv, Types
  <2>2. accept' = Nobody \/ accept'.session = accept.session
    BY <2>1 DEF AnnounceNext, Advanced
  <2> QED
    BY <2>1, <2>2 DEF AnnounceNext, RInv, Once, IsSession
<1>3. Upcoming' /\ \A e \in Daemon : OnTheWay(e)'
  <2>1. CASE ~Reachable(accept.session)
    BY <2>1, OnTheWaySame DEF AnnounceNext, RInv
  <2>2. CASE Reachable(accept.session)
    <3>1. accept \in [session : Daemon, vehicle : 1 .. Vehicles, sent : 0 .. Waypoints + 2]
      BY RouteAssumption DEF AnnounceNext, Idle, RInv, Types
    <3> DEFINE m == Announced(accept.vehicle)[accept.sent + 1]
               h == [session |-> accept.session, message |-> m]
    <3>2. m \in Message /\ Reported(m) = 0
      BY RouteAssumption, <3>1, AnnouncedFacts
    <3>3. posted' = Append(posted, h)
      BY <2>2 DEF AnnounceNext
    <3> HIDE DEF m
    <3>4. h \in Posted /\ h.session # Nobody /\ Reported(h.message) = 0
      BY RouteAssumption, <3>1, <3>2 DEF Posted
    <3>5. UNCHANGED <<sessions, buffers, routed, connection, wire, daemons>>
      BY DEF AnnounceNext
    <3> HIDE DEF h
    <3> QED
      BY <3>3, <3>4, <3>5, PostedSilently
  <2> QED
    BY <2>1, <2>2
<1> QED
  BY <1>1, <1>2, <1>3 DEF RInv

\* The daemon that was accepted is the one new session.
LEMMA SessionsAccepted ==
    ASSUME RInv, AcceptEnds
    PROVE  \A d \in Daemon : IsSession(d)' <=> IsSession(d) \/ d = accept.session
<1>e. PICK e \in Daemon : e = accept.session
  BY DEF AcceptEnds, Idle, RInv, Types
<1>2. PICK k \in 1 .. Len(sessions) + 1 : sessions' = InsertAt(sessions, k, e)
  BY <1>e DEF AcceptEnds
<1>3. sessions \in Seq(Daemon) /\ Len(sessions) \in Nat /\ DOMAIN sessions = 1 .. Len(sessions)
  BY DEF RInv, Types
<1>4. /\ sessions' \in Seq(Daemon) /\ Len(sessions') = Len(sessions) + 1 /\ sessions'[k] = e
      /\ DOMAIN sessions' = 1 .. Len(sessions) + 1
      /\ \A i \in 1 .. Len(sessions) : sessions[i] = sessions'[IF i < k THEN i ELSE i + 1]
      /\ \A i \in 1 .. Len(sessions) + 1 : i # k => sessions'[i] = sessions[IF i < k THEN i ELSE i - 1]
  <2>1. Insertion(sessions', sessions, k, e)
    BY <1>2, <1>3, Inserted
  <2> QED
    BY <2>1, <1>3 DEF Insertion
<1>5. ASSUME NEW d \in Daemon, IsSession(d)' PROVE IsSession(d) \/ d = e
  <2>1. PICK i \in 1 .. Len(sessions) + 1 : sessions'[i] = d
    BY <1>5, <1>4 DEF IsSession
  <2>2. CASE i = k
    BY <1>4, <2>1, <2>2
  <2>3. CASE i # k
    <3>1. PICK j : j = IF i < k THEN i ELSE i - 1
      OBVIOUS
    <3>2. j \in 1 .. Len(sessions)
      BY <1>3, <2>1, <2>3, <3>1
    <3>3. sessions[j] = d
      BY <1>4, <2>1, <2>3, <3>1
    <3> QED
      BY <1>3, <3>2, <3>3 DEF IsSession
  <2> QED
    BY <2>2, <2>3
<1>6. ASSUME NEW d \in Daemon, IsSession(d) PROVE IsSession(d)'
  <2>1. PICK i \in 1 .. Len(sessions) : sessions[i] = d
    BY <1>6, <1>3 DEF IsSession
  <2>2. (IF i < k THEN i ELSE i + 1) \in 1 .. Len(sessions) + 1
    BY <1>3
  <2> QED
    BY <2>1, <2>2, <1>4 DEF IsSession
<1>7. IsSession(e)'
  BY <1>3, <1>4 DEF IsSession
<1> QED
  BY <1>e, <1>5, <1>6, <1>7

LEMMA StepAcceptEnds ==
    ASSUME RInv, AcceptEnds
    PROVE  RInv'
<1>e. PICK e \in Daemon : e = accept.session
  BY DEF AcceptEnds, Idle, RInv, Types
<1>1. /\ accept # Nobody /\ e \in Daemon /\ ~IsSession(e) /\ connection[e] # "none" /\ e \notin waiting
      /\ accept' = Nobody /\ UNCHANGED <<waiting, posted, buffers, writing, routed, connection, wire>>
  BY <1>e DEF AcceptEnds, Idle, RInv, Types, Once
<1>2. PICK k \in 1 .. Len(sessions) + 1 : sessions' = InsertAt(sessions, k, e)
  BY <1>e DEF AcceptEnds
<1>3. sessions \in Seq(Daemon) /\ Len(sessions) \in Nat /\ DOMAIN sessions = 1 .. Len(sessions)
  BY DEF RInv, Types
<1>4. /\ sessions' \in Seq(Daemon) /\ Len(sessions') = Len(sessions) + 1 /\ sessions'[k] = e
      /\ DOMAIN sessions' = 1 .. Len(sessions) + 1
      /\ \A i \in 1 .. Len(sessions) : sessions[i] = sessions'[IF i < k THEN i ELSE i + 1]
      /\ \A i \in 1 .. Len(sessions) + 1 : i # k => sessions'[i] = sessions[IF i < k THEN i ELSE i - 1]
  <2>1. Insertion(sessions', sessions, k, e)
    BY <1>2, <1>3, Inserted
  <2> QED
    BY <2>1, <1>3 DEF Insertion
<1>5. \A d \in Daemon : IsSession(d)' <=> IsSession(d) \/ d = e
  BY <1>e, SessionsAccepted
<1>6. \A d \in Daemon : SkippedAfterReset(d) => SkippedAfterReset(d)'
  <2>1. SUFFICES ASSUME NEW d \in Daemon, SkippedAfterReset(d) PROVE SkippedAfterReset(d)'
    OBVIOUS
  <2>2. PICK i, j \in 1 .. Len(sessions) : i < j /\ sessions[j] = d /\ ~Reachable(sessions[i])
    BY <2>1, <1>3 DEF SkippedAfterReset
  <2> DEFINE p == IF i < k THEN i ELSE i + 1
             q == IF j < k THEN j ELSE j + 1
  <2>3. p \in 1 .. Len(sessions) + 1 /\ q \in 1 .. Len(sessions) + 1 /\ p < q
    BY <2>2, <1>3
  <2>4. sessions'[p] = sessions[i] /\ sessions'[q] = sessions[j]
    BY <1>4
  <2> HIDE DEF p, q
  <2>5. connection'[sessions'[p]] # "up"
    BY <2>2, <2>4, <1>1 DEF Reachable
  <2> QED
    BY <2>2, <2>3, <2>4, <2>5, <1>4 DEF SkippedAfterReset, Reachable
<1>7. LastTaken \in 0 .. routed /\ \A m \in 1 .. routed : Unrouted(m) <=> m > LastTaken
  BY LastTakenFacts DEF RInv
<1>8. daemons' = [daemons EXCEPT ![e].joined = LastTaken]
  BY <1>e DEF AcceptEnds
<1>9. \A d \in Daemon :
        /\ Keeps(daemons[d]) /\ daemons'[d].positions = daemons[d].positions
        /\ daemons'[d].reading = daemons[d].reading
        /\ Keeps(daemons'[d]) /\ daemons'[d].joined <= routed
        /\ daemons'[d].joined = IF d = e THEN LastTaken ELSE daemons[d].joined
  <2>1. ASSUME NEW d \in Daemon
        PROVE  /\ Keeps(daemons[d]) /\ daemons[d].joined <= routed
               /\ daemons'[d] = IF d = e THEN [daemons[d] EXCEPT !.joined = LastTaken] ELSE daemons[d]
    BY <1>8 DEF RInv, Types
  <2> HIDE <1>8
  <2>2. SUFFICES ASSUME NEW d \in Daemon
                 PROVE  /\ Keeps(daemons[d]) /\ daemons'[d].positions = daemons[d].positions
                        /\ daemons'[d].reading = daemons[d].reading
                        /\ Keeps(daemons'[d]) /\ daemons'[d].joined <= routed
                        /\ daemons'[d].joined = IF d = e THEN LastTaken ELSE daemons[d].joined
    OBVIOUS
  <2>3. LastTaken \in Nat /\ LastTaken <= routed
    BY <1>7 DEF RInv, Types
  <2> HIDE <1>7
  <2>4. CASE d = e
    <3>1. PICK a, b, c, f : daemons[d] = [reading |-> a, vehicles |-> b, positions |-> c, joined |-> f]
      BY <2>1, Zenon DEF Keeps
    <3>2. daemons'[d] = [reading |-> a, vehicles |-> b, positions |-> c, joined |-> LastTaken]
      BY <2>1, <2>4, <3>1
    <3> QED
      BY <2>1, <2>3, <2>4, <3>1, <3>2 DEF Keeps
  <2>5. CASE d # e
    BY <2>1, <2>5
  <2> QED
    BY <2>4, <2>5
<1>10. Types'
  <2>1. daemons' = [d \in Daemon |-> daemons'[d]]
    BY <1>8 DEF RInv, Types
  <2> QED
    BY <2>1, <1>1, <1>4, <1>9 DEF RInv, Types
<1>11. Once'
  <2>1. \A i, j \in DOMAIN sessions' : sessions'[i] = sessions'[j] => i = j
    <3>1. ASSUME NEW i \in DOMAIN sessions', i # k PROVE sessions'[i] # e
      <4>1. (IF i < k THEN i ELSE i - 1) \in DOMAIN sessions
        BY <3>1, <1>3, <1>4
      <4>2. sessions'[i] = sessions[IF i < k THEN i ELSE i - 1]
        BY <3>1, <1>4
      <4> QED
        BY <4>1, <4>2, <1>1 DEF IsSession
    <3>2. \A i, j \in DOMAIN sessions : sessions[i] = sessions[j] => i = j
      BY DEF RInv, Once
    <3>3. ASSUME NEW i \in DOMAIN sessions', NEW j \in DOMAIN sessions', i # k, j # k,
                 sessions'[i] = sessions'[j]
          PROVE  i = j
      <4> DEFINE a == IF i < k THEN i ELSE i - 1
                 b == IF j < k THEN j ELSE j - 1
      <4>1. a \in DOMAIN sessions /\ b \in DOMAIN sessions
        BY <3>3, <1>2, <1>3, <1>4
      <4>2. sessions[a] = sessions[b]
        BY <3>3, <1>4
      <4>3. a = b
        BY <4>1, <4>2, <3>2
      <4> QED
        BY <4>3, <3>3, <1>2, <1>3, <1>4
    <3> QED
      BY <3>1, <3>3, <1>4
  <2> QED
    BY <2>1, <1>1, <1>5, <1>9 DEF RInv, Once
<1>12. Upcoming'
  BY <1>1, UpcomingSame DEF RInv
<1>13. \A d \in Daemon, l, i, n \in Nat : Place(d, l, i, n)' <=> Place(d, l, i, n)
  BY <1>1, <1>9 DEF Place
<1>14. \A d \in Daemon : Reachable(d)' <=> Reachable(d)
  BY <1>1 DEF Reachable
<1>15. ASSUME NEW d \in Daemon PROVE OnTheWay(d)'
  <2>1. OnTheWay(d) /\ routed \in Nat /\ routed' = routed
    BY <1>1 DEF RInv, Types
  <2>2. Ordered(d)'
    BY <2>1, <1>13 DEF OnTheWay, Ordered
  <2>3. CASE d # e
    <3>1. Bounded(d)'
      BY <2>1, <2>3, <1>5, <1>9, <1>13 DEF OnTheWay, Bounded
    <3>2. Lossless(d)'
      BY <2>1, <2>3, <1>5, <1>6, <1>9, <1>13, <1>14 DEF OnTheWay, Lossless
    <3>3. Consecutive(d)'
      BY <2>1, <2>3, <1>6, <1>9 DEF OnTheWay, Consecutive, Previous
    <3> QED
      BY <2>2, <3>1, <3>2, <3>3 DEF OnTheWay
  <2>4. CASE d = e
    <3>1. \A l, i, n \in Nat : Place(e, l, i, n) => (l < 5 => n = 0) /\ n <= routed /\ l \in 1 .. 5
      BY <2>1, <2>4, <1>1, PlaceIndex DEF OnTheWay, Bounded, RInv
    <3>2. \A i, n \in Nat : Place(e, 5, i, n) => n \in 1 .. routed /\ Unrouted(n)
      BY DEF Place, RInv, Upcoming, Unrouted
    <3>3. Bounded(e)'
      BY <2>1, <3>1, <3>2, <1>1, <1>5, <1>7, <1>9, <1>13 DEF Bounded
    <3>4. ASSUME NEW n \in Nat, LastTaken < n, n <= routed PROVE \E i \in Nat : Place(e, 5, i, n)
      <4>1. Unrouted(n)
        BY <3>4, <2>1, <1>7
      <4>2. DOMAIN posted \subseteq Nat
        BY DEF RInv, Types
      <4> QED
        BY <4>1, <4>2 DEF Unrouted, Place
    <3>5. Lossless(e)'
      BY <2>1, <3>4, <1>1, <1>9, <1>13 DEF Lossless
    <3>6. DOMAIN daemons[e].positions = {}
      <4>1. daemons[e].positions \in Seq(Nat \ {0})
        BY <1>1, <1>9 DEF Keeps
      <4>2. ASSUME NEW i \in DOMAIN daemons[e].positions PROVE FALSE
        <5>1. i \in Nat /\ daemons[e].positions[i] \in Nat \ {0}
          BY <4>1
        <5>2. Place(e, 1, i, daemons[e].positions[i])
          BY DEF Place
        <5> QED
          BY <5>1, <5>2, <3>1
      <4> QED
        BY <4>2
    <3>7. Consecutive(e)'
      BY <3>6, <1>1, <1>9 DEF Consecutive
    <3> QED
      BY <2>2, <2>4, <3>3, <3>5, <3>7 DEF OnTheWay
  <2> QED
    BY <2>3, <2>4
<1> QED
  BY <1>10, <1>11, <1>12, <1>15 DEF RInv

-----------------------------------------------------------------------------
(***************************************************************************)
(* The runner routes a position.                                           *)
(***************************************************************************)
LEMMA StepRoutePosition ==
    ASSUME RInv, RoutePosition
    PROVE  RInv'
<1> DEFINE h == [session |-> Nobody, message |-> Of((routed % Vehicles) + 1, "position", routed + 1)]
<1>1. routed \in Nat /\ routed' = routed + 1
  BY DEF RoutePosition, RInv, Types
<1>2. h \in Posted /\ h.session = Nobody /\ h.message.number = routed + 1 /\ h.message.kind = "position"
  <2>1. (routed % Vehicles) + 1 \in 1 .. Vehicles
    BY RouteAssumption, <1>1
  <2> DEFINE v == (routed % Vehicles) + 1
  <2> HIDE DEF v
  <2>2. Of(v, "position", routed + 1) \in Message /\ Of(v, "position", routed + 1).number = routed + 1
        /\ Of(v, "position", routed + 1).kind = "position"
    BY <2>1, <1>1 DEF Of, Message, v
  <2> QED
    BY <2>2 DEF Posted, v
<1>3. posted' = Append(posted, h)
  BY <1>1 DEF RoutePosition
<1> HIDE DEF h
<1>4. UNCHANGED <<waiting, accept, sessions, buffers, writing, connection, wire, daemons>>
  BY DEF RoutePosition
<1>5. /\ posted \in Seq(Posted) /\ DOMAIN posted' = 1 .. Len(posted) + 1
      /\ posted'[Len(posted) + 1] = h /\ \A j \in DOMAIN posted : posted'[j] = posted[j]
      /\ DOMAIN posted = 1 .. Len(posted) /\ Len(posted) \in Nat
  BY <1>2, <1>3 DEF RInv, Types
<1>6. Types'
  <2>1. \A d \in Daemon : Keeps(daemons'[d]) /\ daemons'[d].joined <= routed'
    <3>1. ASSUME NEW d \in Daemon
          PROVE  Keeps(daemons[d]) /\ daemons[d].joined <= routed /\ daemons'[d] = daemons[d]
                 /\ daemons[d].joined \in Nat
      BY <1>4 DEF RInv, Types, Keeps
    <3> QED
      BY <3>1, <1>1
  <2>2. posted' \in Seq(Posted)
    BY <1>2, <1>3, <1>5
  <2> QED
    BY <2>1, <2>2, <1>1, <1>4 DEF RInv, Types
<1>7. Once'
  BY <1>4 DEF RInv, Once, IsSession
<1>8. Upcoming'
  <2>1. Upcoming
    BY DEF RInv
  <2>2. \A i \in DOMAIN posted' : posted'[i].session = Nobody =>
            posted'[i].message.kind = "position" /\ posted'[i].message.number \in 1 .. routed'
    BY <1>1, <1>2, <1>5, <2>1 DEF Upcoming
  <2>3. \A i, j \in DOMAIN posted' :
          i < j /\ posted'[i].session = Nobody /\ posted'[j].session = Nobody
              => posted'[i].message.number < posted'[j].message.number
    BY <1>1, <1>2, <1>5, <2>1 DEF Upcoming
  <2>4. PICK n \in 0 .. routed : \A m \in 1 .. routed : Unrouted(m) <=> m > n
    BY <2>1 DEF Upcoming
  <2>5. \A m \in Nat : Unrouted(m)' <=> Unrouted(m) \/ m = routed + 1
    BY <1>2, <1>5 DEF Unrouted
  <2>6. n \in 0 .. routed' /\ \A m \in 1 .. routed' : Unrouted(m)' <=> m > n
    BY <2>4, <2>5, <1>1
  <2> QED
    BY <2>2, <2>3, <2>6 DEF Upcoming
<1>9. ASSUME NEW d \in Daemon PROVE OnTheWay(d)'
  <2>1. \A k, i, n \in Nat :
            Place(d, k, i, n)' <=> Place(d, k, i, n) \/ (i = Len(posted) + 1 /\ k = 5 /\ n = routed + 1)
    <3>1. ASSUME NEW k \in Nat, NEW i \in Nat, NEW n \in Nat
          PROVE  Place(d, k, i, n)' <=>
                    Place(d, k, i, n) \/ (i = Len(posted) + 1 /\ k = 5 /\ n = routed + 1)
      BY RouteAssumption, <1>2, <1>3, <1>4, PlaceAppended DEF RInv
    <3> QED
      BY <3>1
  <2>2. OnTheWay(d)
    BY DEF RInv
  <2>3. \A k, i, n \in Nat :
            Place(d, k, i, n) => k \in 1 .. 5 /\ n <= routed /\ (k >= 4 => i <= Len(posted))
    BY <2>2, PlaceIndex DEF OnTheWay, Bounded, RInv
  <2>4. (SkippedAfterReset(d)' <=> SkippedAfterReset(d)) /\ (IsSession(d)' <=> IsSession(d))
             /\ (Reachable(d)' <=> Reachable(d))
    BY <1>4 DEF SkippedAfterReset, IsSession, Reachable
  <2>5. Ordered(d)'
    <3>1. SUFFICES ASSUME NEW k \in Nat, NEW l \in Nat, NEW i \in Nat, NEW j \in Nat,
                          NEW m \in Nat, NEW n \in Nat,
                          Place(d, k, i, m)', Place(d, l, j, n)', k < l \/ (k = l /\ i < j), n > 0
                   PROVE  m < n
      BY DEF Ordered
    <3>2. CASE Place(d, k, i, m) /\ Place(d, l, j, n)
      BY <2>2, <3>1, <3>2 DEF OnTheWay, Ordered
    <3>3. CASE Place(d, k, i, m) /\ n = routed + 1
      BY <2>3, <3>3, <1>1
    <3>4. CASE i = Len(posted) + 1 /\ k = 5
      <4>1. ~Place(d, l, j, n)
        BY <2>3, <3>1, <3>4, <1>5
      <4> QED
        BY <2>1, <3>1, <3>4, <4>1
    <3> QED
      BY <2>1, <3>1, <3>2, <3>3, <3>4
  <2>6. Bounded(d)'
    <3>1. daemons'[d] = daemons[d] /\ daemons[d].joined <= routed /\ daemons[d].joined \in Nat
      BY <1>4, <1>1 DEF RInv, Types, Keeps
    <3> QED
      BY <2>1, <2>2, <2>4, <3>1, <1>1 DEF OnTheWay, Bounded
  <2>7. Lossless(d)'
    <3>1. daemons'[d] = daemons[d] /\ Lossless(d)
      BY <1>4, <2>2 DEF OnTheWay
    <3>2. PICK p \in Nat, r \in Nat : p = Len(posted) + 1 /\ r = routed + 1
      BY <1>1, <1>5
    <3>3. Place(d, 5, p, r)'
      BY <2>1, <3>2
    <3> QED
      BY <2>1, <2>4, <3>1, <3>2, <3>3, <1>1 DEF Lossless
  <2>8. Consecutive(d)'
    BY <2>2, <2>4, <1>4 DEF OnTheWay, Consecutive, Previous
  <2> QED
    BY <2>5, <2>6, <2>7, <2>8 DEF OnTheWay
<1> QED
  BY <1>6, <1>7, <1>8, <1>9 DEF RInv

-----------------------------------------------------------------------------
(***************************************************************************)
(* A posted handler runs.                                                  *)
(***************************************************************************)
\* Without the handler that was first.
LEMMA PostedTail ==
    ASSUME Types, posted # <<>>
    PROVE  /\ Head(posted) = posted[1] /\ posted[1] \in Posted
           /\ Tail(posted) \in Seq(Posted) /\ Len(posted) \in Nat \ {0}
           /\ Len(Tail(posted)) = Len(posted) - 1
           /\ DOMAIN posted = 1 .. Len(posted)
           /\ \A i \in 1 .. Len(posted) - 1 : Tail(posted)[i] = posted[i + 1]
<1>1. posted \in Seq(Posted)
  BY DEF Types
<1> QED
  BY <1>1

\* The session e queues a message it posted.
LEMMA StepRunSession ==
    ASSUME RInv, RunPosted, Head(posted).session # Nobody
    PROVE  RInv'
<1>1. posted # <<>> /\ posted' = Tail(posted)
      /\ UNCHANGED <<waiting, accept, sessions, routed, connection, wire, daemons>>
  BY DEF RunPosted
<1>2. /\ Head(posted) = posted[1] /\ posted[1] \in Posted
      /\ Tail(posted) \in Seq(Posted) /\ Len(posted) \in Nat \ {0}
      /\ Len(Tail(posted)) = Len(posted) - 1
      /\ DOMAIN posted = 1 .. Len(posted)
      /\ \A i \in 1 .. Len(posted) - 1 : Tail(posted)[i] = posted[i + 1]
  BY <1>1, PostedTail DEF RInv
<1>3. PICK e \in Daemon : e = posted[1].session
  BY <1>2 DEF Posted
<1>4. PICK m \in Message : m = posted[1].message
  BY <1>2 DEF Posted
<1>5. Emplaced(e, m)
  BY <1>2, <1>3, <1>4 DEF RunPosted
<1>6. /\ buffers \in [Daemon -> Seq(Message)] /\ buffers' = [buffers EXCEPT ![e] = Append(@, m)]
      /\ writing' = IF buffers[e] = <<>> THEN writing \cup {e} ELSE writing
  BY <1>5 DEF Emplaced, RInv, Types
<1>7. /\ buffers'[e] = Append(buffers[e], m) /\ \A d \in Daemon : d # e => buffers'[d] = buffers[d]
      /\ buffers[e] \in Seq(Message) /\ buffers' \in [Daemon -> Seq(Message)]
  BY <1>6
<1>8. /\ Len(buffers[e]) \in Nat /\ DOMAIN buffers'[e] = 1 .. Len(buffers[e]) + 1
      /\ buffers'[e][Len(buffers[e]) + 1] = m
      /\ \A i \in 1 .. Len(buffers[e]) : buffers'[e][i] = buffers[e][i]
      /\ DOMAIN buffers[e] = 1 .. Len(buffers[e]) /\ buffers'[e] # <<>>
  BY <1>7
<1>9. DOMAIN posted' = 1 .. Len(posted) - 1 /\ posted' \in Seq(Posted)
  BY <1>1, <1>2
<1>10. Types'
  BY <1>1, <1>3, <1>6, <1>7, <1>9 DEF RInv, Types
<1>11. Once'
  <2>1. \A d \in Daemon : d \in writing' => buffers'[d] # <<>>
    BY <1>6, <1>7, <1>8 DEF RInv, Once
  <2> QED
    BY <2>1, <1>1 DEF RInv, Once, IsSession
<1>12. Upcoming'
  <2>1. \A n : Unrouted(n)' <=> Unrouted(n)
    <3>1. ASSUME NEW n, Unrouted(n) PROVE Unrouted(n)'
      <4>1. PICK i \in 1 .. Len(posted) : posted[i].session = Nobody /\ posted[i].message.number = n
        BY <3>1, <1>2 DEF Unrouted
      <4>2. i # 1
        BY RouteAssumption, <4>1, <1>3
      <4>3. i - 1 \in 1 .. Len(posted) - 1 /\ posted'[i - 1] = posted[i]
        BY <4>2, <1>1, <1>2
      <4> QED
        BY <4>1, <4>3, <1>9 DEF Unrouted
    <3>2. ASSUME NEW n, Unrouted(n)' PROVE Unrouted(n)
      BY <3>2, <1>1, <1>2, <1>9 DEF Unrouted
    <3> QED
      BY <3>1, <3>2
  <2>2. Upcoming
    BY DEF RInv
  <2>3. \A i \in DOMAIN posted' : i + 1 \in DOMAIN posted /\ posted'[i] = posted[i + 1] /\ i \in Int
    BY <1>1, <1>2, <1>9
  <2>4. \A i \in DOMAIN posted' : posted'[i].session = Nobody =>
            posted'[i].message.kind = "position" /\ posted'[i].message.number \in 1 .. routed
    BY <2>2, <2>3 DEF Upcoming
  <2>5. \A i, j \in DOMAIN posted' :
          i < j /\ posted'[i].session = Nobody /\ posted'[j].session = Nobody
              => posted'[i].message.number < posted'[j].message.number
    <3>1. \A i, j \in DOMAIN posted' : i < j => i + 1 < j + 1
      BY <2>3
    <3> QED
      BY <2>2, <2>3, <3>1 DEF Upcoming
  <2>6. \E n \in 0 .. routed : \A m_1 \in 1 .. routed : Unrouted(m_1)' <=> m_1 > n
    BY <2>1, <2>2 DEF Upcoming
  <2> QED
    BY <2>4, <2>5, <2>6, <1>1 DEF Upcoming
<1>13. (\A d : (SkippedAfterReset(d)' <=> SkippedAfterReset(d)) /\ (IsSession(d)' <=> IsSession(d))
             /\ (Reachable(d)' <=> Reachable(d)))
  BY <1>1 DEF SkippedAfterReset, IsSession, Reachable
<1>14. ASSUME NEW d \in Daemon PROVE OnTheWay(d)'
  <2>1. ASSUME NEW k \in Nat, NEW i \in Nat, NEW n \in Nat
        PROVE  Place(d, k, i, n)' <=>
                 \/ k \in {1, 2, 3} /\ Place(d, k, i, n)
                 \/ k \in {4, 5} /\ i >= 1 /\ Place(d, k, i + 1, n)
                 \/ k = 3 /\ d = e /\ i = Len(buffers[e]) + 1 /\ Place(d, 4, 1, n)
    <3>1. CASE k \in {1, 2}
      BY <3>1, <1>1 DEF Place
    <3>2. CASE k = 3
      <4>1. CASE d # e
        BY <3>2, <4>1, <1>7 DEF Place
      <4>2. CASE d = e
        BY <3>2, <4>2, <1>2, <1>3, <1>4, <1>8 DEF Place
      <4> QED
        BY <4>1, <4>2
    <3>3. CASE k \in {4, 5}
      <4>1. i \in DOMAIN posted' <=> i >= 1 /\ i + 1 \in DOMAIN posted
        BY <1>2, <1>9
      <4>2. i \in DOMAIN posted' => posted'[i] = posted[i + 1]
        BY <1>1, <1>2, <1>9
      <4> QED
        BY <3>3, <4>1, <4>2 DEF Place
    <3>4. CASE k \notin 1 .. 5
      BY <3>4 DEF Place
    <3> QED
      BY <3>1, <3>2, <3>3, <3>4
  <2>2. OnTheWay(d) /\ routed' = routed /\ daemons'[d] = daemons[d]
    BY <1>1 DEF RInv
  <2>3. \A k, i, n \in Nat : Place(d, k, i, n) =>
            k \in 1 .. 5 /\ i >= 1 /\ (d = e /\ k = 3 => i <= Len(buffers[e]))
    BY PlaceIndex DEF RInv
  <2>4. Ordered(d)'
    <3>1. SUFFICES ASSUME NEW k \in Nat, NEW l \in Nat, NEW i \in Nat, NEW j \in Nat,
                          NEW m1 \in Nat, NEW n \in Nat,
                          Place(d, k, i, m1)', Place(d, l, j, n)', k < l \/ (k = l /\ i < j), n > 0
                   PROVE  m1 < n
      BY DEF Ordered
    <3>2. Ordered(d)
      BY <2>2 DEF OnTheWay
    <3>3. i + 1 \in Nat /\ j + 1 \in Nat
      OBVIOUS
    <3>4. CASE k \in {1, 2, 3} /\ Place(d, k, i, m1)
      <4>1. CASE l \in {1, 2, 3} /\ Place(d, l, j, n)
        BY <3>1, <3>2, <3>4, <4>1 DEF Ordered
      <4>2. CASE l \in {4, 5} /\ Place(d, l, j + 1, n)
        <5>1. k < l
          BY <3>4, <4>2
        <5> QED
          BY <3>1, <3>2, <3>3, <3>4, <4>2, <5>1 DEF Ordered
      <4>3. CASE l = 3 /\ Place(d, 4, 1, n)
        <5>1. k < 4
          BY <3>4
        <5> QED
          BY <3>1, <3>2, <3>4, <4>3, <5>1 DEF Ordered
      <4> QED
        BY <2>1, <3>1, <4>1, <4>2, <4>3
    <3>5. CASE k \in {4, 5} /\ i >= 1 /\ Place(d, k, i + 1, m1)
      <4>1. l \in {4, 5} /\ Place(d, l, j + 1, n)
        BY <2>1, <3>1, <3>5
      <4> QED
        <5>1. k < l \/ (k = l /\ i + 1 < j + 1)
          BY <3>1
        <5> QED
          BY <3>1, <3>2, <3>3, <3>5, <4>1, <5>1 DEF Ordered
    <3>6. CASE k = 3 /\ d = e /\ i = Len(buffers[e]) + 1 /\ Place(d, 4, 1, m1)
      <4>a. l # 3
        <5>1. SUFFICES ASSUME l = 3 PROVE FALSE
          OBVIOUS
        <5>2. j > Len(buffers[e]) + 1
          BY <3>1, <3>6, <5>1
        <5>3. ~Place(d, 3, j, n)
          BY <2>3, <3>6, <5>2, <1>8
        <5>4. j # Len(buffers[e]) + 1
          BY <5>2, <1>8
        <5>5. Place(d, 3, j, n)'
          BY <3>1, <5>1
        <5> QED
          BY <2>1, <5>3, <5>4, <5>5
      <4>1. l \in {4, 5} /\ j >= 1 /\ Place(d, l, j + 1, n)
        <5>1. l \notin {1, 2, 3}
          BY <3>1, <3>6, <4>a
        <5> QED
          BY <2>1, <3>1, <5>1
      <4>2. 4 < l \/ (4 = l /\ 1 < j + 1)
        BY <4>1
      <4> QED
        BY <3>1, <3>2, <3>3, <3>6, <4>1, <4>2 DEF Ordered
    <3> QED
      BY <2>1, <3>1, <3>4, <3>5, <3>6
  <2>5. Bounded(d)'
    <3>1. SUFFICES ASSUME NEW k \in Nat, NEW i \in Nat, NEW n \in Nat, Place(d, k, i, n)'
                   PROVE  /\ n <= routed
                          /\ n > 0 /\ IsSession(d) => daemons[d].joined < n
                          /\ k < 5 /\ ~IsSession(d) => n = 0
      BY <2>2, <1>13 DEF Bounded
    <3>2. PICK l \in Nat, j \in Nat : Place(d, l, j, n) /\ (k < 5 => l < 5)
      BY <2>1, <3>1
    <3> QED
      BY <2>2, <3>2 DEF OnTheWay, Bounded
  <2>6. \A k, i, n \in Nat : Place(d, k, i, n) => \E l, j \in Nat : Place(d, l, j, n)'
    <3>1. SUFFICES ASSUME NEW k \in Nat, NEW i \in Nat, NEW n \in Nat, Place(d, k, i, n)
                   PROVE  \E l, j \in Nat : Place(d, l, j, n)'
      OBVIOUS
    <3>2. CASE k \in {1, 2, 3}
      BY <2>1, <3>1, <3>2
    <3>3. CASE k \in {4, 5} /\ i > 1
      <4>1. PICK j \in Nat : j = i - 1
        BY <3>3
      <4>2. j + 1 = i /\ j >= 1
        BY <4>1, <3>3
      <4>3. Place(d, k, j, n)'
        BY <2>1, <3>1, <3>3, <4>2
      <4> QED
        BY <4>3
    <3>4. CASE k \in {4, 5} /\ i = 1
      <4>1. k = 4 /\ d = e
        BY RouteAssumption, <3>1, <3>4, <1>3 DEF Place
      <4>2. PICK j \in Nat : j = Len(buffers[e]) + 1
        BY <1>8
      <4>3. Place(d, 3, j, n)'
        BY <2>1, <3>1, <3>4, <4>1, <4>2
      <4> QED
        BY <4>3
    <3> QED
      BY <2>3, <3>1, <3>2, <3>3, <3>4
  <2>7. Lossless(d)'
    BY <2>2, <2>6, <1>13 DEF OnTheWay, Lossless
  <2>8. Consecutive(d)'
    BY <2>2, <1>13 DEF OnTheWay, Consecutive, Previous
  <2> QED
    BY <2>4, <2>5, <2>7, <2>8 DEF OnTheWay
<1> QED
  BY <1>10, <1>11, <1>12, <1>14 DEF RInv

\* The route hands a position to the sessions it reaches.
LEMMA StepRunRoute ==
    ASSUME RInv, RunPosted, Head(posted).session = Nobody
    PROVE  RInv'
<1>1. posted # <<>>
      /\ UNCHANGED <<waiting, accept, sessions, buffers, writing, routed, connection, wire, daemons>>
  BY DEF RunPosted
<1>2. /\ Head(posted) = posted[1] /\ posted[1] \in Posted
      /\ Tail(posted) \in Seq(Posted) /\ Len(posted) \in Nat \ {0}
      /\ Len(Tail(posted)) = Len(posted) - 1
      /\ DOMAIN posted = 1 .. Len(posted)
      /\ \A i \in 1 .. Len(posted) - 1 : Tail(posted)[i] = posted[i + 1]
  BY <1>1, PostedTail DEF RInv
<1>3. PICK c \in 0 .. Len(sessions) :
          /\ Reaches(c)
          /\ posted' = Tail(posted) \o
                 [i \in 1 .. c |-> [session |-> sessions[i], message |-> Head(posted).message]]
  BY DEF RunPosted
<1>4. PICK h \in Message : h = posted[1].message
  BY <1>2 DEF Posted
<1>5. /\ sessions \in Seq(Daemon) /\ Len(sessions) \in Nat /\ DOMAIN sessions = 1 .. Len(sessions)
      /\ \A i \in 1 .. Len(sessions) : sessions[i] \in Daemon
  BY DEF RInv, Types
<1>a. c \in Nat /\ c <= Len(sessions) /\ Reaches(c)
  <2>1. \A u \in Nat : \A v \in 0 .. u : v \in Nat /\ v <= u
    OBVIOUS
  <2> QED
    BY <1>3, <1>5, <2>1
<1>6. PICK r \in 1 .. routed : r = h.number /\ h.kind = "position" /\ Reported(h) = r
  <2>1. 1 \in DOMAIN posted /\ posted[1].session = Nobody
    BY <1>2
  <2>2. h.kind = "position" /\ h.number \in 1 .. routed
    BY <2>1, <1>4 DEF RInv, Upcoming
  <2> QED
    BY <2>2 DEF Reported
<1>7. PICK L \in Nat : L = Len(posted) - 1
  <2>1. Len(posted) \in Nat \ {0}
    BY <1>2
  <2> QED
    BY <2>1
<1>8. /\ posted' \in Seq(Posted) /\ DOMAIN posted' = 1 .. L + c
      /\ \A i \in 1 .. L : posted'[i] = posted[i + 1]
      /\ \A i \in L + 1 .. L + c : posted'[i] = [session |-> sessions[i - L], message |-> h]
  <2> DEFINE new == [i \in 1 .. c |-> [session |-> sessions[i], message |-> h]]
  <2>1. new \in Seq(Posted) /\ Len(new) = c /\ \A i \in 1 .. c : new[i] = [session |-> sessions[i], message |-> h]
    BY <1>5 DEF Posted
  <2>2. posted' = Tail(posted) \o new
    BY <1>2, <1>3, <1>4
  <2>3. PICK u \in Seq(Posted), w \in Seq(Posted) :
            u = Tail(posted) /\ w = new /\ Len(u) = L /\ Len(w) = c
    BY <2>1, <1>2, <1>7
  <2>4. posted' = u \o w
    BY <2>2, <2>3
  <2>5. u \o w \in Seq(Posted) /\ Len(u \o w) = L + c
    BY <2>3, <1>a, <1>7
  <2>6. \A i \in 1 .. L : (u \o w)[i] = u[i] /\ u[i] = posted[i + 1]
    BY <2>3, <1>2, <1>7
  <2>7. ASSUME NEW i \in L + 1 .. L + c
        PROVE  (u \o w)[i] = w[i - L] /\ w[i - L] = [session |-> sessions[i - L], message |-> h]
    <3>1. i - L \in 1 .. c
      BY <2>3, <1>7
    <3>2. w[i - L] = [session |-> sessions[i - L], message |-> h]
      BY <2>1, <2>3, <3>1
    <3>3. (u \o w)[i] = w[i - L]
      BY <2>3, <3>1
    <3> QED
      BY <3>2, <3>3
  <2>8. DOMAIN (u \o w) = 1 .. L + c
    BY <2>5
  <2> QED
    BY <2>4, <2>5, <2>6, <2>7, <2>8
<1>9. Types'
  BY <1>1, <1>8 DEF RInv, Types
<1>10. Once'
  BY <1>1 DEF RInv, Once, IsSession
<1>11. Upcoming
  BY DEF RInv
<1>12. \A i \in DOMAIN posted' : posted'[i].session = Nobody => i \in 1 .. L /\ posted'[i] = posted[i + 1]
  <2>1. ASSUME NEW i \in L + 1 .. L + c PROVE posted'[i].session \in Daemon
    <3>1. i - L \in 1 .. Len(sessions)
      BY <1>3, <1>5, <1>7
    <3>2. posted'[i] = [session |-> sessions[i - L], message |-> h]
      BY <1>8
    <3> QED
      BY <3>1, <3>2, <1>5
  <2>2. ASSUME NEW i \in DOMAIN posted', posted'[i].session = Nobody
        PROVE  i \in 1 .. L /\ posted'[i] = posted[i + 1]
    <3>1. i \notin L + 1 .. L + c
      BY RouteAssumption, <2>1, <2>2
    <3>2. i \in 1 .. L + c
      BY <1>8
    <3>3. i \in 1 .. L
      BY <3>1, <3>2, <1>a, <1>7
    <3> QED
      BY <3>3, <1>8
  <2> QED
    BY <2>2
<1>13. \A i \in 1 .. L : i + 1 \in DOMAIN posted /\ i + 1 > 1
  BY <1>2, <1>7
<1>14. routed \in Nat /\ routed' = routed /\ 1 \in DOMAIN posted /\ posted[1].session = Nobody
       /\ posted[1].message.number = r
  BY <1>1, <1>2, <1>4, <1>6 DEF RInv, Types
<1>15. Upcoming'
  <2>1. \A i \in DOMAIN posted' : posted'[i].session = Nobody =>
            posted'[i].message.kind = "position" /\ posted'[i].message.number \in 1 .. routed
    BY <1>11, <1>12, <1>13 DEF Upcoming
  <2>2. \A i, j \in DOMAIN posted' :
          i < j /\ posted'[i].session = Nobody /\ posted'[j].session = Nobody
              => posted'[i].message.number < posted'[j].message.number
    <3>1. \A i, j \in 1 .. L : i < j => i + 1 < j + 1
      BY <1>7
    <3> QED
      BY <1>11, <1>12, <1>13, <3>1 DEF Upcoming
  <2>3. \A m \in Nat : Unrouted(m)' <=> Unrouted(m) /\ m > r
    <3>1. ASSUME NEW m \in Nat, Unrouted(m)' PROVE Unrouted(m) /\ m > r
      <4>1. PICK i \in DOMAIN posted' : posted'[i].session = Nobody /\ posted'[i].message.number = m
        BY <3>1 DEF Unrouted
      <4>2. i + 1 \in DOMAIN posted /\ 1 < i + 1 /\ posted[i + 1].session = Nobody
            /\ posted[i + 1].message.number = m
        BY <4>1, <1>12, <1>13
      <4> QED
        BY <4>2, <1>11, <1>14 DEF Upcoming, Unrouted
    <3>2. ASSUME NEW m \in Nat, Unrouted(m), m > r PROVE Unrouted(m)'
      <4>1. PICK i \in DOMAIN posted : posted[i].session = Nobody /\ posted[i].message.number = m
        BY <3>2 DEF Unrouted
      <4>2. i # 1
        BY <4>1, <3>2, <1>14
      <4>3. i - 1 \in 1 .. L /\ (i - 1) + 1 = i
        BY <4>2, <1>2, <1>7
      <4>4. i - 1 \in DOMAIN posted' /\ posted'[i - 1] = posted[i]
        BY <4>3, <1>7, <1>8
      <4> QED
        BY <4>1, <4>4 DEF Unrouted
    <3> QED
      BY <3>1, <3>2
  <2>4. \A m \in 1 .. routed : Unrouted(m)' <=> m > r
    <3>1. PICK q \in 0 .. routed : \A m \in 1 .. routed : Unrouted(m) <=> m > q
      BY <1>11 DEF Upcoming
    <3>2. r > q
      BY <1>14, <3>1 DEF Unrouted
    <3> QED
      BY <2>3, <3>1, <3>2, <1>14
  <2>5. \E q \in 0 .. routed : \A m \in 1 .. routed : Unrouted(m)' <=> m > q
    <3>1. r \in 0 .. routed
      BY <1>14
    <3> QED
      BY <2>4, <3>1
  <2> QED
    BY <2>1, <2>2, <2>5, <1>14 DEF Upcoming
<1>16. (\A d : (SkippedAfterReset(d)' <=> SkippedAfterReset(d)) /\ (IsSession(d)' <=> IsSession(d))
             /\ (Reachable(d)' <=> Reachable(d)))
  BY <1>1 DEF SkippedAfterReset, IsSession, Reachable
<1>17. ASSUME NEW d \in Daemon PROVE OnTheWay(d)'
  <2>1. ASSUME NEW k \in Nat, NEW i \in Nat, NEW n \in Nat
        PROVE  Place(d, k, i, n)' <=>
                 \/ k \in {1, 2, 3} /\ Place(d, k, i, n)
                 \/ k \in {4, 5} /\ i \in 1 .. L /\ Place(d, k, i + 1, n)
                 \/ k = 4 /\ i \in L + 1 .. L + c /\ sessions[i - L] = d /\ n = r
    <3>1. CASE k \in {1, 2, 3}
      BY <3>1, <1>1 DEF Place
    <3>2. CASE k \in {4, 5} /\ i \in 1 .. L
      <4>1. i \in DOMAIN posted' /\ i + 1 \in DOMAIN posted /\ posted'[i] = posted[i + 1]
        BY <3>2, <1>8, <1>13
      <4> QED
        BY <3>2, <4>1, <1>7 DEF Place
    <3>3. CASE k \in {4, 5} /\ i \in L + 1 .. L + c
      <4>1. i \in DOMAIN posted' /\ posted'[i].session = sessions[i - L] /\ posted'[i].message = h
            /\ sessions[i - L] # Nobody
        <5>1. i - L \in 1 .. Len(sessions) /\ i \in 1 .. L + c
          BY <3>3, <1>3, <1>5, <1>7
        <5> QED
          <6>1. sessions[i - L] \in Daemon /\ i \in DOMAIN posted'
            BY <5>1, <1>5, <1>8
          <6>2. posted'[i] = [session |-> sessions[i - L], message |-> h]
            BY <3>3, <1>8
          <6> QED
            BY RouteAssumption, <6>1, <6>2
      <4> QED
        BY <3>3, <4>1, <1>6 DEF Place
    <3>4. CASE k \in {4, 5} /\ i \notin 1 .. L + c
      BY <3>4, <1>7, <1>8 DEF Place
    <3>5. CASE k \notin 1 .. 5
      BY <3>5 DEF Place
    <3> QED
      BY <3>1, <3>2, <3>3, <3>4, <3>5, <1>7
  <2>2. OnTheWay(d) /\ routed' = routed /\ daemons'[d] = daemons[d]
    BY <1>1 DEF RInv
  <2>3. Place(d, 5, 1, r)
    BY <1>14 DEF Place
  <2>4. \A k, i, n \in Nat : Place(d, k, i, n) => k \in 1 .. 5 /\ i >= 1 /\ (k >= 4 => i <= L + 1)
    BY <1>2, <1>7, PlaceIndex DEF RInv
  <2>5. Ordered(d)'
    <3>1. SUFFICES ASSUME NEW k \in Nat, NEW l \in Nat, NEW i \in Nat, NEW j \in Nat,
                          NEW m \in Nat, NEW n \in Nat,
                          Place(d, k, i, m)', Place(d, l, j, n)', k < l \/ (k = l /\ i < j), n > 0
                   PROVE  m < n
      BY DEF Ordered
    <3>2. Ordered(d)
      BY <2>2 DEF OnTheWay
    <3>3. i + 1 \in Nat /\ j + 1 \in Nat /\ r \in Nat /\ r > 0
      BY <1>6
    <3>4. CASE k \in {1, 2, 3} /\ Place(d, k, i, m)
      <4>1. CASE l \in {1, 2, 3} /\ Place(d, l, j, n)
        BY <3>1, <3>2, <3>4, <4>1 DEF Ordered
      <4>2. CASE l \in {4, 5} /\ Place(d, l, j + 1, n)
        <5>1. k < l
          BY <3>4, <4>2
        <5> QED
          BY <3>1, <3>2, <3>3, <3>4, <4>2, <5>1 DEF Ordered
      <4>3. CASE n = r
        <5>1. k < 5
          BY <3>4
        <5> QED
          BY <2>3, <3>1, <3>2, <3>3, <3>4, <4>3, <5>1 DEF Ordered
      <4> QED
        BY <2>1, <3>1, <4>1, <4>2, <4>3
    <3>5. CASE k \in {4, 5} /\ i \in 1 .. L /\ Place(d, k, i + 1, m)
      <4>1. CASE l \in {4, 5} /\ Place(d, l, j + 1, n)
        <5>1. k < l \/ (k = l /\ i + 1 < j + 1)
          BY <3>1
        <5> QED
          BY <3>1, <3>2, <3>3, <3>5, <4>1, <5>1 DEF Ordered
      <4>2. CASE l = 4 /\ n = r
        <5>1. k < 5
          BY <3>1, <3>5, <4>2
        <5> QED
          BY <2>3, <3>1, <3>2, <3>3, <3>5, <4>2, <5>1 DEF Ordered
      <4> QED
        BY <2>1, <3>1, <3>5, <4>1, <4>2
    <3>6. CASE k = 4 /\ i \in L + 1 .. L + c /\ sessions[i - L] = d /\ m = r
      <4>1. CASE l = 5 /\ j \in 1 .. L /\ Place(d, l, j + 1, n)
        <5>1. 5 = l /\ 1 < j + 1
          BY <4>1
        <5> QED
          BY <2>3, <3>1, <3>2, <3>3, <3>6, <4>1, <5>1 DEF Ordered
      <4>2. CASE j \in L + 1 .. L + c /\ sessions[j - L] = d
        <5>1. i - L \in DOMAIN sessions /\ j - L \in DOMAIN sessions
          BY <3>6, <4>2, <1>5, <1>7
        <5>2. i - L = j - L
          BY <3>6, <4>2, <5>1 DEF RInv, Once
        <5>3. l > 4
          BY <3>1, <3>6, <5>2, <1>7
        <5>4. Place(d, l, j, n)' /\ l \notin {1, 2, 3, 4} /\ j \notin 1 .. L
          BY <3>1, <4>2, <5>3, <1>7
        <5> QED
          BY <2>1, <5>4
      <4>3. CASE l = 4 /\ j \in 1 .. L
        BY <3>1, <3>6, <4>3, <1>7
      <4>4. l \notin {1, 2, 3}
        BY <3>1, <3>6
      <4> QED
        BY <2>1, <3>1, <4>1, <4>2, <4>3, <4>4
    <3> QED
      BY <2>1, <3>1, <3>4, <3>5, <3>6
  <2>6. Bounded(d)'
    <3>1. SUFFICES ASSUME NEW k \in Nat, NEW i \in Nat, NEW n \in Nat, Place(d, k, i, n)'
                   PROVE  /\ n <= routed
                          /\ n > 0 /\ IsSession(d) => daemons[d].joined < n
                          /\ k < 5 /\ ~IsSession(d) => n = 0
      BY <2>2, <1>16 DEF Bounded
    <3>2. CASE k = 4 /\ i \in L + 1 .. L + c /\ sessions[i - L] = d /\ n = r
      <4>1. IsSession(d)
        <5>1. i - L \in DOMAIN sessions
          BY <3>2, <1>5, <1>7
        <5> QED
          BY <3>2, <5>1 DEF IsSession
      <4> QED
        BY <2>2, <2>3, <3>2, <4>1, <1>6 DEF OnTheWay, Bounded
    <3>3. CASE \E j \in Nat : Place(d, k, j, n)
      BY <2>2, <3>3 DEF OnTheWay, Bounded
    <3> QED
      BY <2>1, <3>1, <3>2, <3>3
  <2>7. Lossless(d)'
    <3>1. SUFFICES ASSUME IsSession(d), Reachable(d), ~SkippedAfterReset(d), NEW n \in Nat,
                          daemons[d].joined < n, n <= routed
                   PROVE  \E l, j \in Nat : Place(d, l, j, n)'
      BY <2>2, <1>16 DEF Lossless
    <3>2. PICK k \in Nat, i \in Nat : Place(d, k, i, n)
      BY <2>2, <3>1 DEF OnTheWay, Lossless
    <3>3. CASE k \in {1, 2, 3}
      BY <2>1, <3>2, <3>3
    <3>4. CASE k \in {4, 5} /\ i > 1
      <4>1. PICK j \in Nat : j = i - 1
        BY <3>4
      <4>2. j + 1 = i /\ j \in 1 .. L
        BY <2>4, <3>2, <3>4, <4>1, <1>7
      <4>3. Place(d, k, j, n)'
        BY <2>1, <3>2, <3>4, <4>2
      <4> QED
        BY <4>3
    <3>5. CASE k \in {4, 5} /\ i = 1
      <4>1. n = r
        BY RouteAssumption, <3>2, <3>5, <1>14 DEF Place
      <4>2. PICK x \in 1 .. Len(sessions) : sessions[x] = d
        BY <3>1, <1>5 DEF IsSession
      <4>3. x <= c
        <5>1. SUFFICES ASSUME c < x PROVE FALSE
          BY <1>3, <1>5, <4>2
        <5>2. c + 1 \in DOMAIN sessions /\ ~Reachable(sessions[c + 1])
          <6>1. c + 1 \in 1 .. Len(sessions) /\ c < Len(sessions)
            <7>1. \A u, v, w \in Int : u \in 0 .. w /\ v \in 1 .. w /\ u < v => u + 1 \in 1 .. w /\ u < w
              OBVIOUS
            <7>2. c \in 0 .. Len(sessions) /\ x \in 1 .. Len(sessions) /\ c \in Int /\ x \in Int
                  /\ Len(sessions) \in Int
              BY <1>3, <1>5, <4>2
            <7> QED
              BY <5>1, <7>1, <7>2
          <6>2. c + 1 \in DOMAIN sessions
            BY <6>1, <1>5
          <6> QED
            BY <6>1, <6>2, <1>a DEF Reaches
        <5>3. c + 1 # x
          BY <3>1, <4>2, <5>2
        <5>4. c + 1 < x
          BY <5>1, <5>3, <1>3
        <5> QED
          BY <3>1, <4>2, <5>2, <5>4, <1>5, Zenon DEF SkippedAfterReset
      <4>4. PICK j \in Nat : j = L + x
        BY <1>5, <1>7, <4>2
      <4>5. j \in L + 1 .. L + c /\ j - L = x
        BY <4>2, <4>3, <4>4, <1>3, <1>5, <1>7
      <4>6. Place(d, 4, j, n)'
        BY <2>1, <4>1, <4>2, <4>5
      <4> QED
        BY <4>6
    <3> QED
      BY <2>4, <3>2, <3>3, <3>4, <3>5
  <2>8. Consecutive(d)'
    BY <2>2, <1>16 DEF OnTheWay, Consecutive, Previous
  <2> QED
    BY <2>5, <2>6, <2>7, <2>8 DEF OnTheWay
<1> QED
  BY <1>9, <1>10, <1>15, <1>17 DEF RInv

-----------------------------------------------------------------------------
(***************************************************************************)
(* Connections and daemons.                                                *)
(***************************************************************************)
\* What one daemon and its connection do, does not concern the others.
LEMMA OnTheWayKept ==
    ASSUME NEW d \in Daemon, OnTheWay(d),
           UNCHANGED <<sessions, posted, routed>>,
           wire'[d] = wire[d], buffers'[d] = buffers[d],
           daemons'[d].positions = daemons[d].positions, daemons'[d].joined = daemons[d].joined,
           IsSession(d) => (Reachable(d)' => Reachable(d)),
           SkippedAfterReset(d) => SkippedAfterReset(d)'
    PROVE  OnTheWay(d)'
<1>1. \A k, i, n : Place(d, k, i, n)' <=> Place(d, k, i, n)
  BY DEF Place
<1>2. IsSession(d)' <=> IsSession(d)
  BY DEF IsSession
<1>3. Ordered(d)'
  BY <1>1 DEF OnTheWay, Ordered
<1>4. Bounded(d)'
  BY <1>1, <1>2 DEF OnTheWay, Bounded
<1>5. Lossless(d)'
  BY <1>1, <1>2 DEF OnTheWay, Lossless
<1>6. Consecutive(d)'
  BY DEF OnTheWay, Consecutive, Previous
<1> QED
  BY <1>3, <1>4, <1>5, <1>6 DEF OnTheWay

\* A daemon starts to read, or ends.
LEMMA ReadingSet ==
    ASSUME Types, NEW e \in Daemon, NEW q \in BOOLEAN, daemons' = [daemons EXCEPT ![e].reading = q]
    PROVE  /\ daemons' = [d \in Daemon |-> daemons'[d]]
           /\ \A d \in Daemon : d # e => daemons'[d] = daemons[d]
           /\ Keeps(daemons'[e]) /\ daemons'[e].positions = daemons[e].positions
           /\ daemons'[e].vehicles = daemons[e].vehicles
           /\ daemons'[e].joined = daemons[e].joined /\ daemons'[e].reading = q
<1>1. daemons = [d \in Daemon |-> daemons[d]] /\ Keeps(daemons[e])
  BY DEF Types
<1>2. PICK a, b, c, f : daemons[e] = [reading |-> a, vehicles |-> b, positions |-> c, joined |-> f]
  BY <1>1, Zenon DEF Keeps
<1>3. daemons'[e] = [reading |-> q, vehicles |-> b, positions |-> c, joined |-> f]
  BY <1>1, <1>2
<1>4. daemons' = [d \in Daemon |-> daemons'[d]] /\ \A d \in Daemon : d # e => daemons'[d] = daemons[d]
  BY <1>1
<1> QED
  BY <1>1, <1>2, <1>3, <1>4 DEF Keeps

\* A daemon that connects was no session before.
LEMMA StepConnect ==
    ASSUME RInv, NEW e \in Daemon, DaemonConnects(e)
    PROVE  RInv'
<1>1. /\ connection[e] = "none" /\ connection' = [connection EXCEPT ![e] = "up"]
      /\ waiting' = waiting \cup {e}
      /\ daemons' = [daemons EXCEPT ![e].reading = e \notin Filtered]
      /\ UNCHANGED <<accept, sessions, posted, buffers, writing, routed, wire>>
  BY DEF DaemonConnects
<1>2. /\ connection \in [Daemon -> {"none", "up", "reset"}]
      /\ connection' \in [Daemon -> {"none", "up", "reset"}]
      /\ connection'[e] = "up" /\ \A d \in Daemon : d # e => connection'[d] = connection[d]
  BY <1>1 DEF RInv, Types
<1>3. /\ daemons' = [d \in Daemon |-> daemons'[d]]
      /\ \A d \in Daemon : d # e => daemons'[d] = daemons[d]
      /\ Keeps(daemons'[e]) /\ daemons'[e].positions = daemons[e].positions
      /\ daemons'[e].joined = daemons[e].joined
  BY <1>1, ReadingSet DEF RInv
<1>4. Types'
  <2>1. \A d \in Daemon : Keeps(daemons'[d]) /\ daemons'[d].joined <= routed'
    BY <1>1, <1>3 DEF RInv, Types
  <2> QED
    BY <2>1, <1>1, <1>2, <1>3 DEF RInv, Types
<1>5. ~IsSession(e) /\ e \notin waiting /\ (accept # Nobody => accept.session # e)
  BY <1>1 DEF RInv, Once
<1>6. (\A d : IsSession(d)' <=> IsSession(d))
  BY <1>1 DEF IsSession
<1>7. Once'
  <2>1. \A d \in Daemon : daemons'[d].reading => connection'[d] = "up"
    BY <1>2, <1>3 DEF RInv, Once
  <2>2. ASSUME NEW d \in Daemon
        PROVE  /\ IsSession(d) \/ d \in waiting' => connection'[d] # "none"
               /\ ~(IsSession(d) /\ d \in waiting')
               /\ accept # Nobody /\ accept.session = d =>
                     connection'[d] # "none" /\ d \notin waiting' /\ ~IsSession(d)
    BY <1>1, <1>2, <1>5 DEF RInv, Once
  <2> QED
    BY <2>1, <2>2, <1>1, <1>6 DEF RInv, Once
<1>8. Upcoming'
  BY <1>1, UpcomingSame DEF RInv
<1>9. ASSUME NEW d \in Daemon PROVE OnTheWay(d)'
  <2>1. OnTheWay(d)
    BY DEF RInv
  <2>2. daemons'[d].positions = daemons[d].positions /\ daemons'[d].joined = daemons[d].joined
    BY <1>3
  <2>3. IsSession(d) => (Reachable(d)' => Reachable(d))
    BY <1>2, <1>5 DEF Reachable
  <2>4. SkippedAfterReset(d) => SkippedAfterReset(d)'
    <3>1. \A x \in Daemon : Reachable(x)' => Reachable(x) \/ ~IsSession(x)
      BY <1>2, <1>5 DEF Reachable
    <3> QED
      BY <3>1, <1>1, SkippedStays DEF RInv
  <2> QED
    BY <2>1, <2>2, <2>3, <2>4, <1>1, OnTheWayKept
<1> QED
  BY <1>4, <1>7, <1>8, <1>9 DEF RInv

\* A connection that is lost takes with it what was on the wire.
LEMMA StepReset ==
    ASSUME RInv, NEW e \in Daemon, Reset(e)
    PROVE  RInv'
<1>1. /\ connection[e] = "up" /\ connection' = [connection EXCEPT ![e] = "reset"]
      /\ wire' = [wire EXCEPT ![e] = <<>>]
      /\ daemons' = [daemons EXCEPT ![e].reading = FALSE]
      /\ UNCHANGED <<waiting, accept, sessions, posted, buffers, writing, routed>>
  BY DEF Reset
<1>2. /\ connection' \in [Daemon -> {"none", "up", "reset"}]
      /\ connection'[e] = "reset" /\ \A d \in Daemon : d # e => connection'[d] = connection[d]
  BY <1>1 DEF RInv, Types
<1>3. /\ daemons' = [d \in Daemon |-> daemons'[d]]
      /\ \A d \in Daemon : d # e => daemons'[d] = daemons[d]
      /\ Keeps(daemons'[e]) /\ daemons'[e].positions = daemons[e].positions
      /\ daemons'[e].joined = daemons[e].joined /\ daemons'[e].reading = FALSE
  BY <1>1, ReadingSet DEF RInv
<1>4. /\ wire' \in [Daemon -> Seq(Message)] /\ wire'[e] = <<>>
      /\ \A d \in Daemon : d # e => wire'[d] = wire[d]
  BY <1>1 DEF RInv, Types
<1>5. Types'
  <2>1. \A d \in Daemon : Keeps(daemons'[d]) /\ daemons'[d].joined <= routed'
    BY <1>1, <1>3 DEF RInv, Types
  <2> QED
    BY <2>1, <1>1, <1>2, <1>3, <1>4 DEF RInv, Types
<1>6. (\A d : IsSession(d)' <=> IsSession(d))
  BY <1>1 DEF IsSession
<1>7. Once'
  <2>1. \A d \in Daemon : daemons'[d].reading => connection'[d] = "up"
    BY <1>2, <1>3 DEF RInv, Once
  <2>2. \A d \in Daemon : connection[d] # "none" => connection'[d] # "none"
    BY <1>2
  <2> QED
    BY <2>1, <2>2, <1>1, <1>6 DEF RInv, Once
<1>8. Upcoming'
  BY <1>1, UpcomingSame DEF RInv
<1>9. ASSUME NEW d \in Daemon PROVE SkippedAfterReset(d) => SkippedAfterReset(d)'
  <2>1. \A x \in Daemon : Reachable(x)' => Reachable(x) \/ ~IsSession(x)
    BY <1>2 DEF Reachable
  <2> QED
    BY <2>1, <1>1, SkippedStays DEF RInv
<1>10. ASSUME NEW d \in Daemon, d # e PROVE OnTheWay(d)'
  <2>1. OnTheWay(d)
    BY DEF RInv
  <2>2. daemons'[d].positions = daemons[d].positions /\ daemons'[d].joined = daemons[d].joined
    BY <1>3, <1>10
  <2>3. Reachable(d)' => Reachable(d)
    BY <1>2, <1>10 DEF Reachable
  <2>4. wire'[d] = wire[d]
    BY <1>4, <1>10
  <2> QED
    BY <2>1, <2>2, <2>3, <2>4, <1>1, <1>9, OnTheWayKept
<1>11. OnTheWay(e)'
  <2>1. OnTheWay(e) /\ ~Reachable(e)' /\ routed' = routed
    BY <1>1, <1>2 DEF RInv, Reachable
  <2>2. \A k, i, n : Place(e, k, i, n)' => Place(e, k, i, n)
    BY <1>1, <1>3, <1>4 DEF Place
  <2>3. Ordered(e)'
    BY <2>1, <2>2 DEF OnTheWay, Ordered
  <2>4. Bounded(e)'
    BY <2>1, <2>2, <1>3, <1>6 DEF OnTheWay, Bounded
  <2>5. Lossless(e)'
    BY <2>1 DEF Lossless
  <2>6. Consecutive(e)'
    BY <2>1, <1>3, <1>9 DEF OnTheWay, Consecutive, Previous
  <2> QED
    BY <2>3, <2>4, <2>5, <2>6 DEF OnTheWay
<1> QED
  BY <1>5, <1>7, <1>8, <1>10, <1>11 DEF RInv

\* A write of the session e completes.
LEMMA StepWritten ==
    ASSUME RInv, NEW e \in Daemon, SessionWritten(e)
    PROVE  RInv'
<1>1. /\ e \in writing /\ buffers' = [buffers EXCEPT ![e] = Tail(@)]
      /\ wire' = IF Reachable(e) THEN [wire EXCEPT ![e] = Append(@, Head(buffers[e]))] ELSE wire
      /\ writing' = IF Reachable(e) /\ Len(buffers[e]) > 1 THEN writing ELSE writing \ {e}
      /\ UNCHANGED <<waiting, accept, sessions, posted, routed, connection, daemons>>
  BY DEF SessionWritten
<1>2. PICK b \in Seq(Message), w \in Seq(Message) : b = buffers[e] /\ w = wire[e] /\ b # <<>>
  BY <1>1 DEF RInv, Types, Once
<1>3. buffers \in [Daemon -> Seq(Message)] /\ wire \in [Daemon -> Seq(Message)]
  BY DEF RInv, Types
<1>b. PICK M \in Nat, N \in Nat :
          /\ N = Len(w) /\ Len(b) = M + 1 /\ DOMAIN b = 1 .. M + 1 /\ DOMAIN w = 1 .. N
  <2>1. Len(b) \in Nat \ {0} /\ Len(w) \in Nat /\ DOMAIN b = 1 .. Len(b) /\ DOMAIN w = 1 .. Len(w)
    BY <1>2
  <2>2. Len(b) - 1 \in Nat /\ Len(b) = (Len(b) - 1) + 1
    BY <2>1
  <2> QED
    BY <2>1, <2>2
<1>4. PICK t \in Seq(Message), m \in Message :
          /\ t = Tail(b) /\ m = Head(b) /\ m = b[1]
          /\ Len(t) = M /\ DOMAIN t = 1 .. M /\ \A i \in 1 .. M : t[i] = b[i + 1]
  <2>1. /\ Tail(b) \in Seq(Message) /\ Head(b) \in Message /\ Head(b) = b[1]
        /\ Len(Tail(b)) = M /\ DOMAIN Tail(b) = 1 .. M /\ \A i \in 1 .. M : Tail(b)[i] = b[i + 1]
    BY <1>2, <1>b
  <2> QED
    BY <2>1
<1>5. PICK u \in Seq(Message) :
          /\ u = Append(w, m) /\ DOMAIN u = 1 .. N + 1 /\ u[N + 1] = m
          /\ \A i \in 1 .. N : u[i] = w[i]
  <2>1. /\ Append(w, m) \in Seq(Message) /\ DOMAIN Append(w, m) = 1 .. N + 1
        /\ Append(w, m)[N + 1] = m /\ \A i \in 1 .. N : Append(w, m)[i] = w[i]
    BY <1>2, <1>4, <1>b
  <2> QED
    BY <2>1
<1>6. /\ buffers' \in [Daemon -> Seq(Message)] /\ buffers'[e] = t
      /\ \A d \in Daemon : d # e => buffers'[d] = buffers[d]
  BY <1>1, <1>2, <1>3, <1>4, <1>b
<1>7. /\ wire' \in [Daemon -> Seq(Message)] /\ wire'[e] = IF Reachable(e) THEN u ELSE w
      /\ \A d \in Daemon : d # e => wire'[d] = wire[d]
  BY <1>1, <1>2, <1>3, <1>4, <1>b, <1>5
<1>8. Types'
  BY <1>1, <1>6, <1>7 DEF RInv, Types
<1>9. Once'
  <2>1. \A d \in Daemon : d \in writing' => buffers'[d] # <<>>
    <3>1. e \in writing' => Len(t) > 0
      BY <1>1, <1>2, <1>4, <1>b
    <3>2. e \in writing' => t # <<>>
      BY <3>1
    <3> QED
      BY <3>2, <1>1, <1>6 DEF RInv, Once
  <2> QED
    BY <2>1, <1>1 DEF RInv, Once, IsSession
<1>10. Upcoming'
  BY <1>1, UpcomingSame DEF RInv
<1>11. (\A d : (SkippedAfterReset(d)' <=> SkippedAfterReset(d)) /\ (IsSession(d)' <=> IsSession(d))
             /\ (Reachable(d)' <=> Reachable(d)))
  BY <1>1 DEF SkippedAfterReset, IsSession, Reachable
<1>12. ASSUME NEW d \in Daemon, d # e PROVE OnTheWay(d)'
  <2>1. OnTheWay(d)
    BY DEF RInv
  <2>2. wire'[d] = wire[d] /\ buffers'[d] = buffers[d]
    BY <1>6, <1>7, <1>12
  <2> QED
    BY <2>1, <2>2, <1>1, <1>11, OnTheWayKept
<1>13. ASSUME NEW k \in Nat, NEW i \in Nat, NEW n \in Nat
       PROVE  Place(e, k, i, n)' <=>
                \/ k \in {1, 2, 4, 5} /\ Place(e, k, i, n)
                \/ k = 3 /\ i >= 1 /\ Place(e, 3, i + 1, n)
                \/ k = 2 /\ i = N + 1 /\ Reachable(e) /\ Place(e, 3, 1, n)
  <2>1. CASE k \in {1, 4, 5}
    BY <2>1, <1>1 DEF Place
  <2>2. CASE k = 2
    <3>1. Place(e, 3, 1, n) <=> n = Reported(m)
      BY <1>2, <1>4, <1>b DEF Place
    <3>2. CASE Reachable(e)
      BY <2>2, <3>1, <3>2, <1>2, <1>4, <1>b, <1>5, <1>7 DEF Place
    <3>3. CASE ~Reachable(e)
      BY <2>2, <3>3, <1>2, <1>7 DEF Place
    <3> QED
      BY <3>2, <3>3
  <2>3. CASE k = 3
    <3>1. i \in 1 .. M <=> i >= 1 /\ i + 1 \in 1 .. M + 1
      BY <1>4, <1>b
    <3> QED
      BY <2>3, <3>1, <1>2, <1>4, <1>b, <1>6 DEF Place
  <2>4. CASE k \notin 1 .. 5
    BY <2>4 DEF Place
  <2> QED
    BY <2>1, <2>2, <2>3, <2>4
<1>14. OnTheWay(e)'
  <2>1. OnTheWay(e) /\ routed' = routed /\ daemons'[e] = daemons[e]
    BY <1>1 DEF RInv
  <2>2. \A k, i, n \in Nat : Place(e, k, i, n) => k \in 1 .. 5 /\ i >= 1 /\ (k = 2 => i <= N)
    BY <1>2, <1>4, <1>b, PlaceIndex DEF RInv
  <2>3. Ordered(e)'
    <3>1. SUFFICES ASSUME NEW k \in Nat, NEW l \in Nat, NEW i \in Nat, NEW j \in Nat,
                          NEW p \in Nat, NEW n \in Nat,
                          Place(e, k, i, p)', Place(e, l, j, n)', k < l \/ (k = l /\ i < j), n > 0
                   PROVE  p < n
      BY DEF Ordered
    <3>2. Ordered(e)
      BY <2>1 DEF OnTheWay
    <3>3. i + 1 \in Nat /\ j + 1 \in Nat
      OBVIOUS
    <3>4. CASE k \in {1, 2, 4, 5} /\ Place(e, k, i, p)
      <4>1. CASE l \in {1, 2, 4, 5} /\ Place(e, l, j, n)
        BY <3>1, <3>2, <3>4, <4>1 DEF Ordered
      <4>2. CASE l = 3 /\ Place(e, 3, j + 1, n)
        <5>1. k < 3
          BY <3>1, <3>4, <4>2
        <5> QED
          BY <3>1, <3>2, <3>3, <3>4, <4>2, <5>1 DEF Ordered
      <4>3. CASE l = 2 /\ Place(e, 3, 1, n)
        <5>1. k < 3
          BY <3>1, <3>4, <4>3
        <5> QED
          BY <3>1, <3>2, <3>4, <4>3, <5>1 DEF Ordered
      <4> QED
        BY <1>13, <3>1, <4>1, <4>2, <4>3
    <3>5. CASE k = 3 /\ Place(e, 3, i + 1, p)
      <4>1. CASE l \in {1, 2, 4, 5} /\ Place(e, l, j, n)
        <5>1. 3 < l
          BY <3>1, <3>5, <4>1
        <5> QED
          BY <3>1, <3>2, <3>3, <3>5, <4>1, <5>1 DEF Ordered
      <4>2. CASE l = 3 /\ Place(e, 3, j + 1, n)
        <5>1. i + 1 < j + 1
          BY <3>1, <3>5, <4>2
        <5> QED
          BY <3>1, <3>2, <3>3, <3>5, <4>2, <5>1 DEF Ordered
      <4>3. CASE l = 2
        BY <3>1, <3>5, <4>3
      <4> QED
        BY <1>13, <3>1, <4>1, <4>2, <4>3
    <3>6. CASE k = 2 /\ i = N + 1 /\ Place(e, 3, 1, p)
      <4>1. CASE l \in {1, 2, 4, 5} /\ Place(e, l, j, n)
        <5>1. l # 2
          BY <2>2, <3>1, <3>6, <4>1, <1>4, <1>b
        <5>2. 3 < l
          BY <3>1, <3>6, <4>1, <5>1
        <5> QED
          BY <3>1, <3>2, <3>6, <4>1, <5>2 DEF Ordered
      <4>2. CASE l = 3 /\ j >= 1 /\ Place(e, 3, j + 1, n)
        <5>1. 1 < j + 1
          BY <4>2
        <5> QED
          BY <3>1, <3>2, <3>3, <3>6, <4>2, <5>1 DEF Ordered
      <4>3. CASE l = 2 /\ j = N + 1
        BY <3>1, <3>6, <4>3, <1>4, <1>b
      <4> QED
        BY <1>13, <3>1, <4>1, <4>2, <4>3
    <3> QED
      BY <1>13, <3>1, <3>4, <3>5, <3>6
  <2>4. Bounded(e)'
    <3>1. SUFFICES ASSUME NEW k \in Nat, NEW i \in Nat, NEW n \in Nat, Place(e, k, i, n)'
                   PROVE  /\ n <= routed
                          /\ n > 0 /\ IsSession(e) => daemons[e].joined < n
                          /\ k < 5 /\ ~IsSession(e) => n = 0
      BY <2>1, <1>11 DEF Bounded
    <3>2. PICK l \in Nat, j \in Nat : Place(e, l, j, n) /\ (k < 5 => l < 5)
      BY <1>13, <3>1
    <3> QED
      BY <2>1, <3>2 DEF OnTheWay, Bounded
  <2>5. Lossless(e)'
    <3>1. SUFFICES ASSUME IsSession(e), Reachable(e), ~SkippedAfterReset(e), NEW n \in Nat,
                          daemons[e].joined < n, n <= routed
                   PROVE  \E l, j \in Nat : Place(e, l, j, n)'
      BY <2>1, <1>11 DEF Lossless
    <3>2. PICK k \in Nat, i \in Nat : Place(e, k, i, n)
      BY <2>1, <3>1 DEF OnTheWay, Lossless
    <3>3. CASE k \in {1, 2, 4, 5}
      BY <1>13, <3>2, <3>3
    <3>4. CASE k = 3 /\ i > 1
      <4>1. PICK j \in Nat : j = i - 1
        BY <3>4
      <4>2. j + 1 = i /\ j >= 1
        BY <3>4, <4>1
      <4>3. Place(e, 3, j, n)'
        BY <1>13, <3>2, <3>4, <4>2
      <4> QED
        BY <4>3
    <3>5. CASE k = 3 /\ i = 1
      <4>1. PICK j \in Nat : j = N + 1
        BY <1>4, <1>b
      <4>2. Place(e, 2, j, n)'
        BY <1>13, <3>1, <3>2, <3>5, <4>1
      <4> QED
        BY <4>2
    <3> QED
      BY <2>2, <3>2, <3>3, <3>4, <3>5
  <2>6. Consecutive(e)'
    BY <2>1, <1>11 DEF OnTheWay, Consecutive, Previous
  <2> QED
    BY <2>3, <2>4, <2>5, <2>6 DEF OnTheWay
<1> QED
  BY <1>8, <1>9, <1>10, <1>12, <1>14 DEF RInv

\* The daemon e reads a message.
LEMMA StepReceive ==
    ASSUME RInv, NEW e \in Daemon, Receive(e)
    PROVE  RInv'
<1>1. /\ daemons[e].reading /\ wire[e] # <<>>
      /\ daemons' = [daemons EXCEPT ![e] = Handled(daemons[e], Head(wire[e]))]
      /\ wire' = [wire EXCEPT ![e] = Tail(@)]
      /\ UNCHANGED <<waiting, accept, sessions, posted, buffers, writing, routed, connection>>
  BY DEF Receive
<1>2. PICK w \in Seq(Message), q \in Seq(Nat \ {0}) :
          w = wire[e] /\ w # <<>> /\ q = daemons[e].positions
  BY <1>1 DEF RInv, Types, Keeps
<1>3. PICK M \in Nat, N \in Nat :
          /\ N = Len(q) /\ Len(w) = M + 1 /\ DOMAIN w = 1 .. M + 1 /\ DOMAIN q = 1 .. N
  <2>1. Len(w) \in Nat \ {0} /\ Len(q) \in Nat /\ DOMAIN w = 1 .. Len(w) /\ DOMAIN q = 1 .. Len(q)
    BY <1>2
  <2>2. Len(w) - 1 \in Nat /\ Len(w) = (Len(w) - 1) + 1
    BY <2>1
  <2> QED
    BY <2>1, <2>2
<1>4. PICK t \in Seq(Message), m \in Message :
          /\ t = Tail(w) /\ m = Head(w) /\ m = w[1]
          /\ Len(t) = M /\ DOMAIN t = 1 .. M /\ \A i \in 1 .. M : t[i] = w[i + 1]
  <2>1. /\ Tail(w) \in Seq(Message) /\ Head(w) \in Message /\ Head(w) = w[1]
        /\ Len(Tail(w)) = M /\ DOMAIN Tail(w) = 1 .. M /\ \A i \in 1 .. M : Tail(w)[i] = w[i + 1]
    BY <1>2, <1>3
  <2> QED
    BY <2>1
<1>5. PICK r \in Nat : r = Reported(m)
  BY <1>4, ReportedNat
<1>6. PICK u \in Seq(Nat \ {0}) :
          /\ u = IF r > 0 THEN Append(q, r) ELSE q
          /\ DOMAIN u = IF r > 0 THEN 1 .. N + 1 ELSE 1 .. N
          /\ r > 0 => u[N + 1] = r
          /\ \A i \in 1 .. N : u[i] = q[i]
  <2>1. CASE r > 0
    <3>1. r \in Nat \ {0}
      BY <2>1
    <3>2. /\ Append(q, r) \in Seq(Nat \ {0}) /\ DOMAIN Append(q, r) = 1 .. N + 1
          /\ Append(q, r)[N + 1] = r /\ \A i \in 1 .. N : Append(q, r)[i] = q[i]
      BY <1>2, <1>3, <3>1
    <3> QED
      BY <2>1, <3>2
  <2>2. CASE ~(r > 0)
    BY <2>2, <1>2, <1>3
  <2> QED
    BY <2>1, <2>2
<1>7. PICK y : y = Handled(daemons[e], m)
  OBVIOUS
<1>8. /\ Keeps(y) /\ y.reading = daemons[e].reading /\ y.joined = daemons[e].joined
      /\ y.positions = u
  <2>1. PICK x : x = daemons[e]
    OBVIOUS
  <2>2. Keeps(x) /\ m \in Message
    BY <1>2, <1>4, <2>1 DEF RInv, Types
  <2>3. /\ Keeps(Handled(x, m)) /\ Handled(x, m).reading = x.reading /\ Handled(x, m).joined = x.joined
        /\ Handled(x, m).positions = IF Reported(m) > 0 THEN Append(x.positions, Reported(m)) ELSE x.positions
    BY <2>2, HandledFacts
  <2>4. y = Handled(x, m) /\ x.positions = q
    BY <1>2, <1>7, <2>1
  <2>5. y.positions = u
    <3>1. y.positions = IF r > 0 THEN Append(q, r) ELSE q
      BY <1>5, <2>3, <2>4
    <3> QED
      BY <1>6, <3>1
  <2> QED
    BY <2>1, <2>3, <2>4, <2>5
<1>9. /\ daemons' = [d \in Daemon |-> daemons'[d]] /\ daemons'[e] = y
      /\ \A d \in Daemon : d # e => daemons'[d] = daemons[d]
  <2>1. daemons = [d \in Daemon |-> daemons[d]] /\ daemons' = [daemons EXCEPT ![e] = y]
    BY <1>1, <1>2, <1>4, <1>7 DEF RInv, Types
  <2> QED
    BY <2>1
<1>10. /\ wire' \in [Daemon -> Seq(Message)] /\ wire'[e] = t
       /\ \A d \in Daemon : d # e => wire'[d] = wire[d]
  BY <1>1, <1>2, <1>4 DEF RInv, Types
<1>11. Types'
  <2>1. \A d \in Daemon : Keeps(daemons'[d]) /\ daemons'[d].joined <= routed'
    BY <1>1, <1>8, <1>9 DEF RInv, Types
  <2> QED
    BY <2>1, <1>1, <1>9, <1>10 DEF RInv, Types
<1>12. Once'
  <2>1. \A d \in Daemon : daemons'[d].reading => connection'[d] = "up"
    BY <1>1, <1>8, <1>9 DEF RInv, Once
  <2> QED
    BY <2>1, <1>1 DEF RInv, Once, IsSession
<1>13. Upcoming'
  BY <1>1, UpcomingSame DEF RInv
<1>14. (\A d : (SkippedAfterReset(d)' <=> SkippedAfterReset(d)) /\ (IsSession(d)' <=> IsSession(d))
             /\ (Reachable(d)' <=> Reachable(d)))
  BY <1>1 DEF SkippedAfterReset, IsSession, Reachable
<1>15. ASSUME NEW d \in Daemon, d # e PROVE OnTheWay(d)'
  <2>1. OnTheWay(d)
    BY DEF RInv
  <2>2. wire'[d] = wire[d] /\ buffers'[d] = buffers[d] /\ daemons'[d] = daemons[d]
    BY <1>1, <1>9, <1>10, <1>15
  <2> QED
    BY <2>1, <2>2, <1>1, <1>14, OnTheWayKept
<1>16. ASSUME NEW k \in Nat, NEW i \in Nat, NEW n \in Nat
       PROVE  Place(e, k, i, n)' <=>
                \/ k \in {1, 3, 4, 5} /\ Place(e, k, i, n)
                \/ k = 2 /\ i >= 1 /\ Place(e, 2, i + 1, n)
                \/ k = 1 /\ i = N + 1 /\ n > 0 /\ Place(e, 2, 1, n)
  <2>1. CASE k \in {3, 4, 5}
    BY <2>1, <1>1 DEF Place
  <2>2. CASE k = 1
    <3>1. Place(e, 2, 1, n) <=> n = r
      <4>1. 1 \in DOMAIN wire[e] /\ wire[e][1] = m
        BY <1>2, <1>3, <1>4
      <4> QED
        BY <4>1, <1>5 DEF Place
    <3>2. CASE r > 0
      <4>1. Place(e, 1, i, n)' <=> i \in 1 .. N + 1 /\ n = u[i]
        BY <3>2, <1>6, <1>8, <1>9 DEF Place
      <4>2. Place(e, 1, i, n) <=> i \in 1 .. N /\ n = q[i]
        BY <1>2, <1>3 DEF Place
      <4>3. CASE i \in 1 .. N
        <5>1. u[i] = q[i] /\ i \in 1 .. N + 1 /\ i # N + 1
          BY <4>3, <1>3, <1>6
        <5> QED
          BY <2>2, <4>1, <4>2, <4>3, <5>1
      <4>4. CASE i = N + 1
        <5>1. u[i] = r /\ i \in 1 .. N + 1 /\ i \notin 1 .. N
          BY <3>2, <4>4, <1>3, <1>6
        <5> QED
          BY <2>2, <3>1, <3>2, <4>1, <4>2, <4>4, <5>1
      <4>5. CASE i \notin 1 .. N + 1
        <5>1. i # N + 1 /\ i \notin 1 .. N
          BY <4>5, <1>3
        <5> QED
          BY <2>2, <4>1, <4>2, <4>5, <5>1
      <4> QED
        BY <4>3, <4>4, <4>5, <1>3
    <3>3. CASE ~(r > 0)
      BY <2>2, <3>1, <3>3, <1>2, <1>3, <1>6, <1>8, <1>9 DEF Place
    <3> QED
      BY <3>2, <3>3
  <2>3. CASE k = 2
    <3>1. i \in 1 .. M <=> i >= 1 /\ i + 1 \in 1 .. M + 1
      BY <1>3
    <3> QED
      BY <2>3, <3>1, <1>2, <1>3, <1>4, <1>10 DEF Place
  <2>4. CASE k \notin 1 .. 5
    BY <2>4 DEF Place
  <2> QED
    BY <2>1, <2>2, <2>3, <2>4
<1>17. OnTheWay(e) /\ routed' = routed /\ daemons'[e].joined = daemons[e].joined
       /\ Reachable(e) /\ daemons[e].joined \in Nat
  BY <1>1, <1>8, <1>9 DEF RInv, Once, Reachable, Types, Keeps
<1>18. \A k, i, n \in Nat : Place(e, k, i, n) => k \in 1 .. 5 /\ i >= 1 /\ (k = 1 => i <= N)
  BY <1>2, <1>3, PlaceIndex DEF RInv
<1>19. Ordered(e)'
  <2>1. SUFFICES ASSUME NEW k \in Nat, NEW l \in Nat, NEW i \in Nat, NEW j \in Nat,
                        NEW p \in Nat, NEW n \in Nat,
                        Place(e, k, i, p)', Place(e, l, j, n)', k < l \/ (k = l /\ i < j), n > 0
                 PROVE  p < n
    BY DEF Ordered
  <2>2. Ordered(e)
    BY <1>17 DEF OnTheWay
  <2>3. i + 1 \in Nat /\ j + 1 \in Nat
    OBVIOUS
  <2>4. CASE k \in {1, 3, 4, 5} /\ Place(e, k, i, p)
    <3>1. CASE l \in {1, 3, 4, 5} /\ Place(e, l, j, n)
      BY <2>1, <2>2, <2>4, <3>1 DEF Ordered
    <3>2. CASE l = 2 /\ Place(e, 2, j + 1, n)
      <4>1. k < 2
        BY <2>1, <2>4, <3>2
      <4> QED
        BY <2>1, <2>2, <2>3, <2>4, <3>2, <4>1 DEF Ordered
    <3>3. CASE l = 1 /\ Place(e, 2, 1, n)
      <4>1. k < 2
        BY <2>1, <2>4, <3>3
      <4> QED
        BY <2>1, <2>2, <2>4, <3>3, <4>1 DEF Ordered
    <3> QED
      BY <1>16, <2>1, <3>1, <3>2, <3>3
  <2>5. CASE k = 2 /\ Place(e, 2, i + 1, p)
    <3>1. CASE l \in {1, 3, 4, 5} /\ Place(e, l, j, n)
      <4>1. 2 < l
        BY <2>1, <2>5, <3>1
      <4> QED
        BY <2>1, <2>2, <2>3, <2>5, <3>1, <4>1 DEF Ordered
    <3>2. CASE l = 2 /\ Place(e, 2, j + 1, n)
      <4>1. i + 1 < j + 1
        BY <2>1, <2>5, <3>2
      <4> QED
        BY <2>1, <2>2, <2>3, <2>5, <3>2, <4>1 DEF Ordered
    <3>3. CASE l = 1
      BY <2>1, <2>5, <3>3
    <3> QED
      BY <1>16, <2>1, <3>1, <3>2, <3>3
  <2>6. CASE k = 1 /\ i = N + 1 /\ Place(e, 2, 1, p)
    <3>1. CASE l \in {1, 3, 4, 5} /\ Place(e, l, j, n)
      <4>1. l # 1
        BY <1>18, <2>1, <2>6, <3>1, <1>3
      <4>2. 2 < l
        BY <3>1, <4>1
      <4> QED
        BY <2>1, <2>2, <2>6, <3>1, <4>2 DEF Ordered
    <3>2. CASE l = 2 /\ j >= 1 /\ Place(e, 2, j + 1, n)
      <4>1. 1 < j + 1
        BY <3>2
      <4> QED
        BY <2>1, <2>2, <2>3, <2>6, <3>2, <4>1 DEF Ordered
    <3>3. CASE l = 1 /\ j = N + 1
      BY <2>1, <2>6, <3>3, <1>3
    <3> QED
      BY <1>16, <2>1, <3>1, <3>2, <3>3
  <2> QED
    BY <1>16, <2>1, <2>4, <2>5, <2>6
<1>20. Bounded(e)'
  <2>1. SUFFICES ASSUME NEW k \in Nat, NEW i \in Nat, NEW n \in Nat, Place(e, k, i, n)'
                 PROVE  /\ n <= routed
                        /\ n > 0 /\ IsSession(e) => daemons[e].joined < n
                        /\ k < 5 /\ ~IsSession(e) => n = 0
    BY <1>14, <1>17 DEF Bounded
  <2>2. PICK l \in Nat, j \in Nat : Place(e, l, j, n) /\ (k < 5 => l < 5)
    BY <1>16, <2>1
  <2> QED
    BY <1>17, <2>2, SMTT(60) DEF OnTheWay, Bounded
<1>21. Lossless(e)'
  <2>1. SUFFICES ASSUME IsSession(e), Reachable(e), ~SkippedAfterReset(e), NEW n \in Nat,
                        daemons[e].joined < n, n <= routed
                 PROVE  \E l, j \in Nat : Place(e, l, j, n)'
    BY <1>14, <1>17 DEF Lossless
  <2>2. PICK k \in Nat, i \in Nat : Place(e, k, i, n)
    BY <1>17, <2>1 DEF OnTheWay, Lossless
  <2>3. CASE k \in {1, 3, 4, 5}
    BY <1>16, <2>2, <2>3
  <2>4. CASE k = 2 /\ i > 1
    <3>1. PICK j \in Nat : j = i - 1
      BY <2>4
    <3>2. j + 1 = i /\ j >= 1
      BY <2>4, <3>1
    <3>3. Place(e, 2, j, n)'
      BY <1>16, <2>2, <2>4, <3>2
    <3> QED
      BY <3>3
  <2>5. CASE k = 2 /\ i = 1
    <3>1. PICK j \in Nat : j = N + 1
      BY <1>3
    <3>2. n > 0
      BY <1>17, <2>1
    <3>3. Place(e, 1, j, n)'
      BY <1>16, <2>2, <2>5, <3>1, <3>2
    <3> QED
      BY <3>3
  <2> QED
    BY <1>18, <2>2, <2>3, <2>4, <2>5
<1>22. ASSUME NEW p \in Nat, r > 0, p = IF N = 0 THEN daemons[e].joined ELSE q[N]
       PROVE  p < r /\ (r = p + 1 \/ SkippedAfterReset(e))
  <2>1. Place(e, 2, 1, r)
    BY <1>2, <1>3, <1>4, <1>5 DEF Place
  <2>2. Ordered(e) /\ Bounded(e) /\ Lossless(e)
    BY <1>17 DEF OnTheWay
  <2>3. IsSession(e) /\ daemons[e].joined < r /\ r <= routed
    BY <2>1, <2>2, <1>22 DEF Bounded
  <2>4. N > 0 => Place(e, 1, N, p) /\ p > 0
    BY <1>2, <1>3, <1>22 DEF Place
  <2>5. daemons[e].joined <= p
    BY <2>2, <2>3, <2>4, <1>3, <1>17, <1>22 DEF Bounded
  <2>6. p < r
    <3>1. CASE N = 0
      BY <2>3, <3>1, <1>22
    <3>2. CASE N > 0
      <4>1. 1 < 2 /\ N \in Nat /\ r \in Nat /\ r > 0
        BY <1>3, <1>5, <1>22
      <4>2. Place(e, 1, N, p) /\ Place(e, 2, 1, r)
        BY <2>1, <2>4, <3>2
      <4> QED
        BY <2>2, <4>1, <4>2 DEF Ordered
    <3> QED
      BY <3>1, <3>2, <1>3
  <2>7. ASSUME p + 1 < r, ~SkippedAfterReset(e) PROVE FALSE
    <3>1. p + 1 \in Nat /\ p + 1 > 0 /\ daemons[e].joined < p + 1 /\ p + 1 <= routed
      <4>1. routed \in Nat
        BY DEF RInv, Types
      <4> QED
        BY <2>3, <2>5, <2>7, <4>1, <1>17
    <3>2. PICK k \in Nat, j \in Nat : Place(e, k, j, p + 1)
      BY <2>2, <2>3, <2>7, <3>1, <1>17 DEF Lossless
    <3>3. CASE k = 1
      <4>1. j \in 1 .. N /\ p + 1 = q[j]
        BY <3>2, <3>3, <1>2, <1>3 DEF Place
      <4>2. j # N
        BY <4>1, <1>22
      <4>3. j < N /\ N > 0
        BY <4>1, <4>2
      <4>4. p + 1 < p
        BY <2>2, <2>4, <3>1, <3>2, <3>3, <4>3, <1>3 DEF Ordered
      <4> QED
        BY <4>4
    <3>4. CASE k = 2 /\ j = 1
      BY <3>2, <3>4, <2>7, <1>2, <1>4, <1>5 DEF Place
    <3>5. CASE 2 < k \/ (2 = k /\ 1 < j)
      <4>1. r < p + 1
        BY <2>1, <2>2, <3>1, <3>2, <3>5 DEF Ordered
      <4> QED
        BY <4>1, <2>7
    <3> QED
      BY <3>2, <3>3, <3>4, <3>5, <1>18
  <2> QED
    BY <2>6, <2>7
<1>23. Consecutive(e)'
  <2>1. SUFFICES ASSUME NEW i \in DOMAIN u
                 PROVE  LET p == IF i = 1 THEN daemons[e].joined ELSE u[i - 1]
                        IN  p < u[i] /\ (u[i] = p + 1 \/ SkippedAfterReset(e))
    BY <1>8, <1>9, <1>14, <1>17 DEF Consecutive, Previous
  <2>2. CASE i \in 1 .. N
    <3>1. u[i] = q[i] /\ (i # 1 => u[i - 1] = q[i - 1])
      BY <2>2, <1>3, <1>6
    <3>2. Consecutive(e) /\ i \in DOMAIN q
      BY <2>2, <1>3, <1>17 DEF OnTheWay
    <3> QED
      BY <3>1, <3>2, <1>2 DEF Consecutive, Previous
  <2>3. CASE i \notin 1 .. N
    <3>1. i = N + 1 /\ r > 0 /\ u[i] = r
      BY <2>1, <2>3, <1>3, <1>6
    <3>2. N > 0 => q[N] \in Nat /\ u[N] = q[N]
      BY <1>2, <1>3, <1>6
    <3>3. PICK p \in Nat : p = IF N = 0 THEN daemons[e].joined ELSE q[N]
      BY <3>2, <1>3, <1>17
    <3>4. p < r /\ (r = p + 1 \/ SkippedAfterReset(e))
      BY <3>1, <3>3, <1>22
    <3>5. (i = 1 <=> N = 0) /\ i - 1 = N
      BY <3>1, <1>3
    <3> QED
      BY <3>1, <3>2, <3>3, <3>4, <3>5, <1>3
  <2> QED
    BY <2>2, <2>3
<1>24. OnTheWay(e)'
  BY <1>19, <1>20, <1>21, <1>23 DEF OnTheWay
<1> QED
  BY <1>11, <1>12, <1>13, <1>15, <1>24 DEF RInv

-----------------------------------------------------------------------------
(***************************************************************************)
(* The theorems.                                                           *)
(***************************************************************************)
\* Nothing is on its way at first.
LEMMA RInvInit == ASSUME RouteInit PROVE RInv
<1>1. Types
  BY TypesInit
<1>2. /\ sessions = <<>> /\ posted = <<>> /\ routed = 0 /\ waiting = {} /\ writing = {} /\ accept = Nobody
      /\ \A d \in Daemon :
            /\ buffers[d] = <<>> /\ wire[d] = <<>>
            /\ daemons[d].positions = <<>> /\ ~daemons[d].reading
  BY DEF RouteInit
<1>3. ~\E i \in DOMAIN <<>> : TRUE
  OBVIOUS
<1>4. DOMAIN sessions = {} /\ DOMAIN posted = {}
      /\ \A d \in Daemon : DOMAIN buffers[d] = {} /\ DOMAIN wire[d] = {} /\ DOMAIN daemons[d].positions = {}
  BY <1>2
<1>5. \A d : ~IsSession(d)
  BY <1>4 DEF IsSession
<1>6. Once
  BY <1>2, <1>4, <1>5 DEF Once
<1>7. Upcoming
  BY <1>2, <1>4 DEF Upcoming, Unrouted
<1>8. ASSUME NEW d \in Daemon PROVE OnTheWay(d)
  <2>1. \A k, i, n : ~Place(d, k, i, n)
    BY <1>4 DEF Place
  <2> QED
    BY <2>1, <1>4, <1>5 DEF OnTheWay, Ordered, Bounded, Lossless, Consecutive
<1> QED
  BY <1>1, <1>6, <1>7, <1>8 DEF RInv

\* Every step moves the positions on, and loses none but behind a dead session.
LEMMA RInvNext == ASSUME RInv, [RouteNext]_routeVars PROVE RInv'
<1>1. CASE UNCHANGED routeVars
  <2>1. UNCHANGED <<waiting, accept, sessions, posted, buffers, writing, routed, connection, wire, daemons>>
    BY <1>1 DEF routeVars
  <2>2. Types' /\ Once'
    BY <2>1 DEF RInv, Types, Once, IsSession
  <2> QED
    BY <2>1, <2>2, OnTheWaySame DEF RInv
<1>2. CASE AnnounceNext
  BY <1>2, StepAnnounceNext
<1>3. CASE AcceptEnds
  BY <1>3, StepAcceptEnds
<1>4. CASE RunPosted
  BY <1>4, StepRunSession, StepRunRoute
<1>5. CASE RoutePosition
  BY <1>5, StepRoutePosition
<1>6. ASSUME NEW d \in Daemon, AcceptStarts(d) PROVE RInv'
  BY <1>6, StepAcceptStarts
<1>7. ASSUME NEW d \in Daemon, SessionWritten(d) PROVE RInv'
  BY <1>7, StepWritten
<1>8. ASSUME NEW d \in Daemon, DaemonConnects(d) PROVE RInv'
  BY <1>8, StepConnect
<1>9. ASSUME NEW d \in Daemon, Reset(d) PROVE RInv'
  BY <1>9, StepReset
<1>10. ASSUME NEW d \in Daemon, Receive(d) PROVE RInv'
  BY <1>10, StepReceive
<1> QED
  BY <1>1, <1>2, <1>3, <1>4, <1>5, <1>6, <1>7, <1>8, <1>9, <1>10 DEF RouteNext

\* Each daemon becomes at most one session, the handlers of the route wait in
\* the order the runner posted them, and on its way from the runner through
\* the session's queue and the connection to the daemon no position is lost,
\* repeated or overtaken but behind a dead session.
THEOREM RouteInvariant == RouteSpec => []RInv
<1>1. RouteInit => RInv
  BY RInvInit
<1>2. RInv /\ [RouteNext]_routeVars => RInv'
  BY RInvNext
<1> QED
  BY <1>1, <1>2, PTL DEF RouteSpec

\* A daemon gets the positions routed since it became a session in order, and
\* all of them unless the route gave up at a dead session in front of it.
THEOREM PositionsComeInOrder == RouteSpec => []GapsOnlyBehindDeadSessions
<1>1. ASSUME RInv PROVE GapsOnlyBehindDeadSessions
  <2>1. SUFFICES ASSUME NEW d \in Daemon
                 PROVE  LET p == <<daemons[d].joined>> \o daemons[d].positions IN
                        \A i \in 1 .. Len(p) - 1 :
                            p[i] < p[i + 1] /\ (p[i + 1] = p[i] + 1 \/ SkippedAfterReset(d))
    BY DEF GapsOnlyBehindDeadSessions
  <2>2. PICK q \in Seq(Nat \ {0}), z \in Nat : q = daemons[d].positions /\ z = daemons[d].joined
    BY <1>1 DEF RInv, Types, Keeps
  <2>3. PICK p \in Seq(Nat) : p = <<z>> \o q
    <3>1. q \in Seq(Nat) /\ <<z>> \in Seq(Nat)
      BY <2>2
    <3>2. \A s, t \in Seq(Nat) : s \o t \in Seq(Nat)
      OBVIOUS
    <3> QED
      BY <3>1, <3>2, Zenon
  <2>4. /\ Len(p) = Len(q) + 1 /\ Len(q) \in Nat /\ DOMAIN q = 1 .. Len(q) /\ p[1] = z
        /\ \A i \in 1 .. Len(q) : p[i + 1] = q[i]
    BY <2>2, <2>3
  <2>5. ASSUME NEW i \in 1 .. Len(q)
        PROVE  p[i] < p[i + 1] /\ (p[i + 1] = p[i] + 1 \/ SkippedAfterReset(d))
    <3>1. p[i + 1] = q[i]
      BY <2>4
    <3>2. p[i] = Previous(d, i)
      <4>1. CASE i = 1
        BY <2>2, <2>4, <4>1 DEF Previous
      <4>2. CASE i > 1
        <5>1. i - 1 \in 1 .. Len(q) /\ (i - 1) + 1 = i
          BY <2>4, <4>2
        <5>2. p[i] = q[i - 1]
          BY <2>4, <5>1
        <5> QED
          BY <2>2, <4>2, <5>2 DEF Previous
      <4> QED
        BY <2>4, <4>1, <4>2
    <3> QED
      BY <1>1, <2>2, <2>4, <3>1, <3>2 DEF RInv, OnTheWay, Consecutive
  <2>6. Len(p) - 1 = Len(q)
    BY <2>4
  <2> QED
    BY <2>2, <2>3, <2>5, <2>6
<1> QED
  BY <1>1, RouteInvariant, PTL

-----------------------------------------------------------------------------
(***************************************************************************)
(* The announcement.  What is on its way to a daemon through its session   *)
(* is one queue: the wire, behind it the session's buffers, behind them    *)
(* the posted handlers.  For each vehicle, the queue holds the messages of *)
(* its announcement the daemon does not have yet, up to the last that was  *)
(* sent, in their order; the running simulation comes behind them.         *)
(***************************************************************************)
\* A position of the running simulation.
Running(m) == m.kind = "position" /\ m.number > 0

\* Which message of v's announcement m is; 0 if it is another vehicle's.  The
\* positions of the running simulation come behind the announcement.
Rank(v, m) ==
    IF Running(m) THEN Waypoints + 4
    ELSE IF m.vehicle # v THEN 0
    ELSE IF m.kind = "position" THEN 1
    ELSE IF m.kind = "count" /\ m.number = Waypoints THEN 2
    ELSE IF m.kind = "item" /\ m.number < Waypoints THEN m.number + 3
    ELSE IF m.kind = "heartbeat" THEN Waypoints + 3
    ELSE Waypoints + 5

\* What is on its way to d through its session, as one queue: a handler of
\* another session leaves a blank.
Blank == Of(0, "position", 0)

PostedBy(p, d) == [i \in 1 .. Len(p) |-> IF p[i].session = d THEN p[i].message ELSE Blank]

LineOf(w, b, p, d) == (w \o b) \o PostedBy(p, d)

Line(d) == LineOf(wire[d], buffers[d], posted, d)

Lined == [kind : {"position", "count", "item", "heartbeat"}, vehicle : 0 .. Vehicles, number : Nat]

Ranks(v, q) == [i \in 1 .. Len(q) |-> Rank(v, q[i])]

\* The ranks are those of an announcement behind number x, up to number z, in
\* their order; a position of the running simulation comes behind all of it.
Queued(R, x, z) ==
    /\ \A i \in 1 .. Len(R) : R[i] > 0 =>
          x < R[i] /\ (R[i] <= z \/ (R[i] = Waypoints + 4 /\ z = Waypoints + 3))
    /\ \A i, j \in 1 .. Len(R) : i < j /\ R[j] > 0 => R[i] < R[j] \/ R[j] = Waypoints + 4
    /\ \A t \in x + 1 .. z : \E i \in 1 .. Len(R) : R[i] = t

LEMMA RankFacts ==
    ASSUME NEW v \in 1 .. Vehicles, NEW m \in Lined
    PROVE  /\ Rank(v, m) \in 0 .. Waypoints + 5
           /\ Rank(v, m) = Waypoints + 4 <=> Running(m)
           /\ m = Blank => Rank(v, m) = 0
BY RouteAssumption DEF Rank, Running, Lined, Blank, Of

LEMMA LinedFacts == Message \subseteq Lined /\ Blank \in Lined
BY RouteAssumption DEF Message, Lined, Blank, Of

\* What leaves a queue is not of the announcement, or the next of it, or all of
\* it is behind.
LEMMA QueuedHead ==
    ASSUME NEW R \in Seq(Nat), R # <<>>, NEW x \in Nat, NEW z \in 0 .. Waypoints + 3, x <= z, Queued(R, x, z)
    PROVE  /\ R[1] = 0 \/ R[1] = x + 1
           /\ R[1] = x + 1 => x < z \/ (x = Waypoints + 3 /\ z = Waypoints + 3)
<1>1. Waypoints \in Nat /\ z \in Nat /\ Len(R) \in Nat \ {0} /\ 1 \in 1 .. Len(R)
  BY RouteAssumption
<1>2. PICK p \in Nat : p = R[1]
  BY <1>1
<1>3. /\ p > 0 => x < p /\ (p <= z \/ (p = Waypoints + 4 /\ z = Waypoints + 3))
      /\ \A j \in 1 .. Len(R) : j # 1 /\ R[j] > 0 => p < R[j] \/ R[j] = Waypoints + 4
  BY <1>1, <1>2 DEF Queued
<1>4. CASE p > 0 /\ x < z
  <2>1. PICK i \in 1 .. Len(R) : R[i] = x + 1
    BY <1>1, <1>4 DEF Queued
  <2>2. i = 1 \/ p < x + 1 \/ x + 1 = Waypoints + 4
    BY <1>3, <2>1
  <2> QED
    BY <1>1, <1>2, <1>3, <1>4, <2>1, <2>2
<1> QED
  BY <1>1, <1>2, <1>3, <1>4

LEMMA QueuedTail ==
    ASSUME NEW R \in Seq(Nat), R # <<>>, NEW M \in Seq(Nat), Len(M) = Len(R) - 1,
           \A i \in 1 .. Len(M) : M[i] = R[i + 1],
           NEW x \in Nat, NEW z \in 0 .. Waypoints + 3, x <= z, Queued(R, x, z)
    PROVE  /\ R[1] = 0 \/ z = x => Queued(M, x, z)
           /\ R[1] = x + 1 /\ x < z => Queued(M, x + 1, z)
<1>1. Waypoints \in Nat /\ z \in Nat /\ Len(R) \in Nat \ {0} /\ 1 \in 1 .. Len(R) /\ Len(M) \in Nat
  BY RouteAssumption
<1>2. PICK p \in Nat : p = R[1]
  BY <1>1
<1>3. \A j \in 1 .. Len(R) : j # 1 /\ R[j] > 0 => p < R[j] \/ R[j] = Waypoints + 4
  BY <1>1, <1>2 DEF Queued
<1>4. \A i, j \in 1 .. Len(M) : i < j /\ M[j] > 0 => M[i] < M[j] \/ M[j] = Waypoints + 4
  <2>1. \A i \in 1 .. Len(M) : i + 1 \in 1 .. Len(R) /\ M[i] = R[i + 1]
    BY <1>1
  <2>2. ASSUME NEW i \in 1 .. Len(M), NEW j \in 1 .. Len(M), i < j, M[j] > 0
        PROVE  M[i] < M[j] \/ M[j] = Waypoints + 4
    <3>1. PICK a, b \in 1 .. Len(R) : a = i + 1 /\ b = j + 1
      BY <2>1
    <3>2. M[i] = R[a] /\ M[j] = R[b]
      BY <2>1, <3>1
    <3>3. a < b
      BY <2>2, <3>1
    <3> QED
      BY <2>2, <3>2, <3>3 DEF Queued
  <2> QED
    BY <2>2
<1>5. ASSUME NEW n \in 0 .. Waypoints + 3,
             (n = x /\ (p = 0 \/ z = x)) \/ (n = x + 1 /\ p = x + 1 /\ x < z)
      PROVE  Queued(M, n, z)
  <2>1. ASSUME NEW i \in 1 .. Len(M), M[i] > 0
        PROVE  n < M[i] /\ (M[i] <= z \/ (M[i] = Waypoints + 4 /\ z = Waypoints + 3))
    <3>1. PICK j \in 1 .. Len(R) : j = i + 1 /\ j # 1
      BY <1>1
    <3>2. R[j] = M[i] /\ R[j] \in Nat
      <4>1. M[i] = R[i + 1]
        OBVIOUS
      <4>2. R[j] \in Nat
        OBVIOUS
      <4> QED
        BY <3>1, <4>1, <4>2
    <3>3. x < M[i] /\ (M[i] <= z \/ (M[i] = Waypoints + 4 /\ z = Waypoints + 3))
      BY <2>1, <3>1, <3>2 DEF Queued
    <3>4. p < M[i] \/ M[i] = Waypoints + 4
      BY <1>3, <2>1, <3>1, <3>2
    <3>5. PICK m \in Nat : m = M[i]
      BY <3>2
    <3>6. n < m
      <4>1. x < m /\ (p < m \/ m = Waypoints + 4)
        BY <3>3, <3>4, <3>5
      <4>2. CASE n = x
        BY <4>1, <4>2
      <4>3. CASE n = p
        <5>1. n < Waypoints + 4
          BY <1>1
        <5> QED
          BY <4>1, <4>3, <5>1
      <4> QED
        BY <1>5, <4>2, <4>3
    <3> QED
      BY <3>3, <3>5, <3>6
  <2>2. ASSUME NEW t \in n + 1 .. z PROVE \E i \in 1 .. Len(M) : M[i] = t
    <3>1. t \in x + 1 .. z /\ t # p
      BY <1>1, <1>5
    <3>2. PICK i \in 1 .. Len(R) : R[i] = t
      BY <3>1 DEF Queued
    <3>3. i # 1
      BY <1>2, <3>1, <3>2
    <3>4. PICK j \in 1 .. Len(M) : i = j + 1
      BY <1>1, <3>3
    <3> QED
      BY <3>2, <3>4
  <2> QED
    BY <1>4, <2>1, <2>2 DEF Queued
<1>6. x \in 0 .. Waypoints + 3 /\ (x < z => x + 1 \in 0 .. Waypoints + 3)
  BY <1>1
<1>7. R[1] = 0 \/ z = x => Queued(M, x, z)
  BY <1>2, <1>5, <1>6
<1>8. R[1] = x + 1 /\ x < z => Queued(M, x + 1, z)
  BY <1>2, <1>5, <1>6
<1> QED
  BY <1>7, <1>8

\* A blank leaves the queue from behind the first k.
LEMMA QueuedSkip ==
    ASSUME NEW R \in Seq(Nat), NEW k \in 0 .. Len(R) - 1, R[k + 1] = 0,
           NEW M \in Seq(Nat), Len(M) = Len(R) - 1,
           \A i \in 1 .. Len(M) : M[i] = R[IF i <= k THEN i ELSE i + 1],
           NEW x \in Nat, NEW z \in Nat, Queued(R, x, z)
    PROVE  Queued(M, x, z)
<1>1. Waypoints \in Nat /\ Len(R) \in Nat /\ Len(M) \in Nat
  BY RouteAssumption
<1>2. \A i \in 1 .. Len(M) :
         (IF i <= k THEN i ELSE i + 1) \in 1 .. Len(R) /\ M[i] = R[IF i <= k THEN i ELSE i + 1]
  <2>1. ASSUME NEW i \in 1 .. Len(M) PROVE (IF i <= k THEN i ELSE i + 1) \in 1 .. Len(R)
    <3>1. PICK p, q \in Nat : p = Len(R) /\ q = Len(M) /\ q = p - 1 /\ k \in 0 .. p - 1 /\ i \in 1 .. q
      BY <1>1
    <3> QED
      BY <3>1
  <2> QED
    BY <2>1
<1>3. \A i, j \in 1 .. Len(M) :
         i < j => (IF i <= k THEN i ELSE i + 1) < (IF j <= k THEN j ELSE j + 1)
  <2>1. \A i, j, l \in Int : i < j => (IF i <= l THEN i ELSE i + 1) < (IF j <= l THEN j ELSE j + 1)
    OBVIOUS
  <2>2. k \in Int /\ \A i \in 1 .. Len(M) : i \in Int
    OBVIOUS
  <2> QED
    BY <2>1, <2>2, Zenon
<1>4. \A i \in 1 .. Len(M) : M[i] > 0 =>
          x < M[i] /\ (M[i] <= z \/ (M[i] = Waypoints + 4 /\ z = Waypoints + 3))
  BY <1>2 DEF Queued
<1>5. \A i, j \in 1 .. Len(M) : i < j /\ M[j] > 0 => M[i] < M[j] \/ M[j] = Waypoints + 4
  BY <1>2, <1>3 DEF Queued
<1>6. ASSUME NEW t \in x + 1 .. z PROVE \E i \in 1 .. Len(M) : M[i] = t
  <2>1. PICK i \in 1 .. Len(R) : R[i] = t
    BY DEF Queued
  <2>2. i # k + 1
    <3>1. t # 0
      BY <1>1
    <3> QED
      BY <2>1, <3>1
  <2>3. PICK j \in 1 .. Len(M) : i = IF j <= k THEN j ELSE j + 1
    <3>1. CASE i <= k
      <4>1. i \in 1 .. Len(M)
        BY <1>1, <3>1
      <4> QED
        BY <3>1, <4>1
    <3>2. CASE i > k + 1
      <4>1. i - 1 \in 1 .. Len(M) /\ ~(i - 1 <= k) /\ i = (i - 1) + 1
        BY <1>1, <3>2
      <4> QED
        BY <4>1
    <3> QED
      BY <2>2, <3>1, <3>2
  <2> QED
    BY <1>2, <2>1, <2>3
<1> QED
  BY <1>4, <1>5, <1>6 DEF Queued

\* What is queued is of other vehicles, or the next of the announcement, or a
\* position of the running simulation behind all of it.
LEMMA QueuedMore ==
    ASSUME NEW R \in Seq(Nat), NEW M \in Seq(Nat), Len(M) >= Len(R), \A i \in 1 .. Len(R) : M[i] = R[i],
           NEW x \in Nat, NEW z \in 0 .. Waypoints + 3, x <= z, Queued(R, x, z)
    PROVE  /\ (\A i \in Len(R) + 1 .. Len(M) : M[i] = 0 \/ (M[i] = Waypoints + 4 /\ z = Waypoints + 3))
                 => Queued(M, x, z)
           /\ Len(M) = Len(R) + 1 /\ M[Len(M)] = z + 1 /\ z < Waypoints + 3 => Queued(M, x, z + 1)
<1>1. Waypoints \in Nat /\ z \in Nat /\ Len(R) \in Nat /\ Len(M) \in Nat
  BY RouteAssumption
<1>2. ASSUME NEW n \in z .. Waypoints + 3,
             \A i \in Len(R) + 1 .. Len(M) :
                 M[i] = 0 \/ (M[i] = Waypoints + 4 /\ n = Waypoints + 3) \/ (M[i] = n /\ n = z + 1 /\ i = Len(M)),
             n = z \/ (n = z + 1 /\ Len(M) = Len(R) + 1 /\ M[Len(M)] = n)
      PROVE  Queued(M, x, n)
  <2>1. ASSUME NEW i \in 1 .. Len(M), M[i] > 0
        PROVE  x < M[i] /\ (M[i] <= n \/ (M[i] = Waypoints + 4 /\ n = Waypoints + 3))
    <3>1. CASE i <= Len(R)
      <4>1. R[i] > 0 /\ i \in 1 .. Len(R) /\ M[i] = R[i] /\ R[i] \in Nat
        BY <1>1, <2>1, <3>1
      <4>2. x < R[i] /\ (R[i] <= z \/ (R[i] = Waypoints + 4 /\ z = Waypoints + 3))
        BY <4>1 DEF Queued
      <4> QED
        BY <1>1, <1>2, <4>1, <4>2
    <3>2. CASE i > Len(R)
      <4>1. i \in Len(R) + 1 .. Len(M)
        BY <1>1, <3>2
      <4> QED
        BY <1>1, <1>2, <2>1, <4>1
    <3> QED
      BY <1>1, <3>1, <3>2
  <2>2. ASSUME NEW i \in 1 .. Len(M), NEW j \in 1 .. Len(M), i < j, M[j] > 0
        PROVE  M[i] < M[j] \/ M[j] = Waypoints + 4
    <3>1. CASE j <= Len(R)
      <4>1. i \in 1 .. Len(R) /\ j \in 1 .. Len(R) /\ M[i] = R[i] /\ M[j] = R[j]
        BY <1>1, <2>2, <3>1
      <4> QED
        BY <2>2, <4>1 DEF Queued
    <3>2. CASE j > Len(R) /\ M[j] # Waypoints + 4
      <4>1. j = Len(M) /\ M[j] = n /\ n = z + 1 /\ Len(M) = Len(R) + 1
        <5>1. j \in Len(R) + 1 .. Len(M)
          BY <1>1, <3>2
        <5>2. M[j] = n /\ n = z + 1 /\ j = Len(M)
          BY <1>2, <2>2, <3>2, <5>1
        <5> QED
          BY <1>1, <1>2, <5>2
      <4>2. i \in 1 .. Len(R) /\ M[i] = R[i] /\ R[i] \in Nat
        BY <1>1, <2>2, <4>1
      <4>3. R[i] > 0 => R[i] <= z \/ z = Waypoints + 3
        BY <4>2 DEF Queued
      <4> QED
        BY <1>1, <1>2, <4>1, <4>2, <4>3
    <3> QED
      BY <1>1, <3>1, <3>2
  <2>3. ASSUME NEW t \in x + 1 .. n PROVE \E i \in 1 .. Len(M) : M[i] = t
    <3>1. CASE t \in x + 1 .. z
      <4>1. PICK i \in 1 .. Len(R) : R[i] = t
        BY <3>1 DEF Queued
      <4> QED
        BY <1>1, <4>1
    <3>2. CASE t = n /\ n = z + 1
      BY <1>1, <1>2, <3>2
    <3> QED
      BY <1>1, <1>2, <3>1, <3>2
  <2> QED
    BY <2>1, <2>2, <2>3 DEF Queued
<1>3. ASSUME \A i \in Len(R) + 1 .. Len(M) : M[i] = 0 \/ (M[i] = Waypoints + 4 /\ z = Waypoints + 3)
      PROVE  Queued(M, x, z)
  BY <1>1, <1>2, <1>3
<1>4. ASSUME Len(M) = Len(R) + 1, M[Len(M)] = z + 1, z < Waypoints + 3
      PROVE  Queued(M, x, z + 1)
  <2>1. z + 1 \in z .. Waypoints + 3 /\ \A i \in Len(R) + 1 .. Len(M) : i = Len(M)
    BY <1>1, <1>4
  <2> QED
    BY <1>1, <1>2, <1>4, <2>1
<1> QED
  BY <1>3, <1>4
-----------------------------------------------------------------------------
(***************************************************************************)
(* The queue of a daemon, place by place.                                  *)
(***************************************************************************)
\* One sequence behind another.
LEMMA Concatenated ==
    ASSUME NEW S, NEW a \in Seq(S), NEW b \in Seq(S)
    PROVE  /\ a \o b \in Seq(S) /\ Len(a \o b) = Len(a) + Len(b)
           /\ \A i \in 1 .. Len(a) : (a \o b)[i] = a[i]
           /\ \A i \in 1 .. Len(b) : (a \o b)[Len(a) + i] = b[i]
OBVIOUS

\* l is the queue of d, place by place.
Laid(l, w, b, p, d) ==
    /\ l \in Seq(Lined) /\ Len(l) = Len(w) + Len(b) + Len(p)
    /\ Len(w) \in Nat /\ Len(b) \in Nat /\ Len(p) \in Nat
    /\ \A i \in 1 .. Len(w) : l[i] = w[i]
    /\ \A i \in 1 .. Len(b) : l[Len(w) + i] = b[i]
    /\ \A i \in 1 .. Len(p) : l[Len(w) + Len(b) + i] = IF p[i].session = d THEN p[i].message ELSE Blank

LEMMA LineFacts ==
    ASSUME NEW w \in Seq(Message), NEW b \in Seq(Message), NEW p \in Seq(Posted), NEW d \in Daemon
    PROVE  Laid(LineOf(w, b, p, d), w, b, p, d)
<1>1. /\ w \in Seq(Lined) /\ b \in Seq(Lined) /\ \A i \in 1 .. Len(p) : p[i].message \in Lined
      /\ Blank \in Lined
  <2>1. \A i \in 1 .. Len(p) : p[i] \in Posted
    OBVIOUS
  <2>2. \A h \in Posted : h.message \in Message
    BY DEF Posted
  <2>3. /\ Len(w) \in Nat /\ w = [i \in 1 .. Len(w) |-> w[i]] /\ \A i \in 1 .. Len(w) : w[i] \in Message
        /\ Len(b) \in Nat /\ b = [i \in 1 .. Len(b) |-> b[i]] /\ \A i \in 1 .. Len(b) : b[i] \in Message
    OBVIOUS
  <2> QED
    BY <2>1, <2>2, <2>3, LinedFacts
<1>2. PICK c : c = w \o b
  OBVIOUS
<1>3. /\ c \in Seq(Lined) /\ Len(c) = Len(w) + Len(b)
      /\ \A i \in 1 .. Len(w) : c[i] = w[i]
      /\ \A i \in 1 .. Len(b) : c[Len(w) + i] = b[i]
  BY <1>1, <1>2, Concatenated
<1>4. PICK o : o = PostedBy(p, d)
  OBVIOUS
<1>5. /\ o \in Seq(Lined) /\ Len(o) = Len(p)
      /\ \A i \in 1 .. Len(p) : o[i] = IF p[i].session = d THEN p[i].message ELSE Blank
  BY <1>1, <1>4 DEF PostedBy
<1>6. PICK l : l = c \o o
  OBVIOUS
<1>7. /\ l \in Seq(Lined) /\ Len(l) = Len(c) + Len(o)
      /\ \A i \in 1 .. Len(c) : l[i] = c[i]
      /\ \A i \in 1 .. Len(o) : l[Len(c) + i] = o[i]
  <2>1. c \in Seq(Lined) /\ o \in Seq(Lined)
    BY <1>3, <1>5
  <2> QED
    BY <1>6, <2>1, Concatenated
<1>8. Len(w) \in Nat /\ Len(b) \in Nat /\ Len(p) \in Nat
  OBVIOUS
<1>9. /\ \A i \in 1 .. Len(w) : l[i] = w[i]
      /\ \A i \in 1 .. Len(b) : l[Len(w) + i] = b[i]
      /\ \A i \in 1 .. Len(p) : l[Len(w) + Len(b) + i] = IF p[i].session = d THEN p[i].message ELSE Blank
  <2>1. \A i \in 1 .. Len(w) : i \in 1 .. Len(c)
    BY <1>3, <1>8
  <2>2. \A i \in 1 .. Len(b) : Len(w) + i \in 1 .. Len(c)
    BY <1>3, <1>8
  <2> QED
    BY <1>3, <1>5, <1>7, <2>1, <2>2
<1>10. LineOf(w, b, p, d) = l
  BY <1>2, <1>4, <1>6 DEF LineOf
<1> QED
  BY <1>3, <1>5, <1>7, <1>8, <1>9, <1>10 DEF Laid

\* Every place of a queue is one of the three.
LEMMA LineIndex ==
    ASSUME NEW l, NEW w, NEW b, NEW p, NEW d, Laid(l, w, b, p, d), NEW i \in 1 .. Len(l)
    PROVE  \/ i \in 1 .. Len(w)
           \/ \E j \in 1 .. Len(b) : i = Len(w) + j
           \/ \E j \in 1 .. Len(p) : i = Len(w) + Len(b) + j
<1>1. PICK x, y, z \in Nat : x = Len(w) /\ y = Len(b) /\ z = Len(p)
  BY DEF Laid
<1>2. i \in 1 .. x + y + z
  BY <1>1 DEF Laid
<1>3. CASE i <= x
  BY <1>1, <1>2, <1>3
<1>4. CASE i > x /\ i <= x + y
  <2>1. i - x \in 1 .. y /\ i = x + (i - x)
    BY <1>2, <1>4
  <2> QED
    BY <1>1, <2>1
<1>5. CASE i > x + y
  <2>1. i - (x + y) \in 1 .. z /\ i = x + y + (i - (x + y))
    BY <1>2, <1>5
  <2> QED
    BY <1>1, <2>1
<1> QED
  BY <1>2, <1>3, <1>4, <1>5

\* The first message is read.
LEMMA LineReceived ==
    ASSUME NEW w \in Seq(Message), NEW b \in Seq(Message), NEW p \in Seq(Posted), NEW d \in Daemon, w # <<>>
    PROVE  /\ Tail(w) \in Seq(Message) /\ Head(w) \in Message /\ LineOf(w, b, p, d)[1] = Head(w)
           /\ LineOf(w, b, p, d) # <<>>
           /\ Len(LineOf(Tail(w), b, p, d)) = Len(LineOf(w, b, p, d)) - 1
           /\ \A i \in 1 .. Len(LineOf(Tail(w), b, p, d)) :
                 LineOf(Tail(w), b, p, d)[i] = LineOf(w, b, p, d)[i + 1]
<1>1. PICK t : t = Tail(w)
  OBVIOUS
<1>2. /\ t \in Seq(Message) /\ Len(w) \in Nat \ {0} /\ Len(t) = Len(w) - 1
      /\ \A i \in 1 .. Len(t) : t[i] = w[i + 1]
      /\ Head(w) = w[1] /\ Head(w) \in Message
  BY <1>1
<1>3. PICK l : l = LineOf(w, b, p, d)
  OBVIOUS
<1>4. PICK m : m = LineOf(t, b, p, d)
  OBVIOUS
<1>5. Laid(l, w, b, p, d)
  BY <1>3, LineFacts
<1>6. Laid(m, t, b, p, d)
  BY <1>2, <1>4, LineFacts
<1>7. ASSUME NEW i \in 1 .. Len(m) PROVE m[i] = l[i + 1]
  <2>1. CASE i \in 1 .. Len(t)
    <3>1. i + 1 \in 1 .. Len(w)
      BY <1>2, <2>1
    <3> QED
      BY <2>1, <3>1, <1>2, <1>5, <1>6 DEF Laid
  <2>2. ASSUME NEW j \in 1 .. Len(b), i = Len(t) + j PROVE m[i] = l[i + 1]
    <3>1. i + 1 = Len(w) + j
      BY <1>2, <1>5, <1>6, <2>2 DEF Laid
    <3> QED
      BY <2>2, <3>1, <1>5, <1>6 DEF Laid
  <2>3. ASSUME NEW j \in 1 .. Len(p), i = Len(t) + Len(b) + j PROVE m[i] = l[i + 1]
    <3>1. i + 1 = Len(w) + Len(b) + j
      BY <1>2, <1>5, <1>6, <2>3 DEF Laid
    <3> QED
      BY <2>3, <3>1, <1>5, <1>6 DEF Laid
  <2>4. \A y \in 1 .. Len(m) :
           \/ y \in 1 .. Len(t)
           \/ \E j \in 1 .. Len(b) : y = Len(t) + j
           \/ \E j \in 1 .. Len(p) : y = Len(t) + Len(b) + j
    <3> HIDE <1>7
    <3>1. Laid(m, t, b, p, d)
      BY <1>6
    <3>2. \A e : Laid(m, t, b, p, e) => \A y \in 1 .. Len(m) :
           \/ y \in 1 .. Len(t)
           \/ \E j \in 1 .. Len(b) : y = Len(t) + j
           \/ \E j \in 1 .. Len(p) : y = Len(t) + Len(b) + j
      BY LineIndex
    <3> QED
      BY <3>1, <3>2
  <2>5. \/ i \in 1 .. Len(t)
        \/ \E j \in 1 .. Len(b) : i = Len(t) + j
        \/ \E j \in 1 .. Len(p) : i = Len(t) + Len(b) + j
    BY <2>4
  <2> QED
    BY <2>1, <2>2, <2>3, <2>5
<1>8. Len(l) > 0 /\ Len(m) = Len(l) - 1 /\ l[1] = w[1]
  BY <1>2, <1>5, <1>6 DEF Laid
<1>9. l # <<>>
  BY <1>8
<1> QED
  BY <1>1, <1>2, <1>3, <1>4, <1>7, <1>8, <1>9

\* A message goes from the buffers to the wire: it keeps its place.
LEMMA LineWritten ==
    ASSUME NEW w \in Seq(Message), NEW b \in Seq(Message), NEW p \in Seq(Posted), NEW d \in Daemon, b # <<>>
    PROVE  /\ Tail(b) \in Seq(Message) /\ Append(w, Head(b)) \in Seq(Message)
           /\ LineOf(Append(w, Head(b)), Tail(b), p, d) = LineOf(w, b, p, d)
<1>1. PICK t : t = Tail(b)
  OBVIOUS
<1>2. /\ t \in Seq(Message) /\ Len(b) \in Nat \ {0} /\ Len(t) = Len(b) - 1
      /\ \A i \in 1 .. Len(t) : t[i] = b[i + 1]
      /\ Head(b) = b[1] /\ Head(b) \in Message
  BY <1>1
<1>3. PICK a : a = Append(w, Head(b))
  OBVIOUS
<1>4. /\ a \in Seq(Message) /\ Len(w) \in Nat /\ Len(a) = Len(w) + 1
      /\ \A i \in 1 .. Len(w) : a[i] = w[i]
      /\ a[Len(w) + 1] = b[1]
  BY <1>2, <1>3
<1>5. PICK l : l = LineOf(w, b, p, d)
  OBVIOUS
<1>6. PICK k : k = LineOf(a, t, p, d)
  OBVIOUS
<1>7. Laid(l, w, b, p, d)
  BY <1>5, LineFacts
<1>8. Laid(k, a, t, p, d)
  BY <1>2, <1>4, <1>6, LineFacts
<1>9. Len(k) = Len(l) /\ Len(l) = Len(w) + Len(b) + Len(p)
  BY <1>2, <1>4, <1>7, <1>8 DEF Laid
<1>10. ASSUME NEW i \in 1 .. Len(l) PROVE k[i] = l[i]
  <2>1. CASE i \in 1 .. Len(w)
    <3>1. i \in 1 .. Len(a)
      BY <1>4, <2>1
    <3> QED
      BY <2>1, <3>1, <1>4, <1>7, <1>8 DEF Laid
  <2>2. ASSUME NEW j \in 1 .. Len(b), i = Len(w) + j PROVE k[i] = l[i]
    <3>1. CASE j = 1
      <4>1. i \in 1 .. Len(a) /\ i = Len(w) + 1
        BY <1>4, <2>2, <3>1
      <4> QED
        BY <2>2, <3>1, <4>1, <1>4, <1>7, <1>8 DEF Laid
    <3>2. CASE j > 1
      <4>1. PICK h \in 1 .. Len(t) : j = h + 1
        BY <1>2, <3>2
      <4>2. i = Len(a) + h
        BY <1>2, <1>4, <2>2, <4>1
      <4>3. k[i] = t[h]
        BY <4>1, <4>2, <1>8 DEF Laid
      <4>4. l[i] = b[j]
        BY <2>2, <1>7 DEF Laid
      <4> QED
        BY <4>1, <4>3, <4>4, <1>2
    <3> QED
      BY <3>1, <3>2
  <2>3. ASSUME NEW j \in 1 .. Len(p), i = Len(w) + Len(b) + j PROVE k[i] = l[i]
    <3>1. i = Len(a) + Len(t) + j
      BY <1>2, <1>4, <2>3, <1>7 DEF Laid
    <3> QED
      BY <2>3, <3>1, <1>7, <1>8 DEF Laid
  <2>5. \/ i \in 1 .. Len(w)
        \/ \E j \in 1 .. Len(b) : i = Len(w) + j
        \/ \E j \in 1 .. Len(p) : i = Len(w) + Len(b) + j
    BY <1>7, LineIndex
  <2> QED
    BY <2>1, <2>2, <2>3, <2>5
<1>11. k = l
  <2>1. k \in Seq(Lined) /\ l \in Seq(Lined)
    BY <1>7, <1>8 DEF Laid
  <2> QED
    BY <2>1, <1>9, <1>10
<1> QED
  BY <1>1, <1>2, <1>3, <1>4, <1>5, <1>6, <1>11

\* The handler of d's session runs: its message keeps its place.
LEMMA LineEmplaced ==
    ASSUME NEW w \in Seq(Message), NEW b \in Seq(Message), NEW p \in Seq(Posted), NEW d \in Daemon, p # <<>>,
           Head(p).session = d
    PROVE  LineOf(w, Append(b, Head(p).message), Tail(p), d) = LineOf(w, b, p, d)
<1>1. PICK t : t = Tail(p)
  OBVIOUS
<1>2. /\ t \in Seq(Posted) /\ Len(p) \in Nat \ {0} /\ Len(t) = Len(p) - 1
      /\ \A i \in 1 .. Len(t) : t[i] = p[i + 1]
      /\ Head(p) = p[1] /\ p[1] \in Posted
  BY <1>1
<1>3. PICK m \in Message : m = p[1].message
  BY <1>2 DEF Posted
<1>4. PICK a : a = Append(b, m)
  OBVIOUS
<1>5. /\ a \in Seq(Message) /\ Len(b) \in Nat /\ Len(a) = Len(b) + 1
      /\ \A i \in 1 .. Len(b) : a[i] = b[i]
      /\ a[Len(b) + 1] = m
  BY <1>4
<1>6. PICK l : l = LineOf(w, b, p, d)
  OBVIOUS
<1>7. PICK k : k = LineOf(w, a, t, d)
  OBVIOUS
<1>8. Laid(l, w, b, p, d)
  BY <1>6, LineFacts
<1>9. Laid(k, w, a, t, d)
  BY <1>2, <1>5, <1>7, LineFacts
<1>10. Len(k) = Len(l) /\ Len(l) = Len(w) + Len(b) + Len(p)
  BY <1>2, <1>5, <1>8, <1>9 DEF Laid
<1>11. ASSUME NEW i \in 1 .. Len(l) PROVE k[i] = l[i]
  <2>1. CASE i \in 1 .. Len(w)
    BY <2>1, <1>8, <1>9 DEF Laid
  <2>2. ASSUME NEW j \in 1 .. Len(b), i = Len(w) + j PROVE k[i] = l[i]
    <3>1. j \in 1 .. Len(a)
      BY <1>5
    <3> QED
      BY <2>2, <3>1, <1>5, <1>8, <1>9 DEF Laid
  <2>3. ASSUME NEW j \in 1 .. Len(p), i = Len(w) + Len(b) + j PROVE k[i] = l[i]
    <3>1. CASE j = 1
      <4>1. Len(b) + 1 \in 1 .. Len(a) /\ i = Len(w) + (Len(b) + 1)
        BY <1>5, <2>3, <3>1, <1>8 DEF Laid
      <4>2. l[i] = m
        BY <2>3, <3>1, <1>2, <1>3, <1>8 DEF Laid
      <4>3. k[i] = a[Len(b) + 1]
        BY <4>1, <1>9 DEF Laid
      <4> QED
        BY <4>2, <4>3, <1>5
    <3>2. CASE j > 1
      <4>1. PICK h \in 1 .. Len(t) : j = h + 1
        BY <1>2, <3>2
      <4>2. i = Len(w) + Len(a) + h
        BY <1>2, <1>5, <2>3, <4>1, <1>8 DEF Laid
      <4>3. k[i] = IF t[h].session = d THEN t[h].message ELSE Blank
        BY <4>1, <4>2, <1>9 DEF Laid
      <4>4. l[i] = IF p[j].session = d THEN p[j].message ELSE Blank
        BY <2>3, <1>8 DEF Laid
      <4> QED
        BY <4>1, <4>3, <4>4, <1>2
    <3> QED
      BY <3>1, <3>2
  <2>5. \/ i \in 1 .. Len(w)
        \/ \E j \in 1 .. Len(b) : i = Len(w) + j
        \/ \E j \in 1 .. Len(p) : i = Len(w) + Len(b) + j
    BY <1>8, LineIndex
  <2> QED
    BY <2>1, <2>2, <2>3, <2>5
<1>12. k = l
  <2>1. k \in Seq(Lined) /\ l \in Seq(Lined)
    BY <1>8, <1>9 DEF Laid
  <2> QED
    BY <2>1, <1>10, <1>11
<1> QED
  BY <1>1, <1>2, <1>3, <1>4, <1>6, <1>7, <1>12

\* A handler of another runs: a blank is gone.
Shorter(l, m, k) ==
    /\ m \in Seq(Lined) /\ k \in 0 .. Len(l) - 1 /\ l[k + 1] = Blank /\ Len(m) = Len(l) - 1
    /\ \A i \in 1 .. Len(m) : m[i] = l[IF i <= k THEN i ELSE i + 1]

LEMMA LineSkipped ==
    ASSUME NEW w \in Seq(Message), NEW b \in Seq(Message), NEW p \in Seq(Posted), NEW d \in Daemon, p # <<>>,
           Head(p).session # d
    PROVE  Shorter(LineOf(w, b, p, d), LineOf(w, b, Tail(p), d), Len(w) + Len(b))
<1>1. PICK t : t = Tail(p)
  OBVIOUS
<1>2. /\ t \in Seq(Posted) /\ Len(p) \in Nat \ {0} /\ Len(t) = Len(p) - 1
      /\ \A i \in 1 .. Len(t) : t[i] = p[i + 1]
      /\ Head(p) = p[1] /\ p[1] \in Posted
  BY <1>1
<1>3. PICK l : l = LineOf(w, b, p, d)
  OBVIOUS
<1>4. PICK m : m = LineOf(w, b, t, d)
  OBVIOUS
<1>5. Laid(l, w, b, p, d)
  BY <1>3, LineFacts
<1>6. Laid(m, w, b, t, d)
  BY <1>2, <1>4, LineFacts
<1>7. PICK k \in Nat : k = Len(w) + Len(b)
  BY <1>5 DEF Laid
<1>8. k \in 0 .. Len(l) - 1 /\ Len(m) = Len(l) - 1
  BY <1>2, <1>5, <1>6, <1>7 DEF Laid
<1>9. l[k + 1] = Blank
  <2>1. 1 \in 1 .. Len(p) /\ p[1].session # d
    BY <1>2
  <2> QED
    BY <2>1, <1>5, <1>7 DEF Laid
<1>10. ASSUME NEW i \in 1 .. Len(m) PROVE m[i] = l[IF i <= k THEN i ELSE i + 1]
  <2>1. CASE i \in 1 .. Len(w)
    <3>1. i <= k
      BY <2>1, <1>5, <1>7 DEF Laid
    <3> QED
      BY <2>1, <3>1, <1>5, <1>6 DEF Laid
  <2>2. ASSUME NEW j \in 1 .. Len(b), i = Len(w) + j PROVE m[i] = l[IF i <= k THEN i ELSE i + 1]
    <3>1. i <= k
      BY <2>2, <1>5, <1>7 DEF Laid
    <3> QED
      BY <2>2, <3>1, <1>5, <1>6 DEF Laid
  <2>3. ASSUME NEW j \in 1 .. Len(t), i = Len(w) + Len(b) + j PROVE m[i] = l[IF i <= k THEN i ELSE i + 1]
    <3>1. PICK h \in 1 .. Len(p) : h = j + 1
      BY <1>2
    <3>2. ~(i <= k) /\ i + 1 = Len(w) + Len(b) + h
      BY <2>3, <3>1, <1>5, <1>7 DEF Laid
    <3>3. m[i] = IF t[j].session = d THEN t[j].message ELSE Blank
      BY <2>3, <1>6 DEF Laid
    <3>4. l[i + 1] = IF p[h].session = d THEN p[h].message ELSE Blank
      BY <3>1, <3>2, <1>5 DEF Laid
    <3> QED
      BY <3>1, <3>2, <3>3, <3>4, <1>2
  <2>5. \/ i \in 1 .. Len(w)
        \/ \E j \in 1 .. Len(b) : i = Len(w) + j
        \/ \E j \in 1 .. Len(t) : i = Len(w) + Len(b) + j
    BY <1>6, LineIndex
  <2> QED
    BY <2>1, <2>2, <2>3, <2>5
<1>11. Shorter(l, m, k)
  BY <1>6, <1>8, <1>9, <1>10 DEF Laid, Shorter
<1> QED
  BY <1>1, <1>3, <1>4, <1>7, <1>11

\* More is posted.
Longer(l, m, x, d) ==
    /\ m \in Seq(Lined) /\ Len(m) = Len(l) + Len(x)
    /\ \A i \in 1 .. Len(l) : m[i] = l[i]
    /\ \A i \in 1 .. Len(x) : m[Len(l) + i] = IF x[i].session = d THEN x[i].message ELSE Blank

LEMMA LineMore ==
    ASSUME NEW w \in Seq(Message), NEW b \in Seq(Message), NEW p \in Seq(Posted), NEW d \in Daemon,
           NEW x \in Seq(Posted)
    PROVE  p \o x \in Seq(Posted) /\ Longer(LineOf(w, b, p, d), LineOf(w, b, p \o x, d), x, d)
<1>1. PICK t : t = p \o x
  OBVIOUS
<1>2. /\ t \in Seq(Posted) /\ Len(t) = Len(p) + Len(x)
      /\ \A i \in 1 .. Len(p) : t[i] = p[i]
      /\ \A i \in 1 .. Len(x) : t[Len(p) + i] = x[i]
  BY <1>1, Concatenated
<1>3. PICK l : l = LineOf(w, b, p, d)
  OBVIOUS
<1>4. PICK m : m = LineOf(w, b, t, d)
  OBVIOUS
<1>5. Laid(l, w, b, p, d)
  BY <1>3, LineFacts
<1>6. Laid(m, w, b, t, d)
  BY <1>2, <1>4, LineFacts
<1>7. Len(x) \in Nat /\ Len(m) = Len(l) + Len(x)
  BY <1>2, <1>5, <1>6 DEF Laid
<1>8. ASSUME NEW i \in 1 .. Len(l) PROVE m[i] = l[i]
  <2>1. CASE i \in 1 .. Len(w)
    BY <2>1, <1>5, <1>6 DEF Laid
  <2>2. ASSUME NEW j \in 1 .. Len(b), i = Len(w) + j PROVE m[i] = l[i]
    BY <2>2, <1>5, <1>6 DEF Laid
  <2>3. ASSUME NEW j \in 1 .. Len(p), i = Len(w) + Len(b) + j PROVE m[i] = l[i]
    <3>1. j \in 1 .. Len(t) /\ t[j] = p[j]
      BY <1>2, <1>5, <1>7 DEF Laid
    <3> QED
      BY <2>3, <3>1, <1>5, <1>6 DEF Laid
  <2>5. \/ i \in 1 .. Len(w)
        \/ \E j \in 1 .. Len(b) : i = Len(w) + j
        \/ \E j \in 1 .. Len(p) : i = Len(w) + Len(b) + j
    BY <1>5, LineIndex
  <2> QED
    BY <2>1, <2>2, <2>3, <2>5
<1>9. ASSUME NEW i \in 1 .. Len(x)
      PROVE  m[Len(l) + i] = IF x[i].session = d THEN x[i].message ELSE Blank
  <2>1. PICK h : h = Len(p) + i
    OBVIOUS
  <2>3. h \in 1 .. Len(t) /\ t[h] = x[i]
    BY <2>1, <1>2, <1>5, <1>7 DEF Laid
  <2>2. Len(l) + i = Len(w) + Len(b) + h
    BY <2>1, <1>5, <1>7 DEF Laid
  <2> QED
    BY <2>2, <2>3, <1>6 DEF Laid
<1>10. Longer(l, m, x, d)
  BY <1>6, <1>7, <1>8, <1>9 DEF Laid, Longer
<1> QED
  BY <1>1, <1>2, <1>3, <1>4, <1>10

-----------------------------------------------------------------------------
(***************************************************************************)
(* The ranks of a queue.                                                   *)
(***************************************************************************)
LEMMA RanksFacts ==
    ASSUME NEW v \in 1 .. Vehicles, NEW q \in Seq(Lined)
    PROVE  /\ Ranks(v, q) \in Seq(Nat) /\ Len(Ranks(v, q)) = Len(q)
           /\ \A i \in 1 .. Len(q) : q[i] \in Lined /\ Ranks(v, q)[i] = Rank(v, q[i])
<1>1. \A i \in 1 .. Len(q) : q[i] \in Lined /\ Rank(v, q[i]) \in Nat
  BY RankFacts, RouteAssumption
<1>2. Len(q) \in Nat
  OBVIOUS
<1> QED
  BY <1>1, <1>2 DEF Ranks

LEMMA RankedSkip ==
    ASSUME NEW v \in 1 .. Vehicles, NEW l \in Seq(Lined), NEW m \in Seq(Lined),
           NEW k \in 0 .. Len(l) - 1, l[k + 1] = Blank, Len(m) = Len(l) - 1,
           \A i \in 1 .. Len(m) : m[i] = l[IF i <= k THEN i ELSE i + 1],
           NEW x \in Nat, NEW z \in Nat, Queued(Ranks(v, l), x, z)
    PROVE  Queued(Ranks(v, m), x, z)
<1>1. PICK R : R = Ranks(v, l)
  OBVIOUS
<1>2. PICK M : M = Ranks(v, m)
  OBVIOUS
<1>3. /\ R \in Seq(Nat) /\ Len(R) = Len(l)
      /\ \A i \in 1 .. Len(l) : l[i] \in Lined /\ R[i] = Rank(v, l[i])
  BY <1>1, RanksFacts
<1>4. M \in Seq(Nat) /\ Len(M) = Len(m) /\ \A i \in 1 .. Len(m) : M[i] = Rank(v, m[i])
  BY <1>2, RanksFacts
<1>5. R[k + 1] = 0 /\ k \in 0 .. Len(R) - 1
  <2>1. k + 1 \in 1 .. Len(l)
    OBVIOUS
  <2>2. Rank(v, Blank) = 0
    BY RankFacts, LinedFacts
  <2> QED
    BY <2>1, <2>2, <1>3
<1>6. \A i \in 1 .. Len(M) : M[i] = R[IF i <= k THEN i ELSE i + 1]
  <2>1. ASSUME NEW i \in 1 .. Len(m) PROVE M[i] = R[IF i <= k THEN i ELSE i + 1]
    <3>1. PICK j : j = IF i <= k THEN i ELSE i + 1
      OBVIOUS
    <3>2. j \in 1 .. Len(l)
      <4>1. PICK p, q \in Nat : p = Len(l) /\ q = Len(m) /\ q = p - 1 /\ k \in 0 .. p - 1 /\ i \in 1 .. q
        OBVIOUS
      <4> QED
        BY <3>1, <4>1
    <3>3. m[i] = l[j]
      BY <3>1
    <3> QED
      BY <3>1, <3>2, <3>3, <1>3, <1>4
  <2> QED
    BY <2>1, <1>4
<1>7. Queued(M, x, z)
  BY <1>1, <1>3, <1>4, <1>5, <1>6, QueuedSkip
<1> QED
  BY <1>2, <1>7

LEMMA RankedMore ==
    ASSUME NEW v \in 1 .. Vehicles, NEW l \in Seq(Lined), NEW m \in Seq(Lined), NEW n \in Nat,
           Len(m) = Len(l) + n, \A i \in 1 .. Len(l) : m[i] = l[i],
           NEW x \in Nat, NEW z \in 0 .. Waypoints + 3, x <= z, Queued(Ranks(v, l), x, z)
    PROVE  /\ (\A i \in 1 .. n : Rank(v, m[Len(l) + i]) = 0
                                 \/ (Rank(v, m[Len(l) + i]) = Waypoints + 4 /\ z = Waypoints + 3))
                 => Queued(Ranks(v, m), x, z)
           /\ n = 1 /\ Rank(v, m[Len(m)]) = z + 1 /\ z < Waypoints + 3 => Queued(Ranks(v, m), x, z + 1)
<1>1. PICK R : R = Ranks(v, l)
  OBVIOUS
<1>2. PICK M : M = Ranks(v, m)
  OBVIOUS
<1>3. R \in Seq(Nat) /\ Len(R) = Len(l) /\ \A i \in 1 .. Len(l) : R[i] = Rank(v, l[i])
  BY <1>1, RanksFacts
<1>4. M \in Seq(Nat) /\ Len(M) = Len(m) /\ \A i \in 1 .. Len(m) : M[i] = Rank(v, m[i])
  BY <1>2, RanksFacts
<1>5. Len(l) \in Nat /\ Len(M) >= Len(R) /\ \A i \in 1 .. Len(R) : M[i] = R[i]
  <2>1. \A i \in 1 .. Len(l) : i \in 1 .. Len(m)
    OBVIOUS
  <2> QED
    BY <2>1, <1>3, <1>4
<1>6. ASSUME \A i \in 1 .. n : Rank(v, m[Len(l) + i]) = 0
                               \/ (Rank(v, m[Len(l) + i]) = Waypoints + 4 /\ z = Waypoints + 3)
      PROVE  Queued(M, x, z)
  <2>1. ASSUME NEW i \in Len(R) + 1 .. Len(M)
        PROVE  M[i] = 0 \/ (M[i] = Waypoints + 4 /\ z = Waypoints + 3)
    <3>1. PICK j \in 1 .. n : i = Len(l) + j
      <4>1. i - Len(l) \in 1 .. n /\ i = Len(l) + (i - Len(l))
        BY <1>3, <1>4, <1>5
      <4> QED
        BY <4>1
    <3>2. M[i] = Rank(v, m[Len(l) + j])
      BY <3>1, <1>3, <1>4, <1>5
    <3> QED
      BY <3>2, <1>6
  <2> QED
    BY <2>1, <1>1, <1>3, <1>4, <1>5, QueuedMore
<1>7. n = 1 /\ Rank(v, m[Len(m)]) = z + 1 /\ z < Waypoints + 3 => Queued(M, x, z + 1)
  <2>1. SUFFICES ASSUME n = 1, Rank(v, m[Len(m)]) = z + 1, z < Waypoints + 3 PROVE Queued(M, x, z + 1)
    OBVIOUS
  <2>2. Len(M) = Len(R) + 1 /\ M[Len(M)] = z + 1
    BY <2>1, <1>3, <1>4, <1>5
  <2> QED
    BY <2>1, <2>2, <1>1, <1>3, <1>4, <1>5, QueuedMore
<1> QED
  BY <1>2, <1>6, <1>7

\* The message that leaves is the next of v's, or not of v's, or all of v's are
\* gone.
LEMMA RankedTail ==
    ASSUME NEW v \in 1 .. Vehicles, NEW l \in Seq(Lined), NEW m \in Seq(Lined), l # <<>>,
           Len(m) = Len(l) - 1, \A i \in 1 .. Len(m) : m[i] = l[i + 1],
           NEW x \in Nat, NEW z \in 0 .. Waypoints + 3, x <= z, Queued(Ranks(v, l), x, z)
    PROVE  \/ Rank(v, l[1]) = 0 /\ Queued(Ranks(v, m), x, z)
           \/ Rank(v, l[1]) = x + 1 /\ x < z /\ Queued(Ranks(v, m), x + 1, z)
           \/ Rank(v, l[1]) = Waypoints + 4 /\ x = Waypoints + 3 /\ z = Waypoints + 3
                /\ Queued(Ranks(v, m), x, z)
<1>1. PICK R : R = Ranks(v, l)
  OBVIOUS
<1>2. PICK M : M = Ranks(v, m)
  OBVIOUS
<1>3. R \in Seq(Nat) /\ Len(R) = Len(l) /\ \A i \in 1 .. Len(l) : R[i] = Rank(v, l[i])
  BY <1>1, RanksFacts
<1>4. M \in Seq(Nat) /\ Len(M) = Len(m) /\ \A i \in 1 .. Len(m) : M[i] = Rank(v, m[i])
  BY <1>2, RanksFacts
<1>5. Len(l) \in Nat \ {0} /\ 1 \in 1 .. Len(l) /\ R # <<>> /\ Len(M) = Len(R) - 1
  BY <1>3, <1>4
<1>6. \A i \in 1 .. Len(M) : M[i] = R[i + 1]
  <2>1. ASSUME NEW i \in 1 .. Len(m) PROVE M[i] = R[i + 1]
    <3>1. i + 1 \in 1 .. Len(l) /\ m[i] = l[i + 1]
      BY <1>5
    <3> QED
      BY <3>1, <1>3, <1>4
  <2> QED
    BY <2>1, <1>4
<1>7. /\ R[1] = 0 \/ R[1] = x + 1
      /\ R[1] = x + 1 => x < z \/ (x = Waypoints + 3 /\ z = Waypoints + 3)
  BY <1>1, <1>3, <1>5, QueuedHead
<1>8. /\ R[1] = 0 \/ z = x => Queued(M, x, z)
      /\ R[1] = x + 1 /\ x < z => Queued(M, x + 1, z)
  BY <1>1, <1>3, <1>4, <1>5, <1>6, QueuedTail
<1>9. R[1] = Rank(v, l[1])
  BY <1>3, <1>5
<1>10. CASE R[1] = 0
  BY <1>2, <1>8, <1>9, <1>10
<1>11. CASE R[1] = x + 1 /\ x < z
  BY <1>2, <1>8, <1>9, <1>11
<1>12. CASE R[1] = x + 1 /\ x = Waypoints + 3 /\ z = Waypoints + 3
  BY <1>2, <1>8, <1>9, <1>12, RouteAssumption
<1> QED
  BY <1>7, <1>10, <1>11, <1>12

-----------------------------------------------------------------------------
(***************************************************************************)
(* Announcements, and the vehicle that assembles one.                      *)
(***************************************************************************)
LEMMA AnnouncedRank ==
    ASSUME NEW v \in 1 .. Vehicles, NEW i \in 1 .. Waypoints + 3
    PROVE  /\ Rank(v, Announced(v)[i]) = i
           /\ \A u \in 1 .. Vehicles : u # v => Rank(u, Announced(v)[i]) = 0
<1>1. Waypoints \in Nat
  BY RouteAssumption
<1>2. CASE i = 1
  <2>1. Announced(v)[i] = Of(v, "position", 0)
    BY <1>2, AnnouncedAt
  <2> QED
    BY <2>1, <1>2 DEF Rank, Running, Of
<1>3. CASE i = 2
  <2>1. Announced(v)[i] = Of(v, "count", Waypoints)
    BY <1>3, AnnouncedAt
  <2> QED
    BY <2>1, <1>3 DEF Rank, Running, Of
<1>4. CASE i > 2 /\ i <= Waypoints + 2
  <2>1. Announced(v)[i] = Of(v, "item", i - 3) /\ i - 3 < Waypoints /\ (i - 3) + 3 = i
    BY <1>1, <1>4, AnnouncedAt
  <2> QED
    BY <2>1, <1>1 DEF Rank, Running, Of
<1>5. CASE i = Waypoints + 3
  <2>1. Announced(v)[i] = Of(v, "heartbeat", 0)
    BY <1>1, <1>5, AnnouncedAt
  <2> QED
    BY <2>1, <1>1, <1>5 DEF Rank, Running, Of
<1> QED
  BY <1>1, <1>2, <1>3, <1>4, <1>5

\* A vehicle after the first r messages of its announcement.
Items(r) == IF r <= 2 THEN 0 ELSE IF r <= Waypoints + 2 THEN r - 2 ELSE Waypoints

Progress(x, r) ==
    /\ x.system_status = IF r = Waypoints + 3 THEN "ACTIVE" ELSE "UNINIT"
    /\ x.mission.mission_size = IF r <= 1 THEN 0 ELSE Waypoints
    /\ x.mission.counter = Items(r) /\ Len(x.mission.coordinates) = Items(r)

LEMMA NewVehicleFacts == NewVehicle \in VehicleState /\ Progress(NewVehicle, 0)
<1>1. NewVehicle \in VehicleState
  BY MissionAssumption DEF NewVehicle, NewMission, VehicleState, Mission, Status, Grounded
<1> QED
  BY <1>1, RouteAssumption DEF NewVehicle, NewMission, Progress, Items

\* The next message of an announcement brings the vehicle further.
LEMMA TrackedFacts ==
    ASSUME NEW x \in VehicleState, NEW m \in Message, NEW r \in 0 .. Waypoints + 2,
           Progress(x, r), Rank(m.vehicle, m) = r + 1
    PROVE  Tracked(x, m) \in VehicleState /\ Progress(Tracked(x, m), r + 1)
<1>1. /\ Waypoints \in Nat /\ MaxMissionSize \in Nat /\ MaxSeq \in Nat /\ r \in Nat
      /\ Waypoints <= MaxMissionSize /\ Waypoints <= MaxSeq + 1
  BY RouteAssumption, MissionAssumption
<1>2. m.vehicle \in 1 .. Vehicles /\ m.number \in Nat /\ ~Running(m)
  BY <1>1 DEF Message, Rank
<1>3. x.mission \in Mission /\ x.system_status \in Status
  BY DEF VehicleState
<1>4. CASE m.kind = "position"
  <2>1. r = 0 /\ Tracked(x, m) = x
    BY <1>1, <1>2, <1>4 DEF Rank, Tracked
  <2> QED
    BY <2>1, <1>1 DEF Progress, Items
<1>5. CASE m.kind = "count"
  <2>1. r = 1 /\ m.number = Waypoints
    BY <1>1, <1>2, <1>5 DEF Rank
  <2>2. Tracked(x, m) = [x EXCEPT !.mission = HandleMsgMissionCount(x.mission, Waypoints)]
    BY <1>5, <2>1 DEF Tracked
  <2>3. PICK n : n = HandleMsgMissionCount(x.mission, Waypoints)
    OBVIOUS
  <2>4. n = [coordinates |-> <<>>, counter |-> 0, mission_size |-> Waypoints]
    BY <2>3 DEF HandleMsgMissionCount, NewMission
  <2>5. n \in Mission
    BY <2>4, <1>1 DEF Mission
  <2>6. PICK y : y = Tracked(x, m)
    OBVIOUS
  <2>7. y \in VehicleState /\ y.mission = n /\ y.system_status = x.system_status
    BY <2>2, <2>3, <2>5, <2>6 DEF VehicleState
  <2>8. y.mission.mission_size = Waypoints /\ y.mission.counter = 0 /\ Len(y.mission.coordinates) = 0
    BY <2>4, <2>7
  <2>9. x.system_status = "UNINIT"
    BY <1>1, <2>1 DEF Progress
  <2>10. Progress(y, 2)
    BY <1>1, <2>7, <2>8, <2>9 DEF Progress, Items
  <2> QED
    BY <1>1, <2>1, <2>6, <2>7, <2>10
<1>6. CASE m.kind = "item"
  <2>1. m.number < Waypoints /\ r = m.number + 2
    BY <1>1, <1>2, <1>6 DEF Rank
  <2>2. Tracked(x, m) = [x EXCEPT !.mission = HandleMsgMissionItem(x.mission, m.number, "16")]
    BY <1>6 DEF Tracked
  <2>3. /\ x.mission.counter = m.number /\ Len(x.mission.coordinates) = m.number
        /\ x.mission.mission_size = Waypoints /\ x.system_status = "UNINIT"
    BY <1>1, <1>2, <2>1 DEF Progress, Items
  <2>4. PICK c \in Seq(0 .. MaxSeq) : c = x.mission.coordinates
    BY <1>3 DEF Mission
  <2>5. PICK n : n = HandleMsgMissionItem(x.mission, m.number, "16")
    OBVIOUS
  <2>6. PICK e : e = Append(c, m.number)
    OBVIOUS
  <2>7. e \in Seq(0 .. MaxSeq) /\ Len(e) = m.number + 1
    <3>1. m.number \in 0 .. MaxSeq
      BY <1>1, <1>2, <2>1
    <3> QED
      BY <3>1, <2>3, <2>4, <2>6
  <2>8. n = [coordinates |-> e, counter |-> m.number + 1, mission_size |-> Waypoints]
    <3>1. n = [x.mission EXCEPT !.counter = m.number + 1, !.coordinates = e]
      BY <2>3, <2>4, <2>5, <2>6 DEF HandleMsgMissionItem
    <3> QED
      BY <3>1, <1>3, <2>3 DEF Mission
  <2>9. n \in Mission
    BY <2>1, <2>7, <2>8, <1>1, <1>2 DEF Mission
  <2>10. PICK y : y = Tracked(x, m)
    OBVIOUS
  <2>11. y \in VehicleState /\ y.mission = n /\ y.system_status = x.system_status
    BY <2>2, <2>5, <2>9, <2>10 DEF VehicleState
  <2>12. /\ y.mission.mission_size = Waypoints /\ y.mission.counter = m.number + 1
         /\ Len(y.mission.coordinates) = m.number + 1
    BY <2>7, <2>8, <2>11
  <2>13. Items(r + 1) = m.number + 1 /\ r + 1 # Waypoints + 3 /\ ~(r + 1 <= 1)
    BY <1>1, <1>2, <2>1 DEF Items
  <2> QED
    BY <2>3, <2>10, <2>11, <2>12, <2>13 DEF Progress
<1>7. CASE m.kind = "heartbeat"
  <2>1. r = Waypoints + 2
    BY <1>1, <1>2, <1>7 DEF Rank
  <2>2. PICK y : y = Tracked(x, m)
    OBVIOUS
  <2>3. y = [x EXCEPT !.system_status = "ACTIVE"]
    BY <1>7, <2>2 DEF Tracked
  <2>4. y \in VehicleState /\ y.mission = x.mission /\ y.system_status = "ACTIVE"
    BY <2>3 DEF VehicleState, Status, Flying
  <2>5. Items(r) = Items(r + 1) /\ r + 1 = Waypoints + 3 /\ ~(r <= 1) /\ ~(r + 1 <= 1)
    BY <1>1, <2>1 DEF Items
  <2> QED
    BY <2>2, <2>4, <2>5 DEF Progress
<1> QED
  BY <1>4, <1>5, <1>6, <1>7 DEF Message

-----------------------------------------------------------------------------
(***************************************************************************)
(* What a daemon knows, and what of it is on its way.                      *)
(***************************************************************************)
Announcing(d) == accept # Nobody /\ accept.session = d

\* How much of v's announcement was sent to d.
Made(d, v) ==
    IF IsSession(d) THEN Waypoints + 3
    ELSE IF ~Announcing(d) THEN 0
    ELSE IF v < accept.vehicle THEN Waypoints + 3
    ELSE IF v = accept.vehicle THEN accept.sent
    ELSE 0

\* d knows what v announced up to number r, and the rest of it is on its way.
Known(d, v, r) == Progress(daemons[d].vehicles[v], r) /\ Queued(Ranks(v, Line(d)), r, Made(d, v))

\* A daemon whose connection is up is somewhere between the backlog and the sessions.
Approaching(d) ==
    /\ Reachable(d) => d \in waiting \/ Announcing(d) \/ IsSession(d)
    /\ \A v \in 1 .. Vehicles : \E r \in 0 .. Made(d, v) : Known(d, v, r)

\* What AnnouncedBeforeFlown says of d.
AllAnnounced(x) ==
    \A v \in 1 .. Vehicles :
        x.vehicles[v].system_status = "ACTIVE" \/ x.positions # <<>>
            => /\ x.vehicles[v].system_status = "ACTIVE"
               /\ Len(x.vehicles[v].mission.coordinates) = Waypoints
               /\ x.vehicles[v].mission.mission_size = Waypoints

Aware(d) ==
    /\ daemons[d].vehicles \in [1 .. Vehicles -> VehicleState]
    /\ AllAnnounced(daemons[d])
    /\ connection[d] # "reset" => Approaching(d)

AInv == RInv /\ \A d \in Daemon : Aware(d)

LEMMA MadeFacts ==
    ASSUME Types, NEW d \in Daemon, NEW v \in 1 .. Vehicles
    PROVE  Made(d, v) \in 0 .. Waypoints + 3
BY RouteAssumption DEF Made, Types, Announcing

\* The queue of d, by its parts.
LEMMA LineTyped ==
    ASSUME Types, NEW d \in Daemon
    PROVE  /\ wire[d] \in Seq(Message) /\ buffers[d] \in Seq(Message) /\ posted \in Seq(Posted)
           /\ Line(d) \in Seq(Lined)
<1>1. wire[d] \in Seq(Message) /\ buffers[d] \in Seq(Message) /\ posted \in Seq(Posted)
  BY DEF Types
<1>2. Laid(Line(d), wire[d], buffers[d], posted, d)
  BY <1>1, LineFacts DEF Line
<1> QED
  BY <1>1, <1>2 DEF Laid

\* A daemon that no part of the step has to do with.
LEMMA AwareSame ==
    ASSUME NEW d \in Daemon, Aware(d),
           daemons'[d].vehicles = daemons[d].vehicles, daemons'[d].positions = daemons[d].positions,
           connection'[d] = connection[d] \/ (connection[d] = "none" /\ connection'[d] = "up"),
           Line(d)' = Line(d), \A v \in 1 .. Vehicles : Made(d, v)' = Made(d, v),
           Reachable(d)' => d \in waiting' \/ Announcing(d)' \/ IsSession(d)'
    PROVE  Aware(d)'
<1>1. \A v \in 1 .. Vehicles, r \in Nat : Known(d, v, r) => Known(d, v, r)'
  BY DEF Known
<1>2. AllAnnounced(daemons[d])'
  BY DEF Aware, AllAnnounced
<1>3. connection'[d] # "reset" => Approaching(d)'
  <2>1. ASSUME connection'[d] # "reset", NEW v \in 1 .. Vehicles
        PROVE  \E r \in 0 .. Made(d, v)' : Known(d, v, r)'
    BY <2>1, <1>1 DEF Aware, Approaching
  <2> QED
    BY <2>1 DEF Approaching
<1> QED
  BY <1>2, <1>3 DEF Aware

LEMMA AwareAccept ==
    ASSUME AInv, NEW e \in Daemon, AcceptStarts(e), NEW d \in Daemon
    PROVE  Aware(d)'
<1>1. /\ accept = Nobody /\ e \in waiting /\ waiting' = waiting \ {e}
      /\ accept' = IF Reachable(e) THEN [session |-> e, vehicle |-> 1, sent |-> 0] ELSE Nobody
      /\ UNCHANGED <<sessions, posted, buffers, connection, wire, daemons>>
  BY DEF AcceptStarts, Idle
<1>2. Line(d)' = Line(d) /\ (IsSession(d)' <=> IsSession(d)) /\ (Reachable(d)' <=> Reachable(d))
  BY <1>1 DEF Line, IsSession, Reachable
<1>3. \A v \in 1 .. Vehicles : Made(d, v)' = Made(d, v)
  BY <1>1, <1>2, RouteAssumption DEF Made, Announcing
<1>4. Reachable(d)' => d \in waiting' \/ Announcing(d)' \/ IsSession(d)'
  <2>1. SUFFICES ASSUME Reachable(d) PROVE d \in waiting' \/ Announcing(d)' \/ IsSession(d)'
    BY <1>2
  <2>2. d \in waiting \/ IsSession(d)
    BY <1>1, <2>1 DEF AInv, Aware, Approaching, Announcing, Reachable
  <2>3. CASE d = e
    <3>1. accept' = [session |-> e, vehicle |-> 1, sent |-> 0]
      BY <1>1, <2>1, <2>3
    <3>2. accept' # Nobody
      BY <3>1, RouteAssumption
    <3> QED
      BY <2>3, <3>1, <3>2 DEF Announcing
  <2>4. CASE d # e
    BY <1>1, <1>2, <2>2, <2>4
  <2> QED
    BY <2>3, <2>4
<1> QED
  BY <1>1, <1>2, <1>3, <1>4, AwareSame DEF AInv

\* A daemon that gets nothing from the step, but more may be on its way.
LEMMA AwareQueue ==
    ASSUME NEW d \in Daemon, Aware(d), UNCHANGED daemons, connection'[d] = connection[d],
           Reachable(d)' => d \in waiting' \/ Announcing(d)' \/ IsSession(d)',
           \A v \in 1 .. Vehicles : \A r \in 0 .. Made(d, v) :
               connection[d] # "reset" /\ Queued(Ranks(v, Line(d)), r, Made(d, v))
                   => r \in 0 .. Made(d, v)' /\ Queued(Ranks(v, Line(d)'), r, Made(d, v)')
    PROVE  Aware(d)'
<1>1. AllAnnounced(daemons[d])' /\ daemons'[d].vehicles \in [1 .. Vehicles -> VehicleState]
  BY DEF Aware, AllAnnounced
<1>2. ASSUME connection'[d] # "reset", NEW v \in 1 .. Vehicles
      PROVE  \E r \in 0 .. Made(d, v)' : Known(d, v, r)'
  <2>1. PICK r \in 0 .. Made(d, v) : Known(d, v, r)
    BY <1>2 DEF Aware, Approaching
  <2>2. r \in 0 .. Made(d, v)' /\ Queued(Ranks(v, Line(d)'), r, Made(d, v)')
    BY <1>2, <2>1 DEF Known
  <2>3. Progress(daemons[d].vehicles[v], r)'
    BY <2>1 DEF Known
  <2> QED
    BY <2>2, <2>3 DEF Known
<1> QED
  BY <1>1, <1>2 DEF Aware, Approaching

\* The queue of d when a handler is posted: longer by its message, or a blank.
LEMMA LinePosted ==
    ASSUME Types, NEW h \in Posted, posted' = Append(posted, h), UNCHANGED <<wire, buffers>>, NEW d \in Daemon
    PROVE  /\ Line(d)' \in Seq(Lined) /\ Len(Line(d)') = Len(Line(d)) + 1
           /\ \A i \in 1 .. Len(Line(d)) : Line(d)'[i] = Line(d)[i]
           /\ Line(d)'[Len(Line(d)) + 1] = IF h.session = d THEN h.message ELSE Blank
<1>1. wire[d] \in Seq(Message) /\ buffers[d] \in Seq(Message) /\ posted \in Seq(Posted)
  BY LineTyped
<1>2. PICK x : x = <<h>>
  OBVIOUS
<1>3. x \in Seq(Posted) /\ Len(x) = 1 /\ x[1] = h /\ posted \o x = Append(posted, h)
  BY <1>1, <1>2
<1>4. PICK l : l = Line(d)
  OBVIOUS
<1>5. PICK m : m = LineOf(wire[d], buffers[d], posted \o x, d)
  OBVIOUS
<1>6. Line(d)' = m
  BY <1>3, <1>5 DEF Line
<1>7. Longer(l, m, x, d)
  BY <1>1, <1>3, <1>4, <1>5, LineMore DEF Line
<1> QED
  BY <1>3, <1>4, <1>6, <1>7 DEF Longer

LEMMA AwareAnnounce ==
    ASSUME AInv, AnnounceNext, NEW d \in Daemon
    PROVE  Aware(d)'
<1>1. PICK e \in Daemon : e = accept.session
  BY DEF AnnounceNext, Idle, AInv, RInv, Types
<1>2. PICK a \in 1 .. Vehicles : a = accept.vehicle
  <2>1. accept \in [session : Daemon, vehicle : 1 .. Vehicles + 1, sent : 0 .. Waypoints + 2]
    BY DEF AnnounceNext, Idle, AInv, RInv, Types
  <2>2. accept.vehicle \in 1 .. Vehicles + 1 /\ accept.vehicle <= Vehicles
    BY <2>1 DEF AnnounceNext
  <2> QED
    BY <2>2, RouteAssumption
<1>3. PICK s \in 0 .. Waypoints + 2 : s = accept.sent
  BY DEF AnnounceNext, Idle, AInv, RInv, Types
<1>4. /\ accept # Nobody /\ connection[e] # "none" /\ e \notin waiting /\ ~IsSession(e)
      /\ UNCHANGED <<waiting, sessions, buffers, connection, wire, daemons>>
      /\ accept = [session |-> e, vehicle |-> a, sent |-> s]
      /\ Waypoints \in Nat /\ Vehicles \in Nat
  BY <1>1, <1>2, <1>3, RouteAssumption DEF AnnounceNext, Idle, AInv, RInv, Once, Types
<1>5. Types /\ Types' /\ Aware(d)
  BY TypesAccept DEF AInv, RInv
<1>6. (IsSession(d)' <=> IsSession(d)) /\ (Reachable(d)' <=> Reachable(d))
  BY <1>4 DEF IsSession, Reachable
<1>7. CASE ~Reachable(e)
  <2>1. accept' = Nobody /\ UNCHANGED posted
    BY <1>1, <1>7 DEF AnnounceNext
  <2>2. CASE d = e
    <3>1. connection'[d] = "reset"
      BY <1>4, <1>5, <1>7, <2>2 DEF Types, Reachable
    <3>2. AllAnnounced(daemons[d])' /\ daemons'[d].vehicles \in [1 .. Vehicles -> VehicleState]
      BY <1>4, <1>5 DEF Aware, AllAnnounced
    <3> QED
      BY <3>1, <3>2 DEF Aware
  <2>3. CASE d # e
    <3>1. Line(d)' = Line(d)
      BY <1>4, <2>1 DEF Line
    <3>2. ~Announcing(d) /\ ~Announcing(d)'
      BY <1>1, <2>1, <2>3 DEF Announcing
    <3>3. \A v \in 1 .. Vehicles : Made(d, v)' = Made(d, v)
      BY <3>2, <1>6 DEF Made
    <3>4. Reachable(d)' => d \in waiting' \/ Announcing(d)' \/ IsSession(d)'
      BY <1>4, <1>5, <1>6, <3>2 DEF Aware, Approaching, Reachable
    <3> QED
      BY <1>4, <1>5, <3>1, <3>3, <3>4, AwareSame
  <2> QED
    BY <2>2, <2>3
<1>8. CASE Reachable(e)
  <2>1. PICK m : m = Announced(a)[s + 1]
    OBVIOUS
  <2>2. /\ m \in Message /\ Rank(a, m) = s + 1
        /\ \A u \in 1 .. Vehicles : u # a => Rank(u, m) = 0
    <3>1. s + 1 \in 1 .. Waypoints + 3
      BY <1>4
    <3> QED
      BY <2>1, <3>1, AnnouncedFacts, AnnouncedRank
  <2>3. PICK h : h = [session |-> e, message |-> m]
    OBVIOUS
  <2>4. h \in Posted /\ h.session = e /\ h.message = m
    BY <2>2, <2>3 DEF Posted
  <2>5. posted' = Append(posted, h) /\ accept' = Advanced(accept)
    BY <1>1, <1>2, <1>3, <1>8, <2>1, <2>3 DEF AnnounceNext
  <2>6. PICK l \in Seq(Lined) : l = Line(d)
    BY <1>5, LineTyped
  <2>7. PICK k : k = Line(d)'
    OBVIOUS
  <2>8. /\ k \in Seq(Lined) /\ Len(k) = Len(l) + 1 /\ \A i \in 1 .. Len(l) : k[i] = l[i]
        /\ k[Len(l) + 1] = IF e = d THEN m ELSE Blank
    BY <1>4, <1>5, <2>4, <2>5, <2>6, <2>7, LinePosted
  <2>9. accept' # Nobody /\ accept' \in [session : Daemon, vehicle : 1 .. Vehicles + 1, sent : 0 .. Waypoints + 2]
        /\ accept'.session = e
        /\ \/ s + 1 < Waypoints + 3 /\ accept'.vehicle = a /\ accept'.sent = s + 1
           \/ s + 1 = Waypoints + 3 /\ accept'.vehicle = a + 1 /\ accept'.sent = 0
    <3>1. CASE s + 1 < Waypoints + 3
      <4>1. accept' = [session |-> e, vehicle |-> a, sent |-> s + 1]
        BY <3>1, <1>4, <2>5 DEF Advanced
      <4> QED
        BY <3>1, <4>1, <1>4, RouteAssumption
    <3>2. CASE ~(s + 1 < Waypoints + 3)
      <4>1. accept' = [session |-> e, vehicle |-> a + 1, sent |-> 0]
        BY <3>2, <1>4, <2>5 DEF Advanced
      <4> QED
        BY <3>2, <4>1, <1>4, RouteAssumption
    <3> QED
      BY <3>1, <3>2
  <2>10. Announcing(d) <=> d = e
    BY <1>1, <1>4 DEF Announcing
  <2>11. Announcing(d)' <=> d = e
    BY <2>9 DEF Announcing
  <2>12. Reachable(d)' => d \in waiting' \/ Announcing(d)' \/ IsSession(d)'
    BY <1>4, <1>5, <1>6, <2>10, <2>11 DEF Aware, Approaching, Reachable
  <2>13. ASSUME NEW v \in 1 .. Vehicles, NEW r \in 0 .. Made(d, v), Queued(Ranks(v, l), r, Made(d, v))
         PROVE  r \in 0 .. Made(d, v)' /\ Queued(Ranks(v, k), r, Made(d, v)')
    <3>1. PICK z \in 0 .. Waypoints + 3 : z = Made(d, v)
      BY <1>5, MadeFacts
    <3>2. r \in Nat /\ r <= z /\ Queued(Ranks(v, l), r, z) /\ Len(l) \in Nat
      BY <2>13, <3>1
    <3>3. /\ Rank(v, k[Len(l) + 1]) = 0 => Queued(Ranks(v, k), r, z)
          /\ Rank(v, k[Len(l) + 1]) = z + 1 /\ z < Waypoints + 3 => Queued(Ranks(v, k), r, z + 1)
      <4>1. 1 \in Nat /\ Len(k) = Len(l) + 1 /\ \A i \in 1 .. 1 : i = 1
        BY <2>8
      <4> QED
        BY <2>8, <3>2, <4>1, RankedMore
    <3>4. CASE d = e /\ v = a
      <4>1. z = s /\ Made(d, v)' = s + 1
        BY <1>1, <1>2, <1>3, <1>4, <1>6, <2>9, <2>10, <2>11, <3>1, <3>4 DEF Made
      <4> QED
        BY <1>4, <2>2, <2>8, <3>2, <3>3, <3>4, <4>1
    <3>5. CASE d = e /\ v # a
      <4>1. Made(d, v)' = z
        BY <1>1, <1>2, <1>3, <1>4, <1>6, <2>9, <2>10, <2>11, <3>1, <3>5 DEF Made
      <4> QED
        BY <2>2, <2>8, <3>2, <3>3, <3>5, <4>1
    <3>6. CASE d # e
      <4>1. Made(d, v)' = z
        BY <1>6, <2>10, <2>11, <3>1, <3>6 DEF Made
      <4>2. Rank(v, Blank) = 0
        BY RankFacts, LinedFacts
      <4> QED
        BY <2>8, <3>2, <3>3, <3>6, <4>1, <4>2
    <3> QED
      BY <3>4, <3>5, <3>6
  <2> QED
    BY <1>4, <1>5, <2>6, <2>7, <2>12, <2>13, AwareQueue
<1> QED
  BY <1>7, <1>8

LEMMA AwareAcceptEnds ==
    ASSUME AInv, AcceptEnds, NEW d \in Daemon
    PROVE  Aware(d)'
<1>1. PICK e \in Daemon : e = accept.session
  BY DEF AcceptEnds, Idle, AInv, RInv, Types
<1>2. /\ accept # Nobody /\ ~IsSession(e) /\ accept' = Nobody /\ accept.vehicle > Vehicles
      /\ UNCHANGED <<waiting, posted, buffers, connection, wire>>
      /\ daemons' = [daemons EXCEPT ![e].joined = LastTaken]
  BY <1>1 DEF AcceptEnds, Idle, AInv, RInv, Once
<1>3. Types /\ Aware(d) /\ Keeps(daemons[d])
  BY DEF AInv, RInv, Types
<1>4. daemons'[d].vehicles = daemons[d].vehicles /\ daemons'[d].positions = daemons[d].positions
  <2>1. daemons'[d] = IF d = e THEN [daemons[d] EXCEPT !.joined = LastTaken] ELSE daemons[d]
    BY <1>2, <1>3 DEF Types
  <2>2. PICK w, x, y, z : daemons[d] = [reading |-> w, vehicles |-> x, positions |-> y, joined |-> z]
    BY <1>3, Zenon DEF Keeps
  <2> QED
    BY <2>1, <2>2
<1>5. Line(d)' = Line(d) /\ (Reachable(d)' <=> Reachable(d))
  BY <1>2 DEF Line, Reachable
<1>6. (IsSession(d)' <=> IsSession(d) \/ d = e) /\ (Announcing(d) <=> d = e) /\ ~Announcing(d)'
  BY <1>1, <1>2, SessionsAccepted DEF Announcing, AInv
<1>7. \A v \in 1 .. Vehicles : v < accept.vehicle
  BY <1>2, RouteAssumption DEF AInv, RInv, Types
<1>8. \A v \in 1 .. Vehicles : Made(d, v)' = Made(d, v)
  BY <1>2, <1>6, <1>7 DEF Made
<1>9. Reachable(d)' => d \in waiting' \/ Announcing(d)' \/ IsSession(d)'
  BY <1>2, <1>3, <1>5, <1>6 DEF Aware, Approaching, Reachable
<1> QED
  BY <1>2, <1>3, <1>4, <1>5, <1>8, <1>9, AwareSame

LEMMA AwareRoutePosition ==
    ASSUME AInv, RoutePosition, NEW d \in Daemon
    PROVE  Aware(d)'
<1>1. PICK h : h = [session |-> Nobody, message |-> Of((routed % Vehicles) + 1, "position", routed')]
  OBVIOUS
<1>2. h \in Posted /\ h.session = Nobody
  <2>1. routed \in Nat /\ routed' \in Nat /\ Vehicles \in Nat \ {0}
    BY RouteAssumption DEF RoutePosition, AInv, RInv, Types
  <2>2. (routed % Vehicles) + 1 \in 1 .. Vehicles
    BY <2>1
  <2> QED
    BY <1>1, <2>1, <2>2 DEF Posted, Message, Of
<1>3. /\ posted' = Append(posted, h)
      /\ UNCHANGED <<waiting, accept, sessions, buffers, connection, wire, daemons>>
  BY <1>1 DEF RoutePosition
<1>4. Types /\ Aware(d)
  BY DEF AInv, RInv
<1>5. (IsSession(d)' <=> IsSession(d)) /\ (Announcing(d)' <=> Announcing(d)) /\ (Reachable(d)' <=> Reachable(d))
  BY <1>3 DEF IsSession, Reachable, Announcing
<1>6. \A v \in 1 .. Vehicles : Made(d, v)' = Made(d, v)
  BY <1>3, <1>5 DEF Made
<1>7. Reachable(d)' => d \in waiting' \/ Announcing(d)' \/ IsSession(d)'
  BY <1>3, <1>4, <1>5 DEF Aware, Approaching, Reachable
<1>8. PICK l \in Seq(Lined) : l = Line(d)
  BY <1>4, LineTyped
<1>9. PICK k : k = Line(d)'
  OBVIOUS
<1>10. /\ k \in Seq(Lined) /\ Len(k) = Len(l) + 1 /\ \A i \in 1 .. Len(l) : k[i] = l[i]
       /\ k[Len(l) + 1] = Blank
  BY <1>2, <1>3, <1>4, <1>8, <1>9, LinePosted, RouteAssumption
<1>11. ASSUME NEW v \in 1 .. Vehicles, NEW r \in 0 .. Made(d, v), Queued(Ranks(v, l), r, Made(d, v))
       PROVE  r \in 0 .. Made(d, v)' /\ Queued(Ranks(v, k), r, Made(d, v)')
  <2>1. PICK z \in 0 .. Waypoints + 3 : z = Made(d, v)
    BY <1>4, MadeFacts
  <2>2. r \in Nat /\ r <= z /\ Queued(Ranks(v, l), r, z)
    BY <1>11, <2>1
  <2>3. Rank(v, Blank) = 0
    BY RankFacts, LinedFacts
  <2>4. 1 \in Nat /\ \A i \in 1 .. 1 : i = 1
    OBVIOUS
  <2>5. Queued(Ranks(v, k), r, z)
    BY <1>10, <2>2, <2>3, <2>4, RankedMore
  <2> QED
    BY <1>6, <2>1, <2>5
<1> QED
  BY <1>3, <1>4, <1>7, <1>8, <1>9, <1>11, AwareQueue

\* A session queues a message it posted.
LEMMA AwareRunSession ==
    ASSUME AInv, RunPosted, Head(posted).session # Nobody, NEW d \in Daemon
    PROVE  Aware(d)'
<1>1. posted # <<>> /\ posted' = Tail(posted)
      /\ UNCHANGED <<waiting, accept, sessions, connection, wire, daemons>>
  BY DEF RunPosted
<1>2. Types /\ Aware(d) /\ Head(posted) \in Posted
  BY <1>1, PostedTail DEF AInv, RInv
<1>3. PICK e \in Daemon : e = Head(posted).session
  BY <1>2 DEF Posted
<1>4. PICK m \in Message : m = Head(posted).message
  BY <1>2 DEF Posted
<1>5. buffers' = [buffers EXCEPT ![e] = Append(buffers[e], m)]
  BY <1>3, <1>4 DEF RunPosted, Emplaced
<1>6. wire[d] \in Seq(Message) /\ buffers[d] \in Seq(Message) /\ posted \in Seq(Posted)
  BY <1>2, LineTyped
<1>7. (IsSession(d)' <=> IsSession(d)) /\ (Announcing(d)' <=> Announcing(d)) /\ (Reachable(d)' <=> Reachable(d))
  BY <1>1 DEF IsSession, Reachable, Announcing
<1>8. \A v \in 1 .. Vehicles : Made(d, v)' = Made(d, v)
  BY <1>1, <1>7 DEF Made
<1>9. Reachable(d)' => d \in waiting' \/ Announcing(d)' \/ IsSession(d)'
  BY <1>1, <1>2, <1>7 DEF Aware, Approaching, Reachable
<1>10. CASE d = e
  <2>1. buffers'[d] = Append(buffers[d], Head(posted).message)
    BY <1>2, <1>4, <1>5, <1>10 DEF Types
  <2>2. Line(d)' = LineOf(wire[d], Append(buffers[d], Head(posted).message), Tail(posted), d)
    BY <1>1, <2>1 DEF Line
  <2>3. Line(d)' = Line(d)
    BY <1>1, <1>3, <1>6, <1>10, <2>2, LineEmplaced DEF Line
  <2> QED
    BY <1>1, <1>2, <1>8, <1>9, <2>3, AwareSame
<1>11. CASE d # e
  <2>1. buffers'[d] = buffers[d]
    BY <1>2, <1>5, <1>11 DEF Types
  <2>2. PICK l \in Seq(Lined) : l = Line(d)
    BY <1>2, LineTyped
  <2>3. PICK k : k = Line(d)'
    OBVIOUS
  <2>4. k = LineOf(wire[d], buffers[d], Tail(posted), d)
    BY <1>1, <2>1, <2>3 DEF Line
  <2>5. Shorter(l, k, Len(wire[d]) + Len(buffers[d]))
    BY <1>1, <1>3, <1>6, <1>11, <2>2, <2>4, LineSkipped DEF Line
  <2>6. PICK j : j = Len(wire[d]) + Len(buffers[d])
    OBVIOUS
  <2>7. ASSUME NEW v \in 1 .. Vehicles, NEW r \in 0 .. Made(d, v), Queued(Ranks(v, l), r, Made(d, v))
        PROVE  r \in 0 .. Made(d, v)' /\ Queued(Ranks(v, k), r, Made(d, v)')
    <3>1. PICK z \in 0 .. Waypoints + 3 : z = Made(d, v)
      BY <1>2, MadeFacts
    <3>2. r \in Nat /\ z \in Nat /\ Queued(Ranks(v, l), r, z)
      BY <2>7, <3>1, RouteAssumption
    <3>3. Queued(Ranks(v, k), r, z)
      BY <2>5, <2>6, <3>2, RankedSkip DEF Shorter
    <3> QED
      BY <1>8, <3>1, <3>3
  <2> QED
    BY <1>1, <1>2, <1>9, <2>2, <2>3, <2>7, AwareQueue
<1> QED
  BY <1>10, <1>11

\* The handler of a position runs, and posts it to sessions.
LEMMA AwareRunRoute ==
    ASSUME AInv, RunPosted, Head(posted).session = Nobody, NEW d \in Daemon
    PROVE  Aware(d)'
<1>1. posted # <<>> /\ UNCHANGED <<waiting, accept, sessions, buffers, connection, wire, daemons>>
  BY DEF RunPosted
<1>2. Types /\ Upcoming /\ Aware(d)
  BY DEF AInv, RInv
<1>3. PICK m \in Message : m = Head(posted).message /\ Running(m)
  <2>1. Head(posted) = posted[1] /\ posted[1] \in Posted /\ 1 \in DOMAIN posted
    BY <1>1, <1>2, PostedTail
  <2>2. posted[1].message.kind = "position" /\ posted[1].message.number \in 1 .. routed
    BY <1>2, <2>1 DEF Upcoming
  <2>3. posted[1].message \in Message
    BY <2>1 DEF Posted
  <2> QED
    BY <2>1, <2>2, <2>3 DEF Running
<1>4. PICK n \in 0 .. Len(sessions) :
        posted' = Tail(posted) \o [i \in 1 .. n |-> [session |-> sessions[i], message |-> m]]
  BY <1>3 DEF RunPosted
<1>5. PICK x : x = [i \in 1 .. n |-> [session |-> sessions[i], message |-> m]]
  OBVIOUS
<1>6. sessions \in Seq(Daemon) /\ n \in Nat /\ n <= Len(sessions)
  BY <1>2 DEF Types
<1>7. /\ x \in Seq(Posted) /\ Len(x) = n
      /\ \A i \in 1 .. n : x[i].session = sessions[i] /\ x[i].message = m /\ sessions[i] \in Daemon
                           /\ i \in DOMAIN sessions
  <2>1. \A i \in 1 .. n : sessions[i] \in Daemon /\ i \in DOMAIN sessions
    BY <1>6
  <2>2. \A i \in 1 .. n : [session |-> sessions[i], message |-> m] \in Posted
    BY <2>1 DEF Posted
  <2> QED
    BY <1>5, <1>6, <2>1, <2>2
<1>8. wire[d] \in Seq(Message) /\ buffers[d] \in Seq(Message) /\ posted \in Seq(Posted)
      /\ Tail(posted) \in Seq(Posted)
  BY <1>1, <1>2, LineTyped, PostedTail
<1>9. (IsSession(d)' <=> IsSession(d)) /\ (Announcing(d)' <=> Announcing(d)) /\ (Reachable(d)' <=> Reachable(d))
  BY <1>1 DEF IsSession, Reachable, Announcing
<1>10. \A v \in 1 .. Vehicles : Made(d, v)' = Made(d, v)
  BY <1>1, <1>9 DEF Made
<1>11. Reachable(d)' => d \in waiting' \/ Announcing(d)' \/ IsSession(d)'
  BY <1>1, <1>2, <1>9 DEF Aware, Approaching, Reachable
<1>12. PICK l \in Seq(Lined) : l = Line(d)
  BY <1>2, LineTyped
<1>13. PICK t : t = LineOf(wire[d], buffers[d], Tail(posted), d)
  OBVIOUS
<1>14. PICK k : k = Line(d)'
  OBVIOUS
<1>15. PICK j : j = Len(wire[d]) + Len(buffers[d])
  OBVIOUS
<1>16. Shorter(l, t, j)
  BY <1>1, <1>8, <1>12, <1>13, <1>15, RouteAssumption, LineSkipped DEF Line
<1>17. Longer(t, k, x, d)
  <2>1. k = LineOf(wire[d], buffers[d], Tail(posted) \o x, d)
    BY <1>1, <1>4, <1>5, <1>14 DEF Line
  <2> QED
    BY <2>1, <1>7, <1>8, <1>13, LineMore
<1>18. ASSUME NEW v \in 1 .. Vehicles, NEW r \in 0 .. Made(d, v), Queued(Ranks(v, l), r, Made(d, v))
       PROVE  r \in 0 .. Made(d, v)' /\ Queued(Ranks(v, k), r, Made(d, v)')
  <2>1. PICK z \in 0 .. Waypoints + 3 : z = Made(d, v)
    BY <1>2, MadeFacts
  <2>2. r \in Nat /\ z \in Nat /\ r <= z /\ Queued(Ranks(v, l), r, z)
    BY <1>18, <2>1, RouteAssumption
  <2>3. t \in Seq(Lined) /\ Queued(Ranks(v, t), r, z)
    BY <1>16, <2>2, RankedSkip DEF Shorter
  <2>4. \A i \in 1 .. n : Rank(v, k[Len(t) + i]) = 0
                          \/ (Rank(v, k[Len(t) + i]) = Waypoints + 4 /\ z = Waypoints + 3)
    <3>1. SUFFICES ASSUME NEW i \in 1 .. n
                   PROVE  Rank(v, k[Len(t) + i]) = 0
                          \/ (Rank(v, k[Len(t) + i]) = Waypoints + 4 /\ z = Waypoints + 3)
      OBVIOUS
    <3>2. k[Len(t) + i] = IF sessions[i] = d THEN m ELSE Blank
      BY <1>7, <1>17 DEF Longer
    <3>3. Rank(v, Blank) = 0 /\ Rank(v, m) = Waypoints + 4
      BY <1>3, RankFacts, LinedFacts
    <3>4. sessions[i] = d => z = Waypoints + 3
      BY <1>7, <2>1 DEF Made, IsSession
    <3> QED
      BY <3>2, <3>3, <3>4
  <2>5. Queued(Ranks(v, k), r, z)
    BY <1>6, <1>7, <1>17, <2>2, <2>3, <2>4, RankedMore DEF Longer
  <2> QED
    BY <1>10, <2>1, <2>5
<1> QED
  BY <1>1, <1>2, <1>11, <1>12, <1>14, <1>18, AwareQueue

\* Nothing is on its way to a daemon that did not connect.
LEMMA UnconnectedEmpty ==
    ASSUME AInv, NEW d \in Daemon, connection[d] = "none"
    PROVE  buffers[d] = <<>>
<1>1. Types /\ Aware(d) /\ ~IsSession(d) /\ ~Announcing(d)
  BY DEF AInv, RInv, Once, Announcing
<1>2. /\ wire[d] \in Seq(Message) /\ buffers[d] \in Seq(Message) /\ posted \in Seq(Posted)
  BY <1>1, LineTyped
<1>3. SUFFICES ASSUME buffers[d] # <<>> PROVE FALSE
  OBVIOUS
<1>4. PICK l : l = Line(d)
  OBVIOUS
<1>5. Laid(l, wire[d], buffers[d], posted, d)
  BY <1>2, <1>4, LineFacts DEF Line
<1>6. PICK b \in Seq(Message) : b = buffers[d]
  BY <1>2
<1>7. 1 \in 1 .. Len(b) /\ b[1] \in Message
  BY <1>3, <1>6
<1>8. PICK i : i = Len(wire[d]) + 1
  OBVIOUS
<1>16. i \in 1 .. Len(l)
  <2>1. /\ Len(l) = Len(wire[d]) + Len(b) + Len(posted)
        /\ Len(wire[d]) \in Nat /\ Len(b) \in Nat /\ Len(posted) \in Nat
    BY <1>5, <1>6 DEF Laid
  <2>2. Len(b) > 0
    BY <1>7, <2>1
  <2> QED
    BY <1>8, <2>1, <2>2
<1>17. l[i] = b[1]
  BY <1>5, <1>6, <1>7, <1>8 DEF Laid
<1>9. PICK v \in 1 .. Vehicles : v = b[1].vehicle
  BY <1>7 DEF Message
<1>10. Rank(v, b[1]) > 0 /\ Rank(v, b[1]) \in Nat
  BY <1>7, <1>9, RouteAssumption DEF Rank, Message
<1>11. PICK r \in 0 .. Made(d, v) : Known(d, v, r)
  BY <1>1 DEF Aware, Approaching
<1>12. Made(d, v) = 0
  BY <1>1 DEF Made
<1>13. Queued(Ranks(v, l), 0, 0)
  BY <1>4, <1>11, <1>12 DEF Known
<1>14. PICK R : R = Ranks(v, l)
  OBVIOUS
<1>15. l \in Seq(Lined) /\ i \in 1 .. Len(R) /\ R[i] = Rank(v, b[1])
  <2>1. l \in Seq(Lined)
    BY <1>5 DEF Laid
  <2> QED
    BY <2>1, <1>16, <1>17, <1>14, RanksFacts
<1> QED
  BY <1>10, <1>13, <1>14, <1>15, RouteAssumption DEF Queued

LEMMA AwareWritten ==
    ASSUME AInv, NEW e \in Daemon, SessionWritten(e), NEW d \in Daemon
    PROVE  Aware(d)'
<1>1. /\ e \in writing /\ buffers' = [buffers EXCEPT ![e] = Tail(buffers[e])]
      /\ wire' = IF Reachable(e) THEN [wire EXCEPT ![e] = Append(wire[e], Head(buffers[e]))] ELSE wire
      /\ UNCHANGED <<waiting, accept, sessions, posted, connection, daemons>>
  BY DEF SessionWritten
<1>2. Types /\ Aware(d) /\ buffers[e] # <<>>
  BY <1>1 DEF AInv, RInv, Once
<1>3. wire[d] \in Seq(Message) /\ buffers[d] \in Seq(Message) /\ posted \in Seq(Posted)
  BY <1>2, LineTyped
<1>4. (IsSession(d)' <=> IsSession(d)) /\ (Announcing(d)' <=> Announcing(d)) /\ (Reachable(d)' <=> Reachable(d))
  BY <1>1 DEF IsSession, Reachable, Announcing
<1>5. \A v \in 1 .. Vehicles : Made(d, v)' = Made(d, v)
  BY <1>1, <1>4 DEF Made
<1>6. Reachable(d)' => d \in waiting' \/ Announcing(d)' \/ IsSession(d)'
  BY <1>1, <1>2, <1>4 DEF Aware, Approaching, Reachable
<1>7. CASE d # e
  <2>1. buffers'[d] = buffers[d] /\ wire'[d] = wire[d]
    BY <1>1, <1>2, <1>7 DEF Types
  <2>2. Line(d)' = Line(d)
    BY <1>1, <2>1 DEF Line
  <2> QED
    BY <1>1, <1>2, <1>5, <1>6, <2>2, AwareSame
<1>8. CASE d = e /\ Reachable(e)
  <2>1. buffers'[d] = Tail(buffers[d]) /\ wire'[d] = Append(wire[d], Head(buffers[d]))
    BY <1>1, <1>2, <1>8 DEF Types
  <2>2. Line(d)' = LineOf(Append(wire[d], Head(buffers[d])), Tail(buffers[d]), posted, d)
    BY <1>1, <2>1 DEF Line
  <2>3. Line(d)' = Line(d)
    BY <1>2, <1>3, <1>8, <2>2, LineWritten DEF Line
  <2> QED
    BY <1>1, <1>2, <1>5, <1>6, <2>3, AwareSame
<1>9. CASE d = e /\ ~Reachable(e)
  <2>1. connection[d] # "none"
    BY <1>2, <1>9, UnconnectedEmpty
  <2>2. connection'[d] = "reset"
    BY <1>1, <1>2, <1>9, <2>1 DEF Types, Reachable
  <2>3. AllAnnounced(daemons[d])' /\ daemons'[d].vehicles \in [1 .. Vehicles -> VehicleState]
    BY <1>1, <1>2 DEF Aware, AllAnnounced
  <2> QED
    BY <2>2, <2>3 DEF Aware
<1> QED
  BY <1>7, <1>8, <1>9

LEMMA AwareConnects ==
    ASSUME AInv, NEW e \in Daemon, DaemonConnects(e) \/ Reset(e), NEW d \in Daemon
    PROVE  Aware(d)'
<1>1. Types /\ Aware(d) /\ Keeps(daemons[d])
  BY DEF AInv, RInv, Types
<1>2. PICK q \in BOOLEAN : daemons' = [daemons EXCEPT ![e].reading = q]
  BY DEF DaemonConnects, Reset
<1>3. daemons'[d].vehicles = daemons[d].vehicles /\ daemons'[d].positions = daemons[d].positions
  BY <1>1, <1>2, ReadingSet
<1>4. UNCHANGED <<accept, sessions, posted, buffers>>
  BY DEF DaemonConnects, Reset
<1>5. (IsSession(d)' <=> IsSession(d)) /\ (Announcing(d)' <=> Announcing(d))
  BY <1>4 DEF IsSession, Announcing
<1>6. \A v \in 1 .. Vehicles : Made(d, v)' = Made(d, v)
  BY <1>4, <1>5 DEF Made
<1>7. CASE Reset(e) /\ d = e
  <2>1. connection'[d] = "reset"
    BY <1>1, <1>7 DEF Reset, Types
  <2>2. AllAnnounced(daemons[d])' /\ daemons'[d].vehicles \in [1 .. Vehicles -> VehicleState]
    BY <1>1, <1>3 DEF Aware, AllAnnounced
  <2> QED
    BY <2>1, <2>2 DEF Aware
<1>8. CASE DaemonConnects(e) \/ d # e
  <2>1. wire'[d] = wire[d]
    BY <1>1, <1>8 DEF DaemonConnects, Reset, Types
  <2>2. Line(d)' = Line(d)
    BY <1>4, <2>1 DEF Line
  <2>3. connection'[d] = connection[d] \/ (d = e /\ connection[d] = "none" /\ connection'[d] = "up" /\ d \in waiting')
    BY <1>1, <1>8 DEF DaemonConnects, Reset, Types
  <2>4. d \in waiting => d \in waiting'
    BY DEF DaemonConnects, Reset
  <2>5. Reachable(d)' => d \in waiting' \/ Announcing(d)' \/ IsSession(d)'
    BY <1>1, <1>5, <2>3, <2>4 DEF Aware, Approaching, Reachable
  <2> QED
    BY <1>1, <1>3, <1>6, <2>2, <2>3, <2>5, AwareSame
<1> QED
  BY <1>7, <1>8

\* The daemon reads a message.
LEMMA AwareReceive ==
    ASSUME AInv, NEW e \in Daemon, Receive(e), NEW d \in Daemon
    PROVE  Aware(d)'
<1>1. /\ daemons[e].reading /\ wire[e] # <<>>
      /\ daemons' = [daemons EXCEPT ![e] = Handled(daemons[e], Head(wire[e]))]
      /\ wire' = [wire EXCEPT ![e] = Tail(wire[e])]
      /\ UNCHANGED <<waiting, accept, sessions, posted, buffers, connection>>
  BY DEF Receive
<1>2. Types /\ Aware(d) /\ Keeps(daemons[d]) /\ connection[e] = "up"
  BY <1>1 DEF AInv, RInv, Types, Once
<1>3. wire[d] \in Seq(Message) /\ buffers[d] \in Seq(Message) /\ posted \in Seq(Posted)
  BY <1>2, LineTyped
<1>4. (IsSession(d)' <=> IsSession(d)) /\ (Announcing(d)' <=> Announcing(d)) /\ (Reachable(d)' <=> Reachable(d))
  BY <1>1 DEF IsSession, Reachable, Announcing
<1>5. \A v \in 1 .. Vehicles : Made(d, v)' = Made(d, v)
  BY <1>1, <1>4 DEF Made
<1>6. Reachable(d)' => d \in waiting' \/ Announcing(d)' \/ IsSession(d)'
  BY <1>1, <1>2, <1>4 DEF Aware, Approaching, Reachable
<1>7. CASE d # e
  <2>1. daemons'[d] = daemons[d] /\ wire'[d] = wire[d]
    BY <1>1, <1>2, <1>7 DEF Types
  <2>2. Line(d)' = Line(d)
    BY <1>1, <2>1 DEF Line
  <2> QED
    BY <1>1, <1>2, <1>5, <1>6, <2>1, <2>2, AwareSame
<1>8. CASE d = e
  <2>1. PICK m \in Message : m = Head(wire[d])
    BY <1>1, <1>3, <1>8
  <2>2. PICK x : x = daemons[d]
    OBVIOUS
  <2>3. PICK y : y = daemons'[d]
    OBVIOUS
  <2>4. y = Handled(x, m) /\ wire'[d] = Tail(wire[d])
    BY <1>1, <1>2, <1>8, <2>1, <2>2, <2>3 DEF Types
  <2>5. /\ Keeps(x) /\ x.vehicles \in [1 .. Vehicles -> VehicleState] /\ AllAnnounced(x)
        /\ m.vehicle \in 1 .. Vehicles /\ m.number \in Nat
    BY <1>2, <2>1, <2>2 DEF Aware, Message
  <2>6. /\ y.vehicles = [x.vehicles EXCEPT ![m.vehicle] = Tracked(x.vehicles[m.vehicle], m)]
        /\ y.positions = IF Reported(m) > 0 THEN Append(x.positions, Reported(m)) ELSE x.positions
    BY <2>1, <2>4, <2>5, HandledFacts
  <2>7. PICK l \in Seq(Lined) : l = Line(d)
    BY <1>2, LineTyped
  <2>8. PICK k : k = Line(d)'
    OBVIOUS
  <2>9. /\ l # <<>> /\ l[1] = m /\ k \in Seq(Lined) /\ Len(k) = Len(l) - 1
        /\ \A i \in 1 .. Len(k) : k[i] = l[i + 1]
    <3>1. k = LineOf(Tail(wire[d]), buffers[d], posted, d)
      BY <1>1, <2>4, <2>8 DEF Line
    <3>2. Tail(wire[d]) \in Seq(Message)
      BY <1>1, <1>3, <1>8
    <3>3. Laid(k, Tail(wire[d]), buffers[d], posted, d)
      BY <1>3, <3>1, <3>2, LineFacts
    <3>4. k \in Seq(Lined)
      BY <3>3 DEF Laid
    <3> QED
      BY <1>1, <1>3, <1>8, <2>1, <2>7, <3>1, <3>4, LineReceived DEF Line
  <2>10. ASSUME NEW v \in 1 .. Vehicles
         PROVE  \E r \in 0 .. Made(d, v) :
                    /\ Progress(x.vehicles[v], r) /\ r \in 0 .. Waypoints + 3
                    /\ \/ v # m.vehicle /\ ~Running(m) /\ Queued(Ranks(v, k), r, Made(d, v))
                       \/ v = m.vehicle /\ ~Running(m) /\ Rank(v, m) = r + 1 /\ r + 1 \in 0 .. Made(d, v)
                            /\ r + 1 <= Waypoints + 3 /\ Queued(Ranks(v, k), r + 1, Made(d, v))
                       \/ Running(m) /\ r = Waypoints + 3 /\ Queued(Ranks(v, k), r, Made(d, v))
    <3>1. PICK r \in 0 .. Made(d, v) : Known(d, v, r)
      BY <1>2, <1>8 DEF Aware, Approaching
    <3>2. PICK z \in 0 .. Waypoints + 3 : z = Made(d, v)
      BY <1>2, MadeFacts
    <3>3. /\ r \in Nat /\ z \in Nat /\ r <= z /\ Queued(Ranks(v, l), r, z) /\ Progress(x.vehicles[v], r)
          /\ Waypoints \in Nat
      BY <2>2, <2>7, <3>1, <3>2, RouteAssumption DEF Known
    <3>4. \/ Rank(v, m) = 0 /\ Queued(Ranks(v, k), r, z)
          \/ Rank(v, m) = r + 1 /\ r < z /\ Queued(Ranks(v, k), r + 1, z)
          \/ Rank(v, m) = Waypoints + 4 /\ r = Waypoints + 3 /\ z = Waypoints + 3 /\ Queued(Ranks(v, k), r, z)
      BY <2>9, <3>2, <3>3, RankedTail
    <3>5. /\ Running(m) <=> Rank(v, m) = Waypoints + 4
          /\ ~Running(m) /\ v # m.vehicle => Rank(v, m) = 0
          /\ v = m.vehicle => Rank(v, m) # 0
      BY <2>5, <3>3 DEF Rank, Message
    <3> QED
      BY <3>2, <3>3, <3>4, <3>5
  <2>11. y.vehicles \in [1 .. Vehicles -> VehicleState]
         /\ \A v \in 1 .. Vehicles : \E r \in 0 .. Made(d, v) :
                r \in 0 .. Waypoints + 3 /\ Progress(y.vehicles[v], r) /\ Queued(Ranks(v, k), r, Made(d, v))
    <3>1. CASE Running(m)
      <4>1. Tracked(x.vehicles[m.vehicle], m) = x.vehicles[m.vehicle]
        BY <3>1 DEF Running, Tracked
      <4>2. y.vehicles = x.vehicles
        BY <2>5, <2>6, <4>1
      <4> QED
        BY <2>5, <2>10, <3>1, <4>2
    <3>2. CASE ~Running(m)
      <4>1. PICK w \in 1 .. Vehicles : w = m.vehicle
        BY <2>5
      <4>2. PICK r \in 0 .. Made(d, w) :
              /\ Progress(x.vehicles[w], r) /\ r \in 0 .. Waypoints + 3 /\ Rank(w, m) = r + 1
              /\ r + 1 \in 0 .. Made(d, w) /\ r + 1 <= Waypoints + 3 /\ Queued(Ranks(w, k), r + 1, Made(d, w))
        BY <2>10, <3>2, <4>1
      <4>3. r \in 0 .. Waypoints + 2 /\ r + 1 \in 0 .. Waypoints + 3
        BY <4>2, RouteAssumption
      <4>4. Tracked(x.vehicles[w], m) \in VehicleState /\ Progress(Tracked(x.vehicles[w], m), r + 1)
        BY <2>5, <4>1, <4>2, <4>3, TrackedFacts
      <4>5. y.vehicles[w] = Tracked(x.vehicles[w], m) /\ \A v \in 1 .. Vehicles : v # w => y.vehicles[v] = x.vehicles[v]
        BY <2>5, <2>6, <4>1
      <4>6. y.vehicles \in [1 .. Vehicles -> VehicleState]
        BY <2>5, <2>6, <4>1, <4>4
      <4> QED
        BY <2>10, <3>2, <4>1, <4>2, <4>3, <4>4, <4>5, <4>6
    <3> QED
      BY <3>1, <3>2
  <2>12. AllAnnounced(y)
    <3>1. SUFFICES ASSUME NEW v \in 1 .. Vehicles,
                          y.vehicles[v].system_status = "ACTIVE" \/ y.positions # <<>>
                   PROVE  /\ y.vehicles[v].system_status = "ACTIVE"
                          /\ Len(y.vehicles[v].mission.coordinates) = Waypoints
                          /\ y.vehicles[v].mission.mission_size = Waypoints
      BY DEF AllAnnounced
    <3>2. PICK r \in 0 .. Made(d, v) : r \in 0 .. Waypoints + 3 /\ Progress(y.vehicles[v], r)
      BY <2>11
    <3>3. y.vehicles[v].system_status = "ACTIVE"
      <4>1. CASE Running(m)
        <5>1. Tracked(x.vehicles[m.vehicle], m) = x.vehicles[m.vehicle]
          BY <4>1 DEF Running, Tracked
        <5>2. y.vehicles = x.vehicles
          BY <2>5, <2>6, <5>1
        <5> QED
          BY <2>10, <4>1, <5>2, RouteAssumption DEF Progress
      <4>2. CASE ~Running(m)
        <5>1. y.positions = x.positions
          BY <2>5, <2>6, <4>2 DEF Reported, Running
        <5>2. SUFFICES ASSUME y.vehicles[v].system_status # "ACTIVE", x.positions # <<>> PROVE FALSE
          BY <3>1, <5>1
        <5>3. x.vehicles[v].system_status = "ACTIVE"
          BY <2>5, <5>2 DEF AllAnnounced
        <5>4. v # m.vehicle
          BY <2>10, <4>2, <5>3, RouteAssumption DEF Progress
        <5>5. y.vehicles[v] = x.vehicles[v]
          BY <2>5, <2>6, <5>4
        <5> QED
          BY <5>2, <5>3, <5>5
      <4> QED
        BY <4>1, <4>2
    <3>4. r = Waypoints + 3
      BY <3>2, <3>3 DEF Progress
    <3> QED
      BY <3>2, <3>3, <3>4, RouteAssumption DEF Progress, Items
  <2>13. Approaching(d)'
    <3>1. ASSUME NEW v \in 1 .. Vehicles PROVE \E r \in 0 .. Made(d, v)' : Known(d, v, r)'
      <4>1. PICK r \in 0 .. Made(d, v) : Progress(y.vehicles[v], r) /\ Queued(Ranks(v, k), r, Made(d, v))
        BY <2>11
      <4> QED
        BY <1>5, <2>3, <2>8, <4>1 DEF Known
    <3> QED
      BY <1>6, <3>1 DEF Approaching
  <2> QED
    BY <2>3, <2>11, <2>12, <2>13 DEF Aware
<1> QED
  BY <1>7, <1>8

LEMMA AwareInit == ASSUME RouteInit, NEW d \in Daemon PROVE Aware(d)
<1>1. Types
  BY TypesInit
<1>2. daemons[d] = [reading |-> FALSE, positions |-> <<>>, joined |-> 0,
                    vehicles |-> [v \in 1 .. Vehicles |-> NewVehicle]]
  BY DEF RouteInit
<1>3. /\ connection[d] = "none" /\ sessions = <<>> /\ accept = Nobody
      /\ wire[d] = <<>> /\ buffers[d] = <<>> /\ posted = <<>>
  BY DEF RouteInit
<1>4. /\ daemons[d].vehicles \in [1 .. Vehicles -> VehicleState]
      /\ daemons[d].positions = <<>> /\ \A v \in 1 .. Vehicles : daemons[d].vehicles[v] = NewVehicle
  BY <1>2, NewVehicleFacts
<1>5. AllAnnounced(daemons[d])
  BY <1>4 DEF AllAnnounced, NewVehicle
<1>6. ~IsSession(d) /\ ~Announcing(d) /\ ~Reachable(d)
  BY <1>3 DEF IsSession, Announcing, Reachable
<1>7. \A v \in 1 .. Vehicles : Made(d, v) = 0
  BY <1>6 DEF Made
<1>8. PICK l : l = Line(d)
  OBVIOUS
<1>9. l \in Seq(Lined) /\ Len(l) = 0
  <2>1. Laid(l, wire[d], buffers[d], posted, d)
    BY <1>1, <1>8, LineTyped, LineFacts DEF Line
  <2> QED
    BY <1>3, <2>1 DEF Laid
<1>10. ASSUME NEW v \in 1 .. Vehicles PROVE \E r \in 0 .. Made(d, v) : Known(d, v, r)
  <2>1. PICK R : R = Ranks(v, l)
    OBVIOUS
  <2>2. Len(R) = 0
    BY <1>9, <2>1, RanksFacts
  <2>3. Queued(R, 0, 0)
    BY <2>2 DEF Queued
  <2>4. Known(d, v, 0)
    BY <1>4, <1>7, <1>8, <2>1, <2>3, NewVehicleFacts DEF Known
  <2> QED
    BY <1>7, <2>4
<1> QED
  BY <1>4, <1>5, <1>6, <1>10 DEF Aware, Approaching

LEMMA AwareNext ==
    ASSUME AInv, [RouteNext]_routeVars, NEW d \in Daemon
    PROVE  Aware(d)'
<1>1. ASSUME NEW e \in Daemon, AcceptStarts(e) PROVE Aware(d)'
  BY <1>1, AwareAccept
<1>2. CASE AnnounceNext
  BY <1>2, AwareAnnounce
<1>3. CASE AcceptEnds
  BY <1>3, AwareAcceptEnds
<1>4. CASE RunPosted /\ Head(posted).session = Nobody
  BY <1>4, AwareRunRoute
<1>5. CASE RunPosted /\ Head(posted).session # Nobody
  BY <1>5, AwareRunSession
<1>6. CASE RoutePosition
  BY <1>6, AwareRoutePosition
<1>7. ASSUME NEW e \in Daemon, SessionWritten(e) PROVE Aware(d)'
  BY <1>7, AwareWritten
<1>8. ASSUME NEW e \in Daemon, DaemonConnects(e) \/ Reset(e) PROVE Aware(d)'
  BY <1>8, AwareConnects
<1>9. ASSUME NEW e \in Daemon, Receive(e) PROVE Aware(d)'
  BY <1>9, AwareReceive
<1>10. CASE UNCHANGED routeVars
  <2>1. UNCHANGED <<waiting, accept, sessions, posted, buffers, connection, wire, daemons>>
    BY <1>10 DEF routeVars
  <2>2. (IsSession(d)' <=> IsSession(d)) /\ (Announcing(d)' <=> Announcing(d)) /\ (Reachable(d)' <=> Reachable(d))
    BY <2>1 DEF IsSession, Reachable, Announcing
  <2>3. Line(d)' = Line(d) /\ \A v \in 1 .. Vehicles : Made(d, v)' = Made(d, v)
    BY <2>1, <2>2 DEF Line, Made
  <2>4. Aware(d) /\ (Reachable(d)' => d \in waiting' \/ Announcing(d)' \/ IsSession(d)')
    BY <2>1, <2>2 DEF AInv, Aware, Approaching, Reachable
  <2> QED
    BY <2>1, <2>3, <2>4, AwareSame
<1> QED
  BY <1>1, <1>2, <1>3, <1>4, <1>5, <1>6, <1>7, <1>8, <1>9, <1>10 DEF RouteNext

\* What bounds the model.
Limits == accepting \in BOOLEAN /\ routed <= MaxRouted

LEMMA AInvNext == ASSUME AInv, Limits, [RouteNext]_routeVars PROVE AInv' /\ Limits'
<1>1. RInv'
  BY RInvNext DEF AInv
<1>2. ASSUME NEW d \in Daemon PROVE Aware(d)'
  BY <1>2, AwareNext
<1>3. accepting' \in BOOLEAN
  BY DEF RouteNext, routeVars, Limits, AcceptStarts, AnnounceNext, AcceptEnds, RunPosted, SessionWritten,
         RoutePosition, DaemonConnects, Reset, Receive
<1>4. routed' <= MaxRouted
  <2>1. routed \in Nat /\ MaxRouted \in Nat
    BY RouteAssumption DEF AInv, RInv, Types
  <2>2. routed' = routed \/ (routed < MaxRouted /\ routed' = routed + 1)
    BY DEF RouteNext, routeVars, AcceptStarts, AnnounceNext, AcceptEnds, RunPosted, SessionWritten,
           RoutePosition, DaemonConnects, Reset, Receive
  <2> QED
    BY <2>1, <2>2 DEF Limits
<1> QED
  BY <1>1, <1>2, <1>3, <1>4 DEF AInv, Limits

\* A sequence is one over any set its items are from.
LEMMA SequenceOver ==
    ASSUME NEW S, NEW T, NEW y \in Seq(S), \A i \in 1 .. Len(y) : y[i] \in T
    PROVE  y \in Seq(T)
<1>1. PICK n \in Nat : y = [i \in 1 .. n |-> y[i]] /\ n = Len(y)
  <2>1. Len(y) \in Nat /\ y = [i \in 1 .. Len(y) |-> y[i]]
    OBVIOUS
  <2> QED
    BY <2>1
<1>2. y \in [1 .. n -> T]
  BY <1>1, Zenon
<1>3. [1 .. n -> T] \subseteq Seq(T)
  BY SMT
<1> QED
  BY <1>2, <1>3

LEMMA AInvTyped == ASSUME AInv, Limits PROVE RouteTypeOK
<1>1. Types /\ routed \in 0 .. MaxRouted /\ MaxRouted \in Nat
  BY RouteAssumption DEF AInv, RInv, Types, Limits
<1>2. ASSUME NEW d \in Daemon PROVE daemons[d] \in DaemonState
  <2>1. Keeps(daemons[d]) /\ Aware(d) /\ OnTheWay(d) /\ daemons[d].joined <= routed
    BY DEF AInv, RInv, Types
  <2>2. PICK w, x, y, z : daemons[d] = [reading |-> w, vehicles |-> x, positions |-> y, joined |-> z]
    BY <2>1, Zenon DEF Keeps
  <2>3. w \in BOOLEAN /\ x \in [1 .. Vehicles -> VehicleState] /\ y \in Seq(Nat \ {0}) /\ z \in 0 .. MaxRouted
    BY <2>1, <2>2, <1>1 DEF Keeps, Aware
  <2>4. y \in Seq(1 .. MaxRouted)
    <3>1. ASSUME NEW i \in 1 .. Len(y) PROVE y[i] \in 1 .. MaxRouted
      <4>1. y[i] \in Nat \ {0} /\ i \in Nat /\ i \in DOMAIN y
        BY <2>3
      <4>2. Place(d, 1, i, y[i])
        BY <2>2, <4>1 DEF Place
      <4> QED
        BY <1>1, <2>1, <4>1, <4>2 DEF OnTheWay, Bounded
    <3> QED
      BY <2>3, <3>1, SequenceOver
  <2> QED
    BY <2>2, <2>3, <2>4 DEF DaemonState
<1>3. daemons \in [Daemon -> DaemonState]
  BY <1>1, <1>2 DEF Types
<1> QED
  BY <1>1, <1>3 DEF Types, RouteTypeOK, Limits

\* The invariant with the announcements in it.
THEOREM AnnouncementInvariant == RouteSpec => [](AInv /\ Limits)
<1>1. RouteInit => AInv
  BY RInvInit, AwareInit DEF AInv
<1>2. RouteInit => Limits
  BY RouteAssumption DEF RouteInit, Limits
<1>3. AInv /\ Limits /\ [RouteNext]_routeVars => (AInv /\ Limits)'
  BY AInvNext
<1> QED
  BY <1>1, <1>2, <1>3, PTL DEF RouteSpec

\* AnnouncedBeforeFlown: a daemon gets the announcement of every vehicle whole
\* and in order, and none of the running simulation before it.
THEOREM AnnouncementsComeFirst == RouteSpec => []AnnouncedBeforeFlown
<1>1. AInv => AnnouncedBeforeFlown
  BY DEF AInv, Aware, AllAnnounced, AnnouncedBeforeFlown
<1> QED
  BY <1>1, AnnouncementInvariant, PTL

\* What the simulator and the daemons hold has its type: with the missions
\* their vehicles assemble, which are never longer than what was announced.
THEOREM RouteTypes == RouteSpec => []RouteTypeOK
<1>1. AInv /\ Limits => RouteTypeOK
  BY AInvTyped
<1> QED
  BY <1>1, AnnouncementInvariant, PTL
=============================================================================
